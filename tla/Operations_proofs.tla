--------------------------- MODULE Operations_proofs ---------------------------
(***************************************************************************)
(* Proofs about session actors (tasks of one key never run side by side,   *)
(* and the map of counted mutexes implements KeyedMutex), automatic        *)
(* retries (a retry is never a second turn of its session, and nothing is  *)
(* retried that a /stop has ended), the state store (a restart finds what  *)
(* the program works with, and the rewriting of old session keys loses     *)
(* nothing), calls of the Feishu API (none fails for a token another call  *)
(* has replaced), the tool server (a file goes to the conversation that    *)
(* sent it) and local files on the drive (a link that is shown can be      *)
(* opened).                                                                *)
(***************************************************************************)
EXTENDS SessionActors, AutoRetry, StateStore, FeishuApi, ToolCalls, SharedFiles,
        FiniteSetTheorems, SequenceTheorems, WellFoundedInduction, TLAPS

Statuses == {"completed", "failed", "interrupted"}
TimerWorks == timer.pc \in {"session", "start", "started", "finish"}

LoopStates == [on : BOOLEAN, canceled : BOOLEAN, timer : 0 .. MaxTimers,
               thread : Int]
Sessions == [thread : Int, active : SUBSET Turns, steer : BOOLEAN,
             queue : Int]
TimerStates == [pc : {"idle", "lock", "check", "session", "start", "started", "finish"},
                n : 0 .. MaxTimers, thread : Int]
FinStates == [pc : {"idle", "observe", "next"}, k : 0 .. MaxTurns,
              status : Statuses \cup {"none"}, thread : Int,
              busy : BOOLEAN]
ChatStates == [pc : {"idle", "target", "cancel", "interrupt", "fresh"},
               k : 0 .. MaxTurns, round : Int]
Counts == [turns : 0 .. MaxTurns, inputs : Int, stops : Int, toggles : Int]

\* The types that the argument needs, those of the tracker first.
TrackerTypes ==
  /\ st \in LoopStates /\ seq \in 0 .. MaxTimers /\ armed \subseteq Timers
  /\ origin \in [Timers -> 0 .. MaxTurns]

RetryTypes ==
  /\ TrackerTypes /\ enabled \in BOOLEAN /\ fired \subseteq Timers
  /\ sess \in Sessions /\ timer \in TimerStates /\ fin \in FinStates
  /\ chat \in ChatStates /\ count \in Counts /\ stopped \subseteq 0 .. MaxTurns

\* Who holds the session's actor and the dispatch lock.
Holders ==
  /\ timer.pc # "idle" => actor = "timer" /\ timer.n \in Timers
  /\ fin.pc # "idle" => actor = "events" /\ fin.k \in Turns
  /\ timer.pc \notin {"idle", "lock"} => lock = "timer"
  /\ chat.pc \in {"target", "cancel", "interrupt"} => lock = "stop"

\* Turns and timers are numbered in the order in which they start.
Numbered ==
  /\ \A k \in sess.active : k <= count.turns
  /\ \A k \in stopped : k <= count.turns
  /\ fin.k <= count.turns /\ chat.k <= count.turns
  /\ \A n \in Timers : origin[n] <= count.turns
  /\ st.timer <= seq /\ (st.timer # 0 => st.on)

\* A session runs one turn.
OneActive == \A j, k \in sess.active : j = k

\* The callback of a timer owns the retry loop: it blocks the queue, and no
\* turn runs when the callback starts one.
Owned ==
  /\ timer.pc \in {"session", "start", "started"} => st.on /\ ~st.canceled
  /\ timer.pc \in {"session", "start"} => st.timer = 0
  /\ timer.pc = "start" => sess.active = {}

RetryInv == RetryTypes /\ Holders /\ Numbered /\ OneActive /\ Owned

\* While a callback works no /stop has marked the loop.
Unmarked == TimerWorks => ~st.canceled

\* A turn that a /stop has found finds the mark when it ends.
Marked ==
  \A k \in stopped :
    k \in sess.active \/ (fin.pc = "observe" /\ fin.k = k)
      => (st.on /\ st.canceled) \/ ~enabled

\* The timer the loop waits for, and the one whose callback works, retry a turn
\* that no /stop has found.
Free ==
  /\ st.timer # 0 /\ ~st.canceled => origin[st.timer] \notin stopped
  /\ timer.pc \in {"session", "start"} => origin[timer.n] \notin stopped
  /\ timer.pc = "started" => count.turns \notin stopped

\* A turn that is retried has ended and has been observed.
Ended ==
  /\ fin.pc # "idle" => fin.k \notin sess.active
  /\ \A n \in Timers : /\ origin[n] \notin sess.active
                       /\ fin.pc = "observe" => fin.k # origin[n]

StopInv == /\ RetryTypes /\ Holders /\ Numbered /\ Unmarked /\ Ended /\ Marked
           /\ Free
-----------------------------------------------------------------------------
(* What an operation of the tracker leaves behind.                         *)

Kept == /\ st'.on = st.on /\ st'.canceled = st.canceled /\ st'.timer = st.timer
        /\ seq' = seq /\ origin' = origin
Gone == /\ ~st'.on /\ ~st'.canceled /\ st'.timer = 0
        /\ seq' = seq /\ origin' = origin
Rearmed(k) == /\ st'.on /\ st'.canceled = st.canceled /\ st'.timer = seq'
              /\ seq' \in Timers /\ seq < seq' /\ origin' = [origin EXCEPT ![seq'] = k]
Given == /\ st'.on /\ st'.canceled /\ st'.timer = 0
         /\ seq' = seq /\ origin' = origin

\* A timer is armed for turn k: it is a new one.
LEMMA ArmDoes ==
  ASSUME TrackerTypes, NEW r \in LoopStates, NEW k \in 0 .. MaxTurns, r.on,
         r.canceled = st.canceled, Arm(r, k)
  PROVE  TrackerTypes' /\ Rearmed(k)
  <1> USE RetryAssumption DEF Arm, Timers
  <1>1. seq + 1 \in Timers /\ seq' = seq + 1
    BY DEF TrackerTypes
  <1>2. st' = [r EXCEPT !.timer = seq'] /\ seq' \in 0 .. MaxTimers
    BY <1>1 DEF TrackerTypes
  <1>a. st' \in LoopStates /\ st'.on = r.on /\ st'.canceled = r.canceled /\ st'.timer = seq'
    BY <1>2 DEF LoopStates
  <1>3. origin' \in [Timers -> 0 .. MaxTurns] /\ origin' = [origin EXCEPT ![seq'] = k]
    BY <1>1 DEF TrackerTypes
  <1> QED
    BY <1>1, <1>a, <1>3 DEF TrackerTypes, Rearmed

\* The loop goes.
LEMMA DropDoes ==
  ASSUME TrackerTypes, Drop
  PROVE  TrackerTypes' /\ Gone
  <1>1. NoState \in LoopStates /\ ~NoState.on /\ ~NoState.canceled /\ NoState.timer = 0
    BY RetryAssumption DEF LoopStates, NoState
  <1> QED
    BY <1>1 DEF TrackerTypes, Drop, Gone

\* A failure is ignored, consumes the mark of a /stop, or arms a timer for it.
LEMMA ScheduleDoes ==
  ASSUME TrackerTypes, NEW t \in Int, NEW b \in BOOLEAN,
         NEW k \in 0 .. MaxTurns, Schedule(t, b, k)
  PROVE  /\ TrackerTypes'
         /\ \/ Kept /\ (enabled /\ sess.thread = t /\ ~b => ~st.canceled)
            \/ Gone /\ st.canceled
            \/ Rearmed(k) /\ ~st.canceled /\ enabled /\ st.timer = 0
  <1>1. CASE ~enabled \/ sess.thread # t \/ b
    BY <1>1 DEF Schedule, Kept, tracker, TrackerTypes
  <1> SUFFICES ASSUME enabled, sess.thread = t, ~b PROVE
         /\ TrackerTypes'
         /\ \/ Kept /\ (enabled /\ sess.thread = t /\ ~b => ~st.canceled)
            \/ Gone /\ st.canceled
            \/ Rearmed(k) /\ ~st.canceled /\ enabled /\ st.timer = 0
    BY <1>1
  <1>2. CASE st.canceled
    <2>1. Drop
      BY <1>2 DEF Schedule
    <2> QED
      BY <1>2, <2>1, DropDoes
  <1>3. CASE ~st.canceled /\ st.timer = 0
    <2> DEFINE r == [st EXCEPT !.on = TRUE, !.thread = t]
    <2>1. r \in LoopStates /\ r.on /\ r.canceled = st.canceled
      BY DEF TrackerTypes, LoopStates
    <2>2. Arm(r, k)
      BY <1>3 DEF Schedule
    <2> HIDE DEF r
    <2> QED
      BY <1>3, <2>1, <2>2, ArmDoes
  <1>4. CASE ~st.canceled /\ st.timer # 0
    <2>1. st' = [st EXCEPT !.thread = t] /\ UNCHANGED <<seq, armed, origin>>
      BY <1>4 DEF Schedule
    <2>2. st' \in LoopStates /\ Kept
      BY <2>1 DEF TrackerTypes, LoopStates, Kept
    <2> QED
      BY <1>4, <2>1, <2>2 DEF TrackerTypes
  <1> QED
    BY <1>2, <1>3, <1>4

\* Another end of the turn leaves the loop alone or drops it.
LEMMA FinishDoes ==
  ASSUME TrackerTypes, NEW t, FinishOnTerminal(t)
  PROVE  TrackerTypes' /\ (Kept \/ (Gone /\ st.on))
  <1>1. CASE st.on /\ st.thread = t
    BY <1>1, DropDoes DEF FinishOnTerminal
  <1>2. CASE ~(st.on /\ st.thread = t)
    <2>1. UNCHANGED tracker
      BY <1>2, Zenon DEF FinishOnTerminal
    <2>2. st' = st /\ seq' = seq /\ armed' = armed /\ origin' = origin
      BY <2>1 DEF tracker
    <2>3. Kept
      BY <2>2 DEF Kept
    <2> QED
      BY <2>2, <2>3 DEF TrackerTypes
  <1> QED
    BY <1>1, <1>2

\* A /stop drops the loop, or marks it for the turn that runs.
LEMMA CancelDoes ==
  ASSUME TrackerTypes, sess \in Sessions, NEW keep \in BOOLEAN, Cancel(keep)
  PROVE  /\ TrackerTypes'
         /\ \/ Kept /\ (st.on => st.canceled) /\ (~st.on => ~(keep /\ enabled))
            \/ Gone /\ st.on /\ ~st.canceled /\ ~keep
            \/ Given /\ keep
  <1>1. CASE st.on /\ st.canceled
    BY <1>1 DEF Cancel, Kept, tracker, TrackerTypes
  <1>2. CASE st.on /\ ~st.canceled
    <2>1. /\ st' = IF keep THEN [st EXCEPT !.canceled = TRUE, !.timer = 0] ELSE NoState
          /\ armed' = armed \ {st.timer}
          /\ UNCHANGED <<seq, origin>>
      BY <1>2 DEF Cancel
    <2>2. CASE keep
      <3>1. st' = [st EXCEPT !.canceled = TRUE, !.timer = 0] /\ UNCHANGED <<seq, origin>>
        BY <2>1, <2>2
      <3>2. /\ st' \in LoopStates /\ st'.on = st.on /\ st'.canceled = TRUE
            /\ st'.timer = 0
        <4>1. st' = [on |-> st.on, canceled |-> TRUE, timer |-> 0, thread |-> st.thread]
          BY <3>1 DEF TrackerTypes, LoopStates
        <4> QED
          BY RetryAssumption, <4>1 DEF TrackerTypes, LoopStates
      <3> QED
        BY <1>2, <2>1, <2>2, <3>1, <3>2 DEF TrackerTypes, Given
    <2>3. CASE ~keep
      <3>1. Drop
        BY <2>1, <2>3 DEF Drop
      <3> QED
        BY <1>2, <2>3, <3>1, DropDoes
    <2> QED
      BY <2>2, <2>3
  <1>3. CASE ~st.on
    <2>1. /\ st' = IF keep /\ enabled
                  THEN [NoState EXCEPT !.on = TRUE, !.canceled = TRUE,
                                       !.thread = sess.thread]
                  ELSE st
          /\ UNCHANGED <<seq, armed, origin>>
      BY <1>3 DEF Cancel
    <2>2. CASE keep /\ enabled
      <3>1. st' = [on |-> TRUE, canceled |-> TRUE, timer |-> 0, thread |-> sess.thread]
        BY <2>1, <2>2 DEF NoState
      <3>2. sess.thread \in Int
        BY RetryAssumption DEF Sessions
      <3>3. st' \in LoopStates /\ st'.on /\ st'.canceled /\ st'.timer = 0
        BY RetryAssumption, <3>1, <3>2 DEF LoopStates
      <3> QED
        BY <2>1, <2>2, <3>3 DEF TrackerTypes, Given
    <2>3. CASE ~(keep /\ enabled)
      BY <1>3, <2>1, <2>3 DEF TrackerTypes, Kept
    <2> QED
      BY <2>2, <2>3
  <1> QED
    BY <1>1, <1>2, <1>3
-----------------------------------------------------------------------------
(* The parts that both arguments share.                                    *)

\* The stored session keeps its type.
LEMMA SteerKeepsSession ==
  ASSUME NEW s \in Sessions, NEW b \in BOOLEAN,
         NEW r, r = [s EXCEPT !.steer = b]
  PROVE  r \in Sessions
  BY DEF Sessions

\* The same when /new binds a thread.
LEMMA BindKeepsSession ==
  ASSUME NEW s \in Sessions,
         NEW r, r = [s EXCEPT !.thread = s.thread + 1, !.active = {}, !.steer = FALSE]
  PROVE  r \in Sessions
  <1>1. r = [thread |-> s.thread + 1, active |-> {}, steer |-> FALSE, queue |-> s.queue]
    BY DEF Sessions
  <1>2. s.thread + 1 \in Int /\ s.queue \in Int
    BY DEF Sessions
  <1> QED
    BY <1>1, <1>2 DEF Sessions

\* Every step keeps the types.
LEMMA RetryTypesKept ==
  ASSUME RetryTypes, Holders, [RetryNext]_retryVars
  PROVE  RetryTypes'
  <1> USE RetryAssumption DEF RetryTypes, TrackerTypes, Holders, tracker, Turns, Timers
  <1>1. CASE Input
    <2>1. [sess EXCEPT !.queue = @ + 1] \in Sessions
      BY DEF Sessions
    <2>2. CASE Steering /\ sess.active # {}
      <3>1. /\ sess' = [sess EXCEPT !.steer = TRUE]
            /\ count' = [count EXCEPT !.inputs = @ + 1]
        BY <1>1, <2>2 DEF Input
      <3>2. count' \in Counts
        BY <3>1 DEF Counts
      <3>3. sess' \in Sessions
        BY <3>1, SteerKeepsSession
      <3> QED
        BY <1>1, <3>1, <3>2, <3>3 DEF Input
    <2>3. CASE /\ ~(Steering /\ sess.active # {})
               /\ CanStart([sess EXCEPT !.queue = @ + 1])
      <3>1. /\ sess' = StartTurn(sess) /\ count.turns < MaxTurns
            /\ count' = [count EXCEPT !.inputs = @ + 1, !.turns = @ + 1]
        BY <1>1, <2>3 DEF Input, CanStart
      <3>2. count' = [turns |-> count.turns + 1, inputs |-> count.inputs + 1,
                      stops |-> count.stops, toggles |-> count.toggles]
        BY <3>1 DEF Counts
      <3>a. count.turns + 1 \in Turns
        BY <3>1 DEF Counts
      <3>3. sess' \in Sessions
        BY <3>1, <3>a DEF Sessions, StartTurn
      <3>4. count' \in Counts
        BY <3>2, <3>a DEF Counts
      <3> QED
        BY <1>1, <3>4, <3>3 DEF Input
    <2>4. CASE /\ ~(Steering /\ sess.active # {})
               /\ ~CanStart([sess EXCEPT !.queue = @ + 1])
      <3>1. /\ sess' = [sess EXCEPT !.queue = @ + 1]
            /\ count' = [count EXCEPT !.inputs = @ + 1]
        BY <1>1, <2>4 DEF Input
      <3>2. count' \in Counts
        BY <3>1 DEF Counts
      <3> QED
        BY <1>1, <2>1, <3>1, <3>2 DEF Input
    <2> QED
      BY <2>2, <2>3, <2>4
  <1>2. CASE StartNext
    <2>1. CASE CanStart(sess)
      <3>1. /\ sess' = [StartTurn(sess) EXCEPT !.queue = @ - 1]
            /\ count' = [count EXCEPT !.turns = @ + 1] /\ count.turns < MaxTurns
        BY <1>2, <2>1 DEF StartNext, CanStart
      <3>2. count' \in Counts
        BY <3>1 DEF Counts
      <3>3. StartTurn(sess) \in Sessions
        BY <3>1 DEF Sessions, Counts, StartTurn
      <3>4. sess' \in Sessions
        BY <3>1, <3>3 DEF Sessions
      <3> QED
        BY <1>2, <3>2, <3>4 DEF StartNext
    <2>2. CASE ~CanStart(sess)
      BY <1>2, <2>2 DEF StartNext
    <2> QED
      BY <2>1, <2>2
  <1>3. CASE Toggle
    <2>1. count' \in Counts
      BY <1>3 DEF Toggle, Counts
    <2>2. TrackerTypes'
      BY <1>3, DropDoes DEF Toggle
    <2> QED
      BY <1>3, <2>1, <2>2 DEF Toggle
  <1>4. ASSUME NEW k \in Turns, NEW status \in Statuses, TurnEnds(k, status)
      PROVE  RetryTypes'
    <2>1. sess' \in Sessions
      BY <1>4 DEF TurnEnds, Sessions
    <2>2. fin' \in FinStates
      BY <1>4 DEF TurnEnds, FinStates, Sessions
    <2> QED
      BY <1>4, <2>1, <2>2 DEF TurnEnds
  <1>5. CASE FinishObserve
    <2>1. fin' \in FinStates
      BY <1>5 DEF FinishObserve, FinStates
    <2>2. fin.thread \in Int /\ fin.busy \in BOOLEAN /\ fin.k \in 0 .. MaxTurns
      BY <1>5 DEF FinishObserve, FinStates
    <2>3. TrackerTypes'
      BY <1>5, <2>2, ScheduleDoes, FinishDoes DEF FinishObserve, Observe
    <2> QED
      BY <1>5, <2>1, <2>2, <2>3 DEF FinishObserve
  <1>6. CASE FinishNext
    <2>1. sess' \in Sessions
      BY <1>6 DEF FinishNext, NoFin, Sessions
    <2>2. fin' \in FinStates
      BY <1>6 DEF FinishNext, NoFin, FinStates
    <2> QED
      BY <1>6, <2>1, <2>2 DEF FinishNext, NoFin
  <1>7. ASSUME NEW n \in Timers, TimerFires(n) PROVE RetryTypes'
    BY <1>7 DEF TimerFires
  <1>8. ASSUME NEW n \in Timers, TimerBegin(n) PROVE RetryTypes'
    <2>1. timer' \in TimerStates
      BY <1>8 DEF TimerBegin, TimerStates
    <2> QED
      BY <1>8, <2>1 DEF TimerBegin
  <1>9. CASE TimerLock
    <2>1. timer' \in TimerStates
      BY <1>9 DEF TimerLock, TimerStates
    <2> QED
      BY <1>9, <2>1 DEF TimerLock
  <1>10. CASE TimerCheck
    <2>1. CASE Current(timer.n)
      <3>1. /\ st' = [st EXCEPT !.timer = 0]
            /\ timer' = [timer EXCEPT !.pc = "session", !.thread = st.thread]
        BY <1>10, <2>1 DEF TimerCheck
      <3>2. st' \in LoopStates /\ st.thread \in Int
        BY <3>1 DEF LoopStates
      <3>3. timer' \in TimerStates
        BY <3>1, <3>2 DEF TimerStates
      <3> QED
        BY <1>10, <3>2, <3>3 DEF TimerCheck
    <2>2. CASE ~Current(timer.n)
      <3>1. timer' \in TimerStates
        BY <1>10, <2>2 DEF TimerCheck, TimerDone, NoTimer, TimerStates
      <3> QED
        BY <1>10, <2>2, <3>1 DEF TimerCheck
    <2> QED
      BY <2>1, <2>2
  <1>11. CASE TimerSession
    <2>1. timer' \in TimerStates
      BY <1>11 DEF TimerSession, TimerDone, NoTimer, TimerStates
    <2>2. timer.n \in Timers /\ origin[timer.n] \in 0 .. MaxTurns
      BY <1>11 DEF TimerSession, TimerDone, NoTimer
    <2>3. TrackerTypes'
      BY <1>11, <2>2, ArmDoes DEF TimerSession, TimerDone, NoTimer, Blocks
    <2> QED
      BY <1>11, <2>1, <2>2, <2>3 DEF TimerSession, TimerDone, NoTimer
  <1>12. CASE TimerStart
    <2>1. CASE sess.thread # timer.thread
      <3>1. timer' \in TimerStates
        BY <1>12, <2>1 DEF TimerStart, TimerStates
      <3> QED
        BY <1>12, <2>1, <3>1 DEF TimerStart
    <2>2. CASE sess.thread = timer.thread
      <3>1. timer' \in TimerStates
        BY <1>12, <2>2 DEF TimerStart, TimerStates
      <3>2. sess' \in Sessions
        BY <1>12, <2>2 DEF TimerStart, Sessions, Counts, StartTurn
      <3>3. count' \in Counts
        BY <1>12, <2>2 DEF TimerStart, Counts
      <3> QED
        BY <1>12, <3>1, <3>2, <3>3 DEF TimerStart
    <2> QED
      BY <2>1, <2>2
  <1>13. CASE TimerStarted
    <2>1. timer' \in TimerStates
      BY <1>13 DEF TimerStarted, TimerDone, NoTimer, TimerStates
    <2>2. sess' \in Sessions
      BY <1>13 DEF TimerStarted, TimerDone, NoTimer, Sessions
    <2>3. timer.thread \in Int /\ count.turns \in 0 .. MaxTurns
      BY <1>13 DEF TimerStarted, TimerDone, NoTimer, TimerStates, Counts
    <2>4. TrackerTypes'
      BY <1>13, <2>3, ScheduleDoes DEF TimerStarted, TimerDone, NoTimer
    <2> QED
      BY <1>13, <2>1, <2>2, <2>3, <2>4 DEF TimerStarted, TimerDone, NoTimer
  <1>14. CASE TimerFinish
    <2>1. timer' \in TimerStates
      BY <1>14 DEF TimerFinish, TimerDone, NoTimer, TimerStates
    <2>2. TrackerTypes'
      BY <1>14, DropDoes DEF TimerFinish, TimerDone, NoTimer
    <2> QED
      BY <1>14, <2>1, <2>2 DEF TimerFinish, TimerDone, NoTimer
  <1>15. CASE StopLock
    <2>1. sess' \in Sessions
      BY <1>15 DEF StopLock, NoChat, Sessions
    <2>2. count' \in Counts
      BY <1>15 DEF StopLock, NoChat, Counts
    <2>3. chat' = [pc |-> "target", k |-> 0, round |-> 1]
      BY <1>15 DEF StopLock, NoChat
    <2>4. chat' \in ChatStates
      BY <1>15, <2>3 DEF StopLock, NoChat, ChatStates
    <2> QED
      BY <1>15, <2>1, <2>2, <2>3, <2>4 DEF StopLock, NoChat
  <1>16. CASE StopTarget
    <2>1. PICK k \in sess.active \cup {0} : chat' = [chat EXCEPT !.pc = "cancel", !.k = k]
      BY <1>16 DEF StopTarget
    <2>2. k \in 0 .. MaxTurns
      BY DEF Sessions
    <2>3. chat' \in ChatStates
      BY <2>1, <2>2 DEF ChatStates
    <2> QED
      BY <1>16, <2>3 DEF StopTarget
  <1>17. CASE StopCancel
    <2>1. \E p \in {"target", "interrupt"} : chat' = [pc |-> p, k |-> chat.k, round |-> 2]
      BY <1>17 DEF StopCancel, ChatStates
    <2>2. chat' \in ChatStates
      BY <1>17, <2>1 DEF StopCancel, ChatStates
    <2>3. TrackerTypes'
      BY <1>17, CancelDoes DEF StopCancel
    <2>4. chat.k \in 0 .. MaxTurns
      BY <1>17 DEF StopCancel, ChatStates
    <2>5. Blocks /\ st.timer # 0 => origin[st.timer] \in 0 .. MaxTurns
      BY <1>17 DEF StopCancel, LoopStates
    <2>6. stopped' \subseteq 0 .. MaxTurns
      BY <1>17, <2>4, <2>5 DEF StopCancel
    <2> QED
      BY <1>17, <2>1, <2>2, <2>3, <2>4, <2>5, <2>6 DEF StopCancel
  <1>18. CASE StopInterrupt
    <2>1. chat' \in ChatStates
      BY <1>18 DEF StopInterrupt, NoChat, ChatStates
    <2> QED
      BY <1>18, <2>1 DEF StopInterrupt, NoChat
  <1>19. CASE FreshCheck
    <2>1. sess' \in Sessions
      BY <1>19 DEF FreshCheck, NoChat, Sessions
    <2>2. chat' \in ChatStates
      BY <1>19 DEF FreshCheck, NoChat, ChatStates
    <2> QED
      BY <1>19, <2>1, <2>2 DEF FreshCheck, NoChat
  <1>20. CASE FreshBind
    <2>1. sess' = [sess EXCEPT !.thread = sess.thread + 1, !.active = {}, !.steer = FALSE]
      BY <1>20 DEF FreshBind, NoChat
    <2>2. sess' \in Sessions
      BY <1>20, <2>1, BindKeepsSession DEF FreshBind, NoChat
    <2>3. chat' \in ChatStates
      BY <1>20 DEF FreshBind, NoChat, ChatStates
    <2> QED
      BY <1>20, <2>1, <2>2, <2>3 DEF FreshBind, NoChat
  <1>21. CASE UNCHANGED retryVars
    BY <1>21 DEF retryVars
  <1>22. QED
    BY <1>1, <1>2, <1>3, <1>4, <1>5, <1>6, <1>7, <1>8, <1>9, <1>10,
       <1>11, <1>12, <1>13, <1>14, <1>15, <1>16, <1>17, <1>18, <1>19, <1>20, <1>21
       DEF RetryNext, Statuses

\* The session's actor and the dispatch lock have one holder each.
LEMMA HoldersKept ==
  ASSUME RetryTypes, Holders, [RetryNext]_retryVars
  PROVE  Holders'
  <1> USE RetryAssumption
      DEF RetryTypes, TrackerTypes, Holders, tracker, TimerStates, FinStates,
          ChatStates
  <1>1. CASE Input
    BY <1>1 DEF Input
  <1>2. CASE StartNext
    BY <1>2 DEF StartNext
  <1>3. CASE Toggle
    BY <1>3 DEF Toggle
  <1>4. ASSUME NEW k \in Turns, NEW status \in Statuses, TurnEnds(k, status)
      PROVE  Holders'
    BY <1>4 DEF TurnEnds
  <1>5. CASE FinishObserve
    BY <1>5 DEF FinishObserve
  <1>6. CASE FinishNext
    BY <1>6 DEF FinishNext, NoFin
  <1>7. ASSUME NEW n \in Timers, TimerFires(n) PROVE Holders'
    BY <1>7 DEF TimerFires
  <1>8. ASSUME NEW n \in Timers, TimerBegin(n) PROVE Holders'
    BY <1>8 DEF TimerBegin
  <1>9. CASE TimerLock
    BY <1>9 DEF TimerLock
  <1>10. CASE TimerCheck
    <2>1. CASE Current(timer.n)
      BY <1>10, <2>1 DEF TimerCheck
    <2>2. CASE ~Current(timer.n)
      BY <1>10, <2>2 DEF TimerCheck, TimerDone, NoTimer
    <2> QED
      BY <2>1, <2>2
  <1>11. CASE TimerSession
    BY <1>11 DEF TimerSession, TimerDone, NoTimer
  <1>12. CASE TimerStart
    BY <1>12 DEF TimerStart
  <1>13. CASE TimerStarted
    BY <1>13 DEF TimerStarted, TimerDone, NoTimer
  <1>14. CASE TimerFinish
    BY <1>14 DEF TimerFinish, TimerDone, NoTimer
  <1>15. CASE StopLock
    BY <1>15 DEF StopLock, NoChat
  <1>16. CASE StopTarget
    BY <1>16 DEF StopTarget
  <1>17. CASE StopCancel
    BY <1>17 DEF StopCancel
  <1>18. CASE StopInterrupt
    BY <1>18 DEF StopInterrupt, NoChat
  <1>19. CASE FreshCheck
    BY <1>19 DEF FreshCheck, NoChat
  <1>20. CASE FreshBind
    BY <1>20 DEF FreshBind, NoChat
  <1>21. CASE UNCHANGED retryVars
    BY <1>21 DEF retryVars
  <1>22. QED
    BY <1>1, <1>2, <1>3, <1>4, <1>5, <1>6, <1>7, <1>8, <1>9, <1>10,
       <1>11, <1>12, <1>13, <1>14, <1>15, <1>16, <1>17, <1>18, <1>19, <1>20, <1>21
       DEF RetryNext, Statuses

\* Every operation of the tracker arms a timer with a new number, if any.
LEMMA TrackerNumbers ==
  ASSUME TrackerTypes, st.timer <= seq, st.timer # 0 => st.on, NEW k \in 0 .. MaxTurns,
         Kept \/ Gone \/ Given \/ Rearmed(k)
  PROVE  /\ st'.timer <= seq' /\ (st'.timer # 0 => st'.on)
         /\ \A n \in Timers : origin'[n] \in {origin[n], k}
  <1> USE RetryAssumption DEF TrackerTypes, Timers
  <1>1. CASE Kept \/ Gone \/ Given
    BY <1>1 DEF Kept, Gone, Given
  <1>2. CASE Rearmed(k)
    BY <1>2 DEF Rearmed
  <1> QED
    BY <1>1, <1>2

\* No turn and no timer is numbered higher than those that were started.
LEMMA NumberedKept ==
  ASSUME RetryTypes, Holders, Numbered, [RetryNext]_retryVars
  PROVE  Numbered'
  <1> USE RetryAssumption
      DEF RetryTypes, TrackerTypes, Holders, tracker, Turns, Timers, Numbered
  <1>a. /\ sess.active \subseteq Turns /\ count.turns \in 0 .. MaxTurns
        /\ fin.k \in 0 .. MaxTurns /\ chat.k \in 0 .. MaxTurns
        /\ fin.thread \in Int /\ fin.busy \in BOOLEAN /\ timer.thread \in Int
        /\ st.timer \in 0 .. MaxTimers
    BY DEF Sessions, Counts, FinStates, ChatStates, TimerStates, LoopStates
  <1> USE <1>a
  <1>1. CASE Input
    <2>1. CASE sess'.active = sess.active /\ count'.turns = count.turns
      BY <1>1, <2>1 DEF Input
    <2>2. CASE /\ sess'.active = sess.active \cup {count.turns + 1}
               /\ count'.turns = count.turns + 1
      BY <1>1, <2>2 DEF Input
    <2> QED
      BY <1>1, <2>1, <2>2 DEF Input, StartTurn, Sessions, Counts
  <1>2. CASE StartNext
    <2>1. CASE sess'.active = sess.active /\ count'.turns = count.turns
      BY <1>2, <2>1 DEF StartNext
    <2>2. CASE /\ sess'.active = sess.active \cup {count.turns + 1}
               /\ count'.turns = count.turns + 1
      BY <1>2, <2>2 DEF StartNext
    <2> QED
      BY <1>2, <2>1, <2>2 DEF StartNext, StartTurn, Sessions, Counts
  <1>3. CASE Toggle
    <2>1. st'.timer <= seq' /\ (st'.timer # 0 => st'.on) /\ origin' = origin
      BY <1>3, DropDoes DEF Toggle, Gone
    <2>2. count'.turns = count.turns
      BY <1>3 DEF Toggle
    <2> QED
      BY <1>3, <2>1, <2>2 DEF Toggle
  <1>4. ASSUME NEW k \in Turns, NEW status \in Statuses, TurnEnds(k, status)
      PROVE  Numbered'
    <2>1. sess'.active \subseteq sess.active /\ fin'.k \in sess.active
      BY <1>4 DEF TurnEnds, Sessions
    <2> QED
      BY <1>4, <2>1 DEF TurnEnds
  <1>5. CASE FinishObserve
    <2>1. fin'.k = fin.k
      BY <1>5 DEF FinishObserve, FinStates
    <2>2. Kept \/ Gone \/ Rearmed(fin.k)
      BY <1>5, ScheduleDoes, FinishDoes DEF FinishObserve, Observe
    <2>3. /\ st'.timer <= seq' /\ (st'.timer # 0 => st'.on)
          /\ \A n \in Timers : origin'[n] \in {origin[n], fin.k}
      BY <1>5, <2>2, TrackerNumbers DEF FinishObserve
    <2> QED
      BY <1>5, <2>1, <2>2, <2>3 DEF FinishObserve
  <1>6. CASE FinishNext
    <2>1. sess'.active = sess.active
      BY <1>6 DEF FinishNext, NoFin, Sessions
    <2> QED
      BY <1>6, <2>1 DEF FinishNext, NoFin
  <1>7. ASSUME NEW n \in Timers, TimerFires(n) PROVE Numbered'
    BY <1>7 DEF TimerFires
  <1>8. ASSUME NEW n \in Timers, TimerBegin(n) PROVE Numbered'
    BY <1>8 DEF TimerBegin
  <1>9. CASE TimerLock
    BY <1>9 DEF TimerLock
  <1>10. CASE TimerCheck
    <2>1. st'.timer <= seq /\ (st'.timer # 0 => st'.on)
      BY <1>10 DEF TimerCheck, TimerDone, NoTimer, LoopStates
    <2> QED
      BY <1>10, <2>1 DEF TimerCheck, TimerDone, NoTimer
  <1>11. CASE TimerSession
    <2>1. timer.n \in Timers /\ origin[timer.n] \in 0 .. MaxTurns
      BY <1>11 DEF TimerSession, TimerDone, NoTimer
    <2>2. Kept \/ Rearmed(origin[timer.n])
      BY <1>11, <2>1, ArmDoes DEF TimerSession, TimerDone, NoTimer, Blocks, Kept
    <2>3. /\ st'.timer <= seq' /\ (st'.timer # 0 => st'.on)
          /\ \A n \in Timers : origin'[n] \in {origin[n], origin[timer.n]}
      BY <1>11, <2>1, <2>2, TrackerNumbers DEF TimerSession, TimerDone, NoTimer
    <2> QED
      BY <1>11, <2>1, <2>2, <2>3 DEF TimerSession, TimerDone, NoTimer
  <1>12. CASE TimerStart
    <2>1. CASE sess'.active = sess.active /\ count'.turns = count.turns
      BY <1>12, <2>1 DEF TimerStart
    <2>2. CASE /\ sess'.active = sess.active \cup {count.turns + 1}
               /\ count'.turns = count.turns + 1
      <3>1. \A k \in sess'.active : k <= count'.turns
        BY <2>2
      <3>2. UNCHANGED <<tracker, stopped, fin, chat>>
        BY <1>12 DEF TimerStart
      <3>3. timer' = [timer EXCEPT !.pc = "started"] \/ timer' = [timer EXCEPT !.pc = "finish"]
        BY <1>12 DEF TimerStart
      <3> QED
        BY <2>2, <3>1, <3>2, <3>3
    <2> QED
      BY <1>12, <2>1, <2>2 DEF TimerStart, StartTurn, Sessions, Counts
  <1>13. CASE TimerStarted
    <2>1. sess'.active \subseteq sess.active
      BY <1>13 DEF TimerStarted, Sessions
    <2>2. Kept \/ Gone \/ Rearmed(count.turns)
      BY <1>13, ScheduleDoes DEF TimerStarted, Kept
    <2>3. /\ st'.timer <= seq' /\ (st'.timer # 0 => st'.on)
          /\ \A n \in Timers : origin'[n] \in {origin[n], count.turns}
      BY <2>2, TrackerNumbers
    <2>4. fin' = fin /\ chat' = chat /\ count' = count /\ stopped' = stopped
      BY <1>13 DEF TimerStarted
    <2>5. \A n \in Timers : origin'[n] <= count.turns
      BY <2>3
    <2>6. \A k \in sess'.active : k <= count.turns
      BY <2>1
    <2> QED
      BY <2>3, <2>4, <2>5, <2>6
  <1>14. CASE TimerFinish
    <2>1. st'.timer <= seq' /\ (st'.timer # 0 => st'.on) /\ origin' = origin
      BY <1>14, DropDoes DEF TimerFinish, TimerDone, NoTimer, Gone
    <2> QED
      BY <1>14, <2>1 DEF TimerFinish, TimerDone, NoTimer
  <1>15. CASE StopLock
    <2>1. sess'.active = sess.active /\ count'.turns = count.turns
      BY <1>15 DEF StopLock, NoChat, Sessions
    <2>2. chat'.k = 0
      BY <1>15 DEF StopLock, NoChat
    <2> QED
      BY <1>15, <2>1, <2>2 DEF StopLock, NoChat
  <1>16. CASE StopTarget
    <2>1. chat'.k \in sess.active \cup {0}
      BY <1>16 DEF StopTarget, ChatStates
    <2> QED
      BY <1>16, <2>1 DEF StopTarget
  <1>17. CASE StopCancel
    <2>0. Kept \/ Gone \/ Given
      BY <1>17, CancelDoes DEF StopCancel
    <2>1. st'.timer <= seq' /\ (st'.timer # 0 => st'.on) /\ origin' = origin
      BY <2>0 DEF Kept, Gone, Given, LoopStates
    <2>2. chat'.k = chat.k
      BY <1>17 DEF StopCancel, ChatStates
    <2>3. \A k \in stopped' : k <= count.turns
      BY <1>17 DEF StopCancel, ChatStates, LoopStates, Blocks
    <2> QED
      BY <1>17, <2>1, <2>2, <2>3 DEF StopCancel
  <1>18. CASE StopInterrupt
    BY <1>18 DEF StopInterrupt, NoChat
  <1>19. CASE FreshCheck
    <2>1. sess'.active = sess.active /\ chat'.k = 0
      BY <1>19 DEF FreshCheck, NoChat, Sessions
    <2> QED
      BY <1>19, <2>1 DEF FreshCheck, NoChat
  <1>20. CASE FreshBind
    <2>1. sess'.active = {} /\ chat'.k = 0
      BY <1>20 DEF FreshBind, NoChat, Sessions
    <2> QED
      BY <1>20, <2>1 DEF FreshBind, NoChat
  <1>21. CASE UNCHANGED retryVars
    BY <1>21 DEF retryVars
  <1>22. QED
    BY <1>1, <1>2, <1>3, <1>4, <1>5, <1>6, <1>7, <1>8, <1>9, <1>10,
       <1>11, <1>12, <1>13, <1>14, <1>15, <1>16, <1>17, <1>18, <1>19, <1>20, <1>21
       DEF RetryNext, Statuses

-----------------------------------------------------------------------------
(* One turn at a time.                                                     *)

\* A step starts a turn only when none runs; while the callback of a timer works
\* only it can.
LEMMA OneTurnKept ==
  ASSUME RetryTypes, Holders, OneActive, Owned, ~Anywhere, [RetryNext]_retryVars
  PROVE  (OneActive /\ Owned)'
  <1> USE DEF RetryTypes, TrackerTypes, Holders, tracker, OneActive, Owned
  <1>1. CASE Input
    <2>1. CASE sess'.active = sess.active
      BY <1>1, <2>1 DEF Input
    <2>2. CASE /\ sess.active = {} /\ ~Blocks
               /\ sess'.active = {count.turns + 1}
      BY <1>1, <2>2 DEF Input, Blocks
    <2> QED
      BY <1>1, <2>1, <2>2 DEF Input, CanStart, StartTurn, Sessions
  <1>2. CASE StartNext
    <2>1. CASE sess'.active = sess.active
      BY <1>2, <2>1 DEF StartNext
    <2>2. CASE sess'.active = {count.turns + 1}
      BY <1>2, <2>2 DEF StartNext
    <2>3. CASE CanStart(sess)
      <3>1. StartTurn(sess) = [sess EXCEPT !.active = {count.turns + 1}]
        BY <2>3 DEF CanStart, StartTurn, Sessions
      <3> QED
        BY <1>2, <2>2, <2>3, <3>1 DEF StartNext, Sessions
    <2> QED
      BY <1>2, <2>1, <2>3 DEF StartNext
  <1>3. CASE Toggle
    BY <1>3 DEF Toggle
  <1>4. ASSUME NEW k \in Turns, NEW status \in Statuses, TurnEnds(k, status)
      PROVE  (OneActive /\ Owned)'
    <2>1. sess'.active \subseteq sess.active
      BY <1>4 DEF TurnEnds, Sessions
    <2> QED
      BY <1>4, <2>1 DEF TurnEnds
  <1>5. CASE FinishObserve
    BY <1>5 DEF FinishObserve
  <1>6. CASE FinishNext
    <2>1. sess'.active = sess.active
      BY <1>6 DEF FinishNext, NoFin, Sessions
    <2> QED
      BY <1>6, <2>1 DEF FinishNext, NoFin
  <1>7. ASSUME NEW n \in Timers, TimerFires(n) PROVE (OneActive /\ Owned)'
    BY <1>7 DEF TimerFires
  <1>8. ASSUME NEW n \in Timers, TimerBegin(n) PROVE (OneActive /\ Owned)'
    BY <1>8 DEF TimerBegin
  <1>9. CASE TimerLock
    <2>1. timer'.pc = "check"
      BY <1>9 DEF TimerLock, TimerStates
    <2> QED
      BY <1>9, <2>1 DEF TimerLock
  <1>10. CASE TimerCheck
    <2>1. CASE Current(timer.n)
      <3>1. st' = [st EXCEPT !.timer = 0] /\ sess' = sess
        BY <1>10, <2>1 DEF TimerCheck
      <3>2. st'.on = st.on /\ st'.canceled = st.canceled /\ st'.timer = 0
        BY <3>1 DEF LoopStates
      <3>3. timer'.pc = "session"
        BY <1>10, <2>1 DEF TimerCheck, TimerStates
      <3> QED
        BY <2>1, <3>1, <3>2, <3>3 DEF Current
    <2>2. CASE ~Current(timer.n)
      BY <1>10, <2>2 DEF TimerCheck, TimerDone, NoTimer
    <2> QED
      BY <2>1, <2>2
  <1>11. CASE TimerSession
    <2>1. CASE timer'.pc \in {"idle", "finish"}
      BY <1>11, <2>1 DEF TimerSession
    <2>2. CASE timer'.pc = "start" /\ UNCHANGED tracker /\ sess.active = {}
      BY <1>11, <2>2 DEF TimerSession, tracker
    <2> QED
      BY <1>11, <2>1, <2>2 DEF TimerSession, TimerDone, NoTimer, HasActiveWork, TimerStates
  <1>12. CASE TimerStart
    <2>1. CASE sess' = sess /\ timer'.pc = "finish"
      BY <1>12, <2>1 DEF TimerStart
    <2>2. CASE sess'.active = {count.turns + 1} /\ timer'.pc = "started"
      BY <1>12, <2>2 DEF TimerStart, tracker
    <2> QED
      BY <1>12, <2>1, <2>2 DEF TimerStart, StartTurn, Sessions, TimerStates
  <1>13. CASE TimerStarted
    <2>1. sess'.active \subseteq sess.active
      BY <1>13 DEF TimerStarted, TimerDone, NoTimer, Sessions
    <2>2. timer'.pc \in {"idle", "finish"}
      BY <1>13 DEF TimerStarted, TimerDone, NoTimer, TimerStates
    <2> QED
      BY <1>13, <2>1, <2>2 DEF TimerStarted, TimerDone, NoTimer
  <1>14. CASE TimerFinish
    BY <1>14 DEF TimerFinish, TimerDone, NoTimer
  <1>15. CASE StopLock
    <2>1. sess'.active = sess.active
      BY <1>15 DEF StopLock, NoChat, Sessions
    <2> QED
      BY <1>15, <2>1 DEF StopLock, NoChat
  <1>16. CASE StopTarget
    BY <1>16 DEF StopTarget
  <1>17. CASE StopCancel
    BY <1>17 DEF StopCancel
  <1>18. CASE StopInterrupt
    BY <1>18 DEF StopInterrupt, NoChat
  <1>19. CASE FreshCheck
    <2>1. sess'.active = sess.active
      BY <1>19 DEF FreshCheck, NoChat, Sessions
    <2> QED
      BY <1>19, <2>1 DEF FreshCheck, NoChat
  <1>20. CASE FreshBind
    <2>1. sess'.active = {}
      BY <1>20 DEF FreshBind, NoChat, Sessions
    <2> QED
      BY <1>20, <2>1 DEF FreshBind, NoChat
  <1>21. CASE UNCHANGED retryVars
    BY <1>21 DEF retryVars
  <1>22. QED
    BY <1>1, <1>2, <1>3, <1>4, <1>5, <1>6, <1>7, <1>8, <1>9, <1>10,
       <1>11, <1>12, <1>13, <1>14, <1>15, <1>16, <1>17, <1>18, <1>19, <1>20, <1>21
       DEF RetryNext, Statuses

-----------------------------------------------------------------------------
(* What a /stop has ended.                                                 *)

\* What a /stop has found is not retried: the mark, the timers, the callback.
LEMMA EndedKept ==
  ASSUME StopInv, [RetryNext]_retryVars
  PROVE  (Unmarked /\ Ended /\ Marked /\ Free)'
  <1> USE RetryAssumption
      DEF StopInv, RetryTypes, TrackerTypes, Holders, Numbered, tracker, Turns,
          Timers, Unmarked, Ended, Marked, Free, TimerWorks
  <1>a. /\ sess.active \subseteq Turns /\ count.turns \in 0 .. MaxTurns
        /\ fin.k \in 0 .. MaxTurns /\ chat.k \in 0 .. MaxTurns
        /\ fin.thread \in Int /\ fin.busy \in BOOLEAN /\ timer.thread \in Int
        /\ st.timer \in 0 .. MaxTimers
    BY DEF Sessions, Counts, FinStates, ChatStates, TimerStates, LoopStates
  <1> USE <1>a
  <1>1. CASE Input
    <2>1. CASE sess'.active = sess.active /\ count'.turns = count.turns
      BY <1>1, <2>1 DEF Input
    <2>2. CASE /\ sess'.active = sess.active \cup {count.turns + 1}
               /\ count'.turns = count.turns + 1
      BY <1>1, <2>2 DEF Input
    <2> QED
      BY <1>1, <2>1, <2>2 DEF Input, StartTurn, Sessions, Counts
  <1>2. CASE StartNext
    <2>1. CASE sess'.active = sess.active /\ count'.turns = count.turns
      BY <1>2, <2>1 DEF StartNext
    <2>2. CASE /\ sess'.active = sess.active \cup {count.turns + 1}
               /\ count'.turns = count.turns + 1
      BY <1>2, <2>2 DEF StartNext
    <2> QED
      BY <1>2, <2>1, <2>2 DEF StartNext, StartTurn, Sessions, Counts
  <1>3. CASE Toggle
    <2>1. Kept \/ Gone
      BY <1>3, DropDoes DEF Toggle, Kept
    <2>2. stopped' = {} /\ count'.turns = count.turns /\ UNCHANGED <<sess, timer, fin>>
      BY <1>3 DEF Toggle
    <2> QED
      BY <2>1, <2>2 DEF Kept, Gone
  <1>4. ASSUME NEW k \in Turns, NEW status \in Statuses, TurnEnds(k, status)
      PROVE  (Unmarked /\ Ended /\ Marked /\ Free)'
    <2>1. /\ sess'.active = sess.active \ {k} /\ fin'.k = k /\ k \in sess.active
          /\ timer.pc = "idle"
      BY <1>4 DEF TurnEnds, Sessions
    <2> QED
      BY <1>4, <2>1 DEF TurnEnds
  <1>5. CASE FinishObserve
    <2>1. /\ fin.pc = "observe" /\ fin'.pc = "next" /\ fin'.k = fin.k
          /\ fin.k \notin sess.active
          /\ timer.pc = "idle" /\ UNCHANGED <<sess, timer, count, enabled>>
      BY <1>5 DEF FinishObserve, FinStates
    <2>2. stopped' = IF st.canceled /\ ~st'.on THEN stopped \ sess.active ELSE stopped
      BY <1>5 DEF FinishObserve
    <2>3. CASE Kept
      BY <2>1, <2>2, <2>3 DEF Kept
    <2>4. CASE Gone
      BY <2>1, <2>2, <2>4 DEF Gone
    <2>5. CASE Rearmed(fin.k) /\ ~st.canceled /\ enabled
      <3>1. fin.k \notin stopped /\ stopped' = stopped
        BY <2>1, <2>2, <2>5
      <3>2. st'.timer \in Timers /\ origin'[st'.timer] = fin.k
        BY <2>5 DEF Rearmed
      <3>3. \A n \in Timers : origin'[n] \in {origin[n], fin.k}
        BY <2>5 DEF Rearmed
      <3>4. \A k \in stopped : k \notin sess.active
        BY <2>5
      <3> QED
        BY <2>1, <3>1, <3>2, <3>3, <3>4
    <2> QED
      BY <1>5, <2>3, <2>4, <2>5, ScheduleDoes, FinishDoes DEF FinishObserve, Observe
  <1>6. CASE FinishNext
    <2>1. sess'.active = sess.active
      BY <1>6 DEF FinishNext, NoFin, Sessions
    <2> QED
      BY <1>6, <2>1 DEF FinishNext, NoFin
  <1>7. ASSUME NEW n \in Timers, TimerFires(n)
      PROVE  (Unmarked /\ Ended /\ Marked /\ Free)'
    BY <1>7 DEF TimerFires
  <1>8. ASSUME NEW n \in Timers, TimerBegin(n)
      PROVE  (Unmarked /\ Ended /\ Marked /\ Free)'
    BY <1>8 DEF TimerBegin
  <1>9. CASE TimerLock
    <2>1. timer'.pc = "check"
      BY <1>9 DEF TimerLock, TimerStates
    <2> QED
      BY <1>9, <2>1 DEF TimerLock
  <1>10. CASE TimerCheck
    <2>1. timer.pc = "check" /\ UNCHANGED <<enabled, origin, sess, fin, count, stopped>>
      BY <1>10 DEF TimerCheck
    <2>2. CASE Current(timer.n)
      <3>1. /\ st' = [st EXCEPT !.timer = 0]
            /\ timer' = [timer EXCEPT !.pc = "session", !.thread = st.thread]
        BY <1>10, <2>2 DEF TimerCheck
      <3>2. st'.on = st.on /\ st'.canceled = st.canceled /\ st'.timer = 0
        BY <3>1 DEF LoopStates
      <3>3. timer'.pc = "session" /\ timer'.n = timer.n
        BY <3>1 DEF TimerStates
      <3> QED
        BY <2>1, <2>2, <3>2, <3>3 DEF Current
    <2>3. CASE ~Current(timer.n)
      BY <1>10, <2>1, <2>3 DEF TimerCheck, TimerDone, NoTimer
    <2> QED
      BY <2>2, <2>3
  <1>11. CASE TimerSession
    <2>1. timer.pc = "session" /\ UNCHANGED <<enabled, sess, fin, count, stopped>>
      BY <1>11 DEF TimerSession
    <2>2. CASE timer'.pc \in {"idle", "start", "finish"} /\ timer'.n = timer.n /\ Kept
      BY <2>1, <2>2 DEF Kept
    <2>3. CASE timer'.pc = "idle" /\ Kept
      BY <2>1, <2>3 DEF Kept
    <2>4. CASE timer'.pc = "idle" /\ Rearmed(origin[timer.n])
      <3>1. st'.timer \in Timers /\ origin'[st'.timer] = origin[timer.n]
        BY <2>4 DEF Rearmed
      <3>2. \A n \in Timers : origin'[n] \in {origin[n], origin[timer.n]}
        BY <2>4 DEF Rearmed
      <3>3. st'.on /\ st'.canceled = st.canceled
        BY <2>4 DEF Rearmed
      <3> QED
        BY <2>1, <2>4, <3>1, <3>2, <3>3
    <2>5. timer.n \in Timers /\ origin[timer.n] \in 0 .. MaxTurns
      BY <2>1
    <2>6. CASE timer' = [timer EXCEPT !.pc = "finish"] /\ UNCHANGED tracker
      <3>1. timer'.pc = "finish" /\ timer'.n = timer.n
        BY <2>6 DEF TimerStates
      <3> QED
        BY <2>2, <2>6, <3>1 DEF Kept
    <2>7. CASE timer' = [timer EXCEPT !.pc = "start"] /\ UNCHANGED tracker
      <3>1. timer'.pc = "start" /\ timer'.n = timer.n
        BY <2>7 DEF TimerStates
      <3> QED
        BY <2>2, <2>7, <3>1 DEF Kept
    <2>8. CASE (IF Blocks THEN Arm(st, origin[timer.n]) ELSE UNCHANGED tracker) /\ TimerDone
      <3>1. timer'.pc = "idle"
        BY <2>8 DEF TimerDone, NoTimer
      <3>2. CASE Blocks
        <4>1. st \in LoopStates /\ st.on /\ Arm(st, origin[timer.n])
          BY <2>8, <3>2 DEF Blocks
        <4>2. Rearmed(origin[timer.n])
          BY <2>5, <4>1, ArmDoes
        <4> QED
          BY <2>4, <3>1, <4>2
      <3>3. CASE ~Blocks
        BY <2>3, <2>8, <3>1, <3>3 DEF Kept
      <3> QED
        BY <3>2, <3>3
    <2> QED
      BY <1>11, <2>6, <2>7, <2>8 DEF TimerSession
  <1>12. CASE TimerStart
    <2>1. CASE sess' = sess /\ count' = count /\ timer'.pc = "finish"
      BY <1>12, <2>1 DEF TimerStart
    <2>2. CASE /\ sess'.active = sess.active \cup {count.turns + 1}
               /\ count'.turns = count.turns + 1 /\ timer'.pc = "started"
      BY <1>12, <2>2 DEF TimerStart
    <2> QED
      BY <1>12, <2>1, <2>2 DEF TimerStart, StartTurn, Sessions, Counts, TimerStates
  <1>13. CASE TimerStarted
    <2>1. /\ timer.pc = "started" /\ fin.pc = "idle"
          /\ UNCHANGED <<enabled, fin, count, stopped>>
      BY <1>13 DEF TimerStarted
    <2>2. CASE TimerDone /\ UNCHANGED <<tracker, sess>>
      BY <2>1, <2>2 DEF TimerDone, NoTimer
    <2>3. CASE /\ sess' = [sess EXCEPT !.active = @ \ {count.turns}]
               /\ Schedule(timer.thread, sess.active # {count.turns} \/ sess.steer,
                           count.turns)
               /\ timer'.pc \in {"idle", "finish"}
      <3>1. sess'.active = sess.active \ {count.turns}
        BY <2>3 DEF Sessions
      <3>2. CASE Kept
        BY <2>1, <2>3, <3>1, <3>2 DEF Kept
      <3>3. CASE Rearmed(count.turns)
        <4>1. st'.timer \in Timers /\ origin'[st'.timer] = count.turns
          BY <3>3 DEF Rearmed
        <4>2. \A n \in Timers : origin'[n] \in {origin[n], count.turns}
          BY <3>3 DEF Rearmed
        <4>3. st'.on /\ st'.canceled = st.canceled
          BY <3>3 DEF Rearmed
        <4> QED
          BY <2>1, <2>3, <3>1, <4>1, <4>2, <4>3
      <3> QED
        BY <2>1, <2>3, <3>2, <3>3, ScheduleDoes
    <2> QED
      BY <1>13, <2>2, <2>3 DEF TimerStarted, TimerDone, NoTimer, TimerStates
  <1>14. CASE TimerFinish
    <2>1. /\ timer.pc = "finish" /\ timer'.pc = "idle"
          /\ UNCHANGED <<enabled, sess, fin, count, stopped>>
      BY <1>14 DEF TimerFinish, TimerDone, NoTimer
    <2>2. Gone
      BY <1>14, DropDoes DEF TimerFinish
    <2> QED
      BY <2>1, <2>2 DEF Gone
  <1>15. CASE StopLock
    <2>1. sess'.active = sess.active /\ count'.turns = count.turns
      BY <1>15 DEF StopLock, NoChat, Sessions, Counts
    <2> QED
      BY <1>15, <2>1 DEF StopLock, NoChat
  <1>16. CASE StopTarget
    BY <1>16 DEF StopTarget
  <1>17. CASE StopCancel
    <2>1. ~TimerWorks /\ UNCHANGED <<enabled, sess, timer, fin, count>>
      BY <1>17 DEF StopCancel
    <2>2. stopped' = stopped \cup ({chat.k} \ {0})
                      \cup (IF Blocks /\ st.timer # 0 THEN {origin[st.timer]} ELSE {})
      BY <1>17 DEF StopCancel
    <2>3. CASE Kept /\ (st.on => st.canceled) /\ (~st.on => ~(chat.k # 0 /\ enabled))
      BY <2>1, <2>2, <2>3 DEF Kept, Blocks
    <2>4. CASE Gone /\ st.on /\ ~st.canceled /\ chat.k = 0
      BY <2>1, <2>2, <2>4 DEF Gone
    <2>5. CASE Given
      BY <2>1, <2>2, <2>5 DEF Given
    <2> QED
      BY <1>17, <2>3, <2>4, <2>5, CancelDoes DEF StopCancel
  <1>18. CASE StopInterrupt
    BY <1>18 DEF StopInterrupt, NoChat
  <1>19. CASE FreshCheck
    <2>1. sess'.active = sess.active
      BY <1>19 DEF FreshCheck, NoChat, Sessions
    <2> QED
      BY <1>19, <2>1 DEF FreshCheck, NoChat
  <1>20. CASE FreshBind
    <2>1. sess'.active = {}
      BY <1>20 DEF FreshBind, NoChat, Sessions
    <2> QED
      BY <1>20, <2>1 DEF FreshBind, NoChat
  <1>21. CASE UNCHANGED retryVars
    BY <1>21 DEF retryVars
  <1>22. QED
    BY <1>1, <1>2, <1>3, <1>4, <1>5, <1>6, <1>7, <1>8, <1>9, <1>10,
       <1>11, <1>12, <1>13, <1>14, <1>15, <1>16, <1>17, <1>18, <1>19, <1>20, <1>21
       DEF RetryNext, Statuses

-----------------------------------------------------------------------------
(* The theorems.                                                           *)

\* The initial states satisfy both invariants.
LEMMA RetryInitially == RetryInit => RetryInv /\ StopInv
  <1> SUFFICES ASSUME RetryInit PROVE RetryInv /\ StopInv
    OBVIOUS
  <1> USE RetryAssumption DEF RetryInit
  <1>1. TrackerTypes
    BY DEF TrackerTypes, LoopStates, NoState, Timers
  <1>2. sess \in Sessions /\ timer \in TimerStates
    BY DEF Sessions, TimerStates, NoTimer
  <1>3. fin \in FinStates /\ chat \in ChatStates
    BY DEF FinStates, ChatStates, NoFin, NoChat, Statuses
  <1>4. count \in Counts
    BY DEF Counts
  <1>5. RetryTypes
    BY <1>1, <1>2, <1>3, <1>4 DEF RetryTypes
  <1>6. Holders /\ Numbered /\ Ended
    BY DEF Holders, Numbered, Ended, NoTimer, NoFin, NoChat, NoState
  <1>7. OneActive /\ Owned /\ Unmarked /\ Marked /\ Free
    BY DEF OneActive, Owned, Unmarked, Marked, Free, NoTimer, NoState, TimerWorks
  <1> QED
    BY <1>5, <1>6, <1>7 DEF RetryInv, StopInv

\* A retry is never a second turn of the session, for any number of turns,
\* messages, stops and timers, if the setting is switched on the session's own
\* card: the callback of a timer checks the session and starts its turn while it
\* holds the session's actor and the loop blocks the queue (RunAutoRetryTimer,
\* StateBlocksQueue).
THEOREM RetriesAlone ==
  ASSUME ~Anywhere
  PROVE  RetrySpec => []RetryAlone
  <1>1. RetryInv /\ [RetryNext]_retryVars => RetryInv'
    <2> SUFFICES ASSUME RetryInv, [RetryNext]_retryVars PROVE RetryInv'
      OBVIOUS
    <2> QED
      BY RetryTypesKept, HoldersKept, NumberedKept, OneTurnKept DEF RetryInv
  <1>2. RetryInv => RetryAlone
    <2> SUFFICES ASSUME RetryInv PROVE RetryAlone
      OBVIOUS
    <2>1. CASE sess.active = {}
      BY <2>1, FS_EmptySet DEF RetryAlone
    <2>2. CASE sess.active # {}
      <3>1. PICK k \in sess.active : TRUE
        BY <2>2
      <3>2. sess.active = {k}
        BY <3>1 DEF RetryInv, OneActive
      <3> QED
        BY <3>2, FS_Singleton DEF RetryAlone
    <2> QED
      BY <2>1, <2>2
  <1> QED
    BY RetryInitially, <1>1, <1>2, PTL DEF RetrySpec

\* Nothing is retried that a /stop has found running or waiting for its retry:
\* whatever the order of the /stop, the end of the turn, the timers and the
\* switch of the setting (CancelAutoRetry, ScheduleAutoRetryAfterFailure,
\* RunAutoRetryTimer).
THEOREM RetriesStopped == RetrySpec => StopIsFinal
  <1>1. StopInv /\ [RetryNext]_retryVars => StopInv'
    <2> SUFFICES ASSUME StopInv, [RetryNext]_retryVars PROVE StopInv'
      OBVIOUS
    <2> QED
      BY RetryTypesKept, HoldersKept, NumberedKept, EndedKept DEF StopInv
  <1>2. StopInv => (timer.pc = "start" /\ timer'.pc = "started"
                      => origin[timer.n] \notin stopped)
    BY DEF StopInv, Free
  <1> QED
    BY RetryInitially, <1>1, <1>2, PTL DEF RetrySpec, StopIsFinal
-----------------------------------------------------------------------------
(* The state store.                                                        *)

Saved == [k \in DOMAIN sessions |-> Persist(sessions[k])]
Unblank(ss) == {k \in DOMAIN ss : ~IsBlank(ss[k])}

\* Two maps of sessions differ in blank sessions at most.
Alike(a, b) == Unblank(a) = Unblank(b) /\ \A k \in Unblank(b) : a[k] = b[k]

\* The stored sessions are those of the memory; the file, unless its last save
\* failed, holds them and the records.
StoreInv ==
  up => /\ stored = Saved
        /\ ~dirty => /\ disk = Snapshot(disk.sessions, records, profiles, notes)
                     /\ Alike(disk.sessions, stored)

\* A new session is blank in the file.
LEMMA BlankStaysBlank == IsBlank(Persist(NewSession))
  <1>1. Persist(NewSession) = NewSession
    <2>1. [NewSession EXCEPT !.queue = <<>>] = NewSession
      BY DEF NewSession
    <2>2. [NewSession EXCEPT !.turn = Blank] = NewSession
      BY DEF NewSession
    <2>3. Persist(NewSession) = [[NewSession EXCEPT !.queue = <<>>] EXCEPT !.turn = Blank]
      BY DEF Persist
    <2> QED
      BY <2>1, <2>2, <2>3
  <1>2. [NewSession EXCEPT !.at = 0] = NewSession
    BY DEF NewSession
  <1> QED
    BY <1>1, <1>2 DEF IsBlank

\* A session and its stored copy are written together.
LEMMA SavedExtends ==
  ASSUME stored = Saved, NEW k, NEW s, sessions' = Extend(sessions, k, s)
  PROVE  Extend(stored, k, Persist(s)) = Saved'
  BY DEF Saved, Extend

\* A save makes the file the memory, or leaves a mark.
LEMMA SaveFollows ==
  ASSUME NEW ss, NEW rec, NEW prof, NEW nts, Save(ss, rec, prof, nts)
  PROVE  /\ stored' = ss
         /\ ~dirty' => /\ disk' = Snapshot(disk'.sessions, records', profiles', notes')
                       /\ Alike(disk'.sessions, stored')
  BY DEF Save, Snapshot, Alike

\* Every operation of the store, and a restart, keep the invariant.
LEMMA StoreKept ==
  ASSUME StoreInv, [StoreNext]_storeVars
  PROVE  StoreInv'
  <1> USE DEF StoreInv
  <1>1. ASSUME NEW order, Open(order) PROVE StoreInv'
    <2> DEFINE loaded == [k \in DOMAIN disk.sessions |-> Persist(disk.sessions[k])]
               moved == Canonicalized(loaded, order)
               rec == Rekeyed(disk.records)
               changed == \/ \E k \in DOMAIN loaded : Canonical(k, Blank) # k
                          \/ rec # disk.records
               found == IF changed THEN moved ELSE loaded
    <2>1. /\ sessions' = found
          /\ stored' = [k \in DOMAIN found |-> Persist(found[k])]
          /\ records' = rec /\ profiles' = disk.profiles /\ notes' = disk.notes
          /\ disk' = Snapshot([k \in DOMAIN found |-> Persist(found[k])], rec,
                              disk.profiles, disk.notes)
      BY <1>1 DEF Open
    <2> HIDE DEF found, rec
    <2>2. stored' = Saved'
      BY <2>1 DEF Saved
    <2>3. disk' = Snapshot(disk'.sessions, records', profiles', notes') /\ disk'.sessions = stored'
      BY <2>1 DEF Snapshot
    <2> QED
      BY <2>2, <2>3 DEF Alike
  <1>2. CASE Crash
    BY <1>2 DEF Crash
  <1>3. ASSUME NEW k, NEW b, UpsertSession(k, b) PROVE StoreInv'
    <2>1. PICK s : SaveSessionAs(k, s)
      BY <1>3 DEF UpsertSession
    <2> QED
      BY <1>3, <2>1, SavedExtends, SaveFollows DEF UpsertSession, Op, SaveSessionAs
  <1>4. ASSUME NEW k, NEW b, UpdateSession(k, b) PROVE StoreInv'
    <2>1. PICK s :
            \/ /\ sessions' = Extend(sessions, k, s)
               /\ stored' = Extend(stored, k, Persist(s))
               /\ disk' = Snapshot(stored', records, profiles, notes)
            \/ stored' = stored /\ UNCHANGED <<sessions, disk, dirty>>
      BY <1>4 DEF UpdateSession, RolledBack
    <2>2. up /\ UNCHANGED <<up, records, profiles, notes>>
      BY <1>4 DEF UpdateSession, Op
    <2>3. CASE /\ sessions' = Extend(sessions, k, s)
               /\ stored' = Extend(stored, k, Persist(s))
               /\ disk' = Snapshot(stored', records, profiles, notes)
      <3>1. stored' = Saved'
        BY <2>2, <2>3, SavedExtends
      <3>2. disk'.sessions = stored'
        BY <2>3 DEF Snapshot
      <3> QED
        BY <2>2, <2>3, <3>1, <3>2 DEF Alike
    <2>4. CASE stored' = stored /\ UNCHANGED <<sessions, disk, dirty>>
      BY <2>2, <2>4 DEF Saved
    <2> QED
      BY <2>1, <2>3, <2>4
  <1>5. ASSUME NEW f, CommitBackendSessions(f) PROVE StoreInv'
    <2> DEFINE K == {k \in DOMAIN sessions : k.f = f}
    <2>1. PICK after : \/ /\ DOMAIN after = DOMAIN sessions
                          /\ \A k \in DOMAIN sessions \ K : after[k] = sessions[k]
                          /\ sessions' = after
                          /\ stored' = [k \in DOMAIN stored |->
                                          IF k \in K THEN Persist(after[k]) ELSE stored[k]]
                          /\ disk' = Snapshot(stored', records, profiles, notes)
                       \/ UNCHANGED <<sessions, stored, disk, dirty>>
                       \/ /\ disk' = Snapshot(stored, records, profiles, notes)
                          /\ UNCHANGED <<sessions, stored>>
      BY <1>5 DEF CommitBackendSessions
    <2>2. up /\ UNCHANGED <<up, records, profiles, notes>>
      BY <1>5 DEF CommitBackendSessions, Op
    <2>3. stored' = Saved'
      BY <2>1, <2>2 DEF Saved
    <2>4. CASE disk' = Snapshot(stored', records, profiles, notes)
      <3>1. disk'.sessions = stored'
        BY <2>4 DEF Snapshot
      <3> QED
        BY <2>2, <2>3, <2>4, <3>1 DEF Alike
    <2> QED
      BY <2>1, <2>2, <2>3, <2>4
  <1>6. ASSUME NEW k, QueueSubmission(k) PROVE StoreInv'
    <2>1. PICK s : SaveSessionAs(k, s)
      BY <1>6 DEF QueueSubmission
    <2> QED
      BY <1>6, <2>1, SavedExtends, SaveFollows DEF QueueSubmission, Op, SaveSessionAs
  <1>7. ASSUME NEW k, DequeueSubmission(k) PROVE StoreInv'
    <2>1. up /\ up' = up
      BY <1>7 DEF DequeueSubmission, Op
    <2>2. CASE \E s : SaveSessionAs(k, s)
      BY <2>1, <2>2, SavedExtends, SaveFollows DEF SaveSessionAs
    <2>3. CASE /\ sessions' = Extend(sessions, k, Ensured(k))
               /\ stored' = Extend(stored, k, Persist(Ensured(k)))
               /\ UNCHANGED <<records, profiles, notes, disk, dirty>>
      <3>1. stored' = Saved'
        BY <2>1, <2>3, SavedExtends
      <3>2. CASE k \in DOMAIN sessions
        <4>1. stored' = stored
          BY <2>1, <2>3, <3>2 DEF Saved, Extend, Ensured
        <4> QED
          BY <2>1, <2>3, <3>1, <4>1
      <3>3. CASE k \notin DOMAIN sessions
        <4>1. k \notin DOMAIN stored
          BY <2>1, <3>3 DEF Saved
        <4>2. IsBlank(stored'[k])
          BY <2>3, <3>3, <4>1, BlankStaysBlank DEF Extend, Ensured
        <4>3. DOMAIN stored' = DOMAIN stored \cup {k} /\ \A x \in DOMAIN stored : stored'[x] = stored[x]
          BY <2>3, <4>1 DEF Extend
        <4>4. Unblank(stored') = Unblank(stored)
          BY <4>1, <4>2, <4>3 DEF Unblank
        <4>5. \A x \in Unblank(stored) : stored'[x] = stored[x]
          BY <4>3 DEF Unblank
        <4> QED
          BY <2>1, <2>3, <3>1, <4>4, <4>5 DEF Alike
      <3> QED
        BY <3>2, <3>3
    <2> QED
      BY <1>7, <2>2, <2>3 DEF DequeueSubmission
  <1>8. ASSUME NEW f, NEW c, NEW v, UpsertRecord(f, c, v) PROVE StoreInv'
    BY <1>8, SaveFollows DEF UpsertRecord, Op, Saved
  <1>9. ASSUME NEW f, NEW id, DeleteRecord(f, id) PROVE StoreInv'
    BY <1>9, SaveFollows DEF DeleteRecord, Op, Saved
  <1>10. ASSUME NEW f, NEW v, UpsertProfile(f, v) PROVE StoreInv'
    BY <1>10, SaveFollows DEF UpsertProfile, Op, Saved
  <1>11. ASSUME NEW f, DeleteProfile(f) PROVE StoreInv'
    BY <1>11, SaveFollows DEF DeleteProfile, Op, Saved
  <1>12. ASSUME NEW f, NEW note, QueueNote(f, note) PROVE StoreInv'
    BY <1>12, SaveFollows DEF QueueNote, Op, Saved
  <1>13. ASSUME NEW f, NEW name, ClearNotes(f, name) PROVE StoreInv'
    BY <1>13, SaveFollows DEF ClearNotes, Op, Saved
  <1>14. ASSUME NEW f, NEW u, FlushNotes(f, u) PROVE StoreInv'
    BY <1>14, SaveFollows DEF FlushNotes, Op, Saved
  <1>15. CASE UNCHANGED storeVars
    BY <1>15 DEF storeVars, Saved
  <1> QED
    BY <1>1, <1>2, <1>3, <1>4, <1>5, <1>6, <1>7, <1>8, <1>9, <1>10, <1>11, <1>12,
       <1>13, <1>14, <1>15 DEF StoreNext

\* What a restart would find is what the program works with, whatever changes,
\* failed saves, crashes and rewritten files came before.
THEOREM StoreFollows == StoreSpec => []FileFollowsMemory
  <1>1. StoreInit => StoreInv
    BY DEF StoreInit, StoreInv
  <1>2. StoreInv => FileFollowsMemory
    <2> SUFFICES ASSUME StoreInv, up PROVE FileFollowsMemory
      BY DEF FileFollowsMemory
    <2> QED
      BY DEF StoreInv, FileFollowsMemory, Saved, Alike, Unblank, Snapshot
  <1> QED
    BY <1>1, <1>2, StoreKept, PTL DEF StoreSpec
-----------------------------------------------------------------------------
(* What a start makes of the session keys of older versions.  The sessions *)
(* are met one by one: the proof is by induction on how many there are.    *)

\* Every set of naturals that is not empty has a least element.
LEMMA Least ==
  ASSUME NEW T, T \subseteq Nat, T # {}
  PROVE  \E x \in T : \A y \in T : x <= y
  <1> DEFINE Less == OpToRel(<, Nat)
  <1>1. IsWellFoundedOn(Less, Nat)
    BY NatLessThanWellFounded
  <1>2. \E x \in T : \A y \in T : <<y, x>> \notin Less
    <2> HIDE DEF Less
    <2> QED
      BY <1>1, WFMin
  <1>3. \E x \in T : \A y \in T : ~ (y < x)
    BY <1>2 DEF OpToRel
  <1> QED
    BY <1>3

\* Induction: a set that holds 0 and the successors of its elements holds the numbers
\* up to N.
LEMMA Upwards ==
  ASSUME NEW N \in Nat, NEW P, 0 \in P, \A n \in 0 .. N : n \in P /\ n < N => n + 1 \in P
  PROVE  0 .. N \subseteq P
  <1> SUFFICES ASSUME (0 .. N) \ P # {} PROVE FALSE
    OBVIOUS
  <1>1. PICK x \in (0 .. N) \ P : \A y \in (0 .. N) \ P : x <= y
    <2>1. (0 .. N) \ P \subseteq Nat
      OBVIOUS
    <2> QED
      BY <2>1, Least
  <1>2. x # 0 /\ x - 1 \in 0 .. N /\ x - 1 < N
    BY <1>1
  <1>3. x - 1 \in P
    BY <1>1, <1>2
  <1> QED
    BY <1>1, <1>2, <1>3

\* The rewriting goes through the sessions in their order.
Met(loaded, order) ==
  CHOOSE met : met = [n \in 0 .. Len(order) |->
                        IF n = 0 THEN Empty ELSE Meet(met[n - 1], loaded, order[n])]
LEMMA MetExists ==
  ASSUME NEW loaded, NEW order, Len(order) \in Nat
  PROVE  /\ Met(loaded, order)[0] = Empty
         /\ \A n \in 1 .. Len(order) :
              Met(loaded, order)[n] = Meet(Met(loaded, order)[n - 1], loaded, order[n])
         /\ Canonicalized(loaded, order) = Met(loaded, order)[Len(order)]
  <1> DEFINE N == Len(order)
             Good(k, f) == f = [n \in 0 .. k |->
                                  IF n = 0 THEN Empty ELSE Meet(f[n - 1], loaded, order[n])]
             P == {k \in 0 .. N : \E f : Good(k, f)}
  <1>1. 0 \in P
    <2>1. Good(0, [n \in 0 .. 0 |-> Empty])
      OBVIOUS
    <2> HIDE DEF Good
    <2> QED
      BY <2>1
  <1>2. ASSUME NEW k \in 0 .. N, k \in P, k < N PROVE k + 1 \in P
    <2>1. PICK f : Good(k, f)
      BY <1>2
    <2> DEFINE g == [n \in 0 .. k + 1 |->
                       IF n = k + 1 THEN Meet(f[k], loaded, order[k + 1]) ELSE f[n]]
               h == [n \in 0 .. k + 1 |->
                       IF n = 0 THEN Empty ELSE Meet(g[n - 1], loaded, order[n])]
    <2>2. ASSUME NEW n \in 0 .. k + 1 PROVE g[n] = h[n]
      <3>1. CASE n = 0
        BY <2>1, <3>1
      <3>2. CASE n = k + 1
        <4>1. n - 1 = k /\ k \in 0 .. k + 1 /\ k # k + 1
          BY <3>2
        <4>2. g[k] = f[k]
          BY <4>1
        <4> QED
          BY <3>2, <4>1, <4>2
      <3>3. CASE n \in 1 .. k
        <4>1. n \in 0 .. k /\ n - 1 \in 0 .. k + 1 /\ n - 1 # k + 1 /\ n # 0 /\ n # k + 1
          BY <3>3
        <4>2. g[n - 1] = f[n - 1] /\ g[n] = f[n]
          BY <4>1
        <4>3. f[n] = Meet(f[n - 1], loaded, order[n])
          BY <2>1, <4>1
        <4> QED
          BY <4>1, <4>2, <4>3
      <3> QED
        BY <3>1, <3>2, <3>3
    <2>3. g = h
      BY <2>2
    <2>4. Good(k + 1, g)
      BY <2>3
    <2>5. k + 1 \in 0 .. N
      BY <1>2
    <2> HIDE DEF Good, g
    <2> QED
      BY <2>4, <2>5
  <1>3. N \in P
    <2>1. 0 .. N \subseteq P
      <3> HIDE DEF P
      <3> QED
        BY <1>1, <1>2, Upwards
    <2> QED
      BY <2>1
  <1>4. Good(N, Met(loaded, order))
    BY <1>3 DEF Met
  <1>5. Canonicalized(loaded, order) = Met(loaded, order)[N]
    BY DEF Canonicalized, Met
  <1> HIDE DEF Met
  <1>6. \A n \in 0 .. N : Met(loaded, order)[n] =
          IF n = 0 THEN Empty ELSE Meet(Met(loaded, order)[n - 1], loaded, order[n])
    BY <1>4
  <1> QED
    BY <1>5, <1>6
-----------------------------------------------------------------------------
\* Sessions of older keys that become one.

SessionFields == {"thread", "name", "plan", "backends", "queue", "turn", "at"}
IsSession(s) == DOMAIN s = SessionFields /\ s.at \in Nat

\* What is kept of sessions K, of which val is one field and at the time: the newest
\* that has it, or, if the newest has none, any.
Latest(K, times) == {k \in K : \A j \in K : times[j] <= times[k]}
KeptOf(K, times, val, kept) ==
  \/ kept # Blank /\ \E k \in Latest(K, times) : val[k] = kept
  \/ /\ \E k \in Latest(K, times) : val[k] = Blank
     /\ \/ kept # Blank /\ \E k \in K : val[k] = kept
        \/ kept = Blank /\ \A k \in K : val[k] = Blank
LatestOf(K, times, t) == t \in Int /\ (\E k \in K : times[k] = t) /\ \A k \in K : times[k] <= t

\* One more session joins.
Either(a, b) == IF a # Blank THEN a ELSE b
LEMMA OneMore ==
  ASSUME NEW K, NEW k, NEW times, NEW val, NEW t, NEW kept,
         \A j \in K \cup {k} : times[j] \in Int,
         LatestOf(K, times, t), KeptOf(K, times, val, kept)
  PROVE  /\ LatestOf(K \cup {k}, times, IF times[k] > t THEN times[k] ELSE t)
         /\ KeptOf(K \cup {k}, times, val,
                   IF times[k] > t THEN Either(val[k], kept) ELSE Either(kept, val[k]))
  <1>1. Latest(K, times) = {j \in K : times[j] = t}
    BY DEF Latest, LatestOf
  <1>2. CASE times[k] > t
    <2>1. Latest(K \cup {k}, times) = {k}
      BY <1>2 DEF Latest, LatestOf
    <2>2. LatestOf(K \cup {k}, times, times[k])
      BY <1>2 DEF LatestOf
    <2>3. CASE val[k] # Blank
      BY <1>2, <2>1, <2>2, <2>3 DEF KeptOf, Either
    <2>4. CASE val[k] = Blank
      <3>1. kept # Blank => \E j \in K : val[j] = kept
        BY DEF KeptOf, Latest
      <3>2. kept = Blank => \A j \in K : val[j] = Blank
        BY DEF KeptOf
      <3> QED
        BY <1>2, <2>1, <2>2, <2>4, <3>1, <3>2 DEF KeptOf, Either
    <2> QED
      BY <2>3, <2>4
  <1>3. CASE ~(times[k] > t)
    <2>1. Latest(K \cup {k}, times) = {j \in K \cup {k} : times[j] = t}
      BY <1>3 DEF Latest, LatestOf
    <2> QED
      BY <1>1, <1>3, <2>1 DEF KeptOf, LatestOf, Either
  <1> QED
    BY <1>2, <1>3

LEMMA OnlyOne ==
  ASSUME NEW k, NEW times, NEW val, times[k] \in Int
  PROVE  LatestOf({k}, times, times[k]) /\ KeptOf({k}, times, val, val[k])
  BY DEF LatestOf, KeptOf, Latest

\* What two sessions make.
LEMMA Merged ==
  ASSUME NEW a, NEW b, IsSession(a), IsSession(b)
  PROVE  /\ IsSession(MergeSessions(a, b))
         /\ MergeSessions(a, b).at = IF b.at > a.at THEN b.at ELSE a.at
         /\ MergeSessions(a, b).thread =
              IF b.at > a.at THEN Either(b.thread, a.thread) ELSE Either(a.thread, b.thread)
         /\ MergeSessions(a, b).name =
              IF b.at > a.at THEN Either(b.name, a.name) ELSE Either(a.name, b.name)
         /\ DOMAIN MergeSessions(a, b).backends = DOMAIN a.backends \cup DOMAIN b.backends
  <1> DEFINE p == IF Newer(a, b) THEN a ELSE b
             q == IF Newer(a, b) THEN b ELSE a
             f == FillBlanks(p, q)
             bs == Overlay(q.backends, p.backends)
             qs == f.queue \o SelectSeq(q.queue, LAMBDA x : x \notin Range(p.queue))
  <1>1. IsSession(p) /\ IsSession(q) /\ (p = IF b.at > a.at THEN b ELSE a)
        /\ (q = IF b.at > a.at THEN a ELSE b)
    BY DEF Newer
  <1>2. /\ DOMAIN f = SessionFields /\ f.at = p.at
        /\ f.thread = Either(p.thread, q.thread) /\ f.name = Either(p.name, q.name)
    BY <1>1 DEF FillBlanks, IsSession, SessionFields, Either
  <1>3. DOMAIN bs = DOMAIN a.backends \cup DOMAIN b.backends
    BY <1>1 DEF Overlay
  <1>4. MergeSessions(a, b) = [f EXCEPT !.backends = bs, !.queue = qs]
    BY DEF MergeSessions
  <1> HIDE DEF f, bs, qs
  <1>5. /\ DOMAIN MergeSessions(a, b) = SessionFields /\ MergeSessions(a, b).at = p.at
        /\ MergeSessions(a, b).thread = f.thread /\ MergeSessions(a, b).name = f.name
        /\ MergeSessions(a, b).backends = bs
    BY <1>2, <1>4 DEF SessionFields
  <1> QED
    BY <1>1, <1>2, <1>3, <1>5 DEF IsSession

\* What has been made of sessions Q of the file.
Comes(Q, c) == {k \in Q : Canonical(k, Blank) = c}
Whole(s, K, loaded) ==
  LET times == [k \in DOMAIN loaded |-> loaded[k].at]
  IN  /\ IsSession(s) /\ LatestOf(K, times, s.at)
      /\ KeptOf(K, times, [k \in DOMAIN loaded |-> loaded[k].thread], s.thread)
      /\ KeptOf(K, times, [k \in DOMAIN loaded |-> loaded[k].name], s.name)
      /\ DOMAIN s.backends = UNION {DOMAIN loaded[k].backends : k \in K}
Gathered(acc, Q, loaded) ==
  /\ DOMAIN acc = {Canonical(k, Blank) : k \in Q}
  /\ \A c \in DOMAIN acc : Whole(acc[c], Comes(Q, c), loaded)

LEMMA OneMoreGathered ==
  ASSUME NEW acc, NEW loaded, NEW Q \in SUBSET DOMAIN loaded, NEW k \in DOMAIN loaded,
         \A j \in DOMAIN loaded : IsSession(loaded[j]), Gathered(acc, Q, loaded)
  PROVE  Gathered(Meet(acc, loaded, k), Q \cup {k}, loaded)
  <1> DEFINE ck == Canonical(k, Blank)
             times == [j \in DOMAIN loaded |-> loaded[j].at]
             thread == [j \in DOMAIN loaded |-> loaded[j].thread]
             name == [j \in DOMAIN loaded |-> loaded[j].name]
             put == IF ck \in DOMAIN acc THEN MergeSessions(acc[ck], loaded[k]) ELSE loaded[k]
             kept == Meet(acc, loaded, k)
  <1>1. kept = Extend(acc, ck, put)
    BY DEF Meet
  <1>2. /\ DOMAIN kept = DOMAIN acc \cup {ck} /\ kept[ck] = put
        /\ \A c \in DOMAIN acc \ {ck} : kept[c] = acc[c]
    BY <1>1 DEF Extend
  <1>3. DOMAIN kept = {Canonical(j, Blank) : j \in Q \cup {k}}
    BY <1>2 DEF Gathered
  <1>4. \A c \in DOMAIN acc \ {ck} : Comes(Q \cup {k}, c) = Comes(Q, c)
    BY DEF Comes
  <1>5. Comes(Q \cup {k}, ck) = Comes(Q, ck) \cup {k}
    BY DEF Comes
  <1>6. \A j \in DOMAIN loaded : times[j] \in Int /\ times[j] = loaded[j].at
                                 /\ thread[j] = loaded[j].thread /\ name[j] = loaded[j].name
    BY DEF IsSession
  <1>7. Whole(put, Comes(Q, ck) \cup {k}, loaded)
    <2>1. CASE ck \in DOMAIN acc
      <3> DEFINE a == acc[ck]
      <3>1. /\ IsSession(a) /\ LatestOf(Comes(Q, ck), times, a.at)
            /\ KeptOf(Comes(Q, ck), times, thread, a.thread)
            /\ KeptOf(Comes(Q, ck), times, name, a.name)
            /\ DOMAIN a.backends = UNION {DOMAIN loaded[j].backends : j \in Comes(Q, ck)}
        BY <2>1 DEF Gathered, Whole
      <3>2. put = MergeSessions(a, loaded[k]) /\ IsSession(loaded[k])
        BY <2>1
      <3>3. \A j \in Comes(Q, ck) \cup {k} : times[j] \in Int
        BY <1>6 DEF Comes
      <3> HIDE DEF a, times, thread, name, put, ck
      <3>4. /\ LatestOf(Comes(Q, ck) \cup {k}, times, IF times[k] > a.at THEN times[k] ELSE a.at)
            /\ KeptOf(Comes(Q, ck) \cup {k}, times, thread,
                 IF times[k] > a.at THEN Either(thread[k], a.thread) ELSE Either(a.thread, thread[k]))
            /\ KeptOf(Comes(Q, ck) \cup {k}, times, name,
                 IF times[k] > a.at THEN Either(name[k], a.name) ELSE Either(a.name, name[k]))
        BY <3>1, <3>3, OneMore
      <3>5. /\ IsSession(put) /\ DOMAIN put.backends = DOMAIN a.backends \cup DOMAIN loaded[k].backends
            /\ put.at = IF times[k] > a.at THEN times[k] ELSE a.at
            /\ put.thread = IF times[k] > a.at THEN Either(thread[k], a.thread) ELSE Either(a.thread, thread[k])
            /\ put.name = IF times[k] > a.at THEN Either(name[k], a.name) ELSE Either(a.name, name[k])
        BY <1>6, <3>1, <3>2, Merged
      <3>6. DOMAIN put.backends = UNION {DOMAIN loaded[j].backends : j \in Comes(Q, ck) \cup {k}}
        BY <3>1, <3>5
      <3>7. /\ IsSession(put) /\ LatestOf(Comes(Q, ck) \cup {k}, times, put.at)
            /\ KeptOf(Comes(Q, ck) \cup {k}, times, thread, put.thread)
            /\ KeptOf(Comes(Q, ck) \cup {k}, times, name, put.name)
        BY <3>4, <3>5
      <3> QED
        BY <3>6, <3>7 DEF Whole, times, thread, name
    <2>2. CASE ck \notin DOMAIN acc
      <3>1. Comes(Q, ck) = {}
        BY <2>2 DEF Gathered, Comes
      <3>2. put = loaded[k]
        BY <2>2
      <3>3. times[k] \in Int /\ times[k] = put.at /\ thread[k] = put.thread /\ name[k] = put.name
        BY <1>6, <3>2
      <3> HIDE DEF times, thread, name, put, ck
      <3>4. Comes(Q, ck) \cup {k} = {k}
        BY <3>1
      <3>5. DOMAIN put.backends = UNION {DOMAIN loaded[j].backends : j \in {k}}
        BY <3>2
      <3>6. /\ IsSession(put) /\ LatestOf({k}, times, put.at)
            /\ KeptOf({k}, times, thread, put.thread) /\ KeptOf({k}, times, name, put.name)
        BY <3>2, <3>3, OnlyOne
      <3> QED
        BY <3>4, <3>5, <3>6 DEF Whole, times, thread, name
    <2> QED
      BY <2>1, <2>2
  <1>8. ASSUME NEW c \in DOMAIN kept PROVE Whole(kept[c], Comes(Q \cup {k}, c), loaded)
    <2>1. CASE c = ck
      <3> HIDE DEF put, ck, kept
      <3> QED
        BY <1>2, <1>5, <1>7, <2>1
    <2>2. CASE c # ck
      <3>1. c \in DOMAIN acc /\ kept[c] = acc[c] /\ Comes(Q \cup {k}, c) = Comes(Q, c)
        BY <1>2, <1>4, <2>2
      <3> HIDE DEF put, ck, kept
      <3> QED
        BY <3>1 DEF Gathered
    <2> QED
      BY <2>1, <2>2
  <1>9. Gathered(kept, Q \cup {k}, loaded)
    <2> HIDE DEF kept, ck
    <2> QED
      BY <1>3, <1>8 DEF Gathered
  <1> QED
    BY <1>9

\* All of the sessions, in whatever order they are met.
LEMMA AllGathered ==
  ASSUME NEW loaded, \A j \in DOMAIN loaded : IsSession(loaded[j]),
         IsFiniteSet(DOMAIN loaded), NEW order \in Orders(DOMAIN loaded)
  PROVE  Gathered(Canonicalized(loaded, order), DOMAIN loaded, loaded)
  <1> DEFINE D == DOMAIN loaded
             N == Len(order)
             met(n) == Met(loaded, order)[n]
             So(n) == {order[i] : i \in 1 .. n}
             P == {n \in 0 .. N : Gathered(met(n), So(n), loaded)}
  <1>1. Cardinality(D) \in Nat
    BY FS_CardinalityType
  <1>2. /\ N = Cardinality(D) /\ N \in Nat /\ DOMAIN order = 1 .. N
        /\ \A i \in 1 .. N : order[i] \in D
        /\ So(N) = D
    <2>1. order \in [1 .. Cardinality(D) -> D] /\ Range(order) = D
      BY DEF Orders
    <2>2. order \in Seq(D) /\ N = Cardinality(D)
      BY <1>1, <2>1
    <2> QED
      BY <1>1, <2>1, <2>2 DEF Range
  <1>3. /\ met(0) = Empty /\ Canonicalized(loaded, order) = met(N)
        /\ \A n \in 1 .. N : met(n) = Meet(met(n - 1), loaded, order[n])
    BY <1>2, MetExists
  <1> HIDE DEF met, N
  <1>4. 0 \in P
    <2>1. So(0) = {}
      OBVIOUS
    <2>2. Gathered(Empty, {}, loaded)
      BY DEF Gathered, Empty
    <2>3. Gathered(met(0), So(0), loaded)
      BY <1>3, <2>1, <2>2, Zenon
    <2> HIDE DEF So
    <2> QED
      BY <1>2, <2>3
  <1>5. ASSUME NEW n \in 0 .. N, n \in P, n < N PROVE n + 1 \in P
    <2>1. n + 1 \in 1 .. N /\ n + 1 \in 0 .. N /\ (n + 1) - 1 = n
      BY <1>2, <1>5
    <2>2. met(n + 1) = Meet(met(n), loaded, order[n + 1])
      BY <1>3, <2>1
    <2>3. So(n + 1) = So(n) \cup {order[n + 1]}
      BY <1>2
    <2>4. So(n) \in SUBSET D /\ order[n + 1] \in D
      BY <1>2, <1>5, <2>1
    <2>5. Gathered(met(n), So(n), loaded)
      BY <1>5
    <2> HIDE DEF So
    <2>6. Gathered(met(n + 1), So(n + 1), loaded)
      BY <2>2, <2>3, <2>4, <2>5, OneMoreGathered
    <2> QED
      BY <2>1, <2>6
  <1>6. N \in P
    <2>1. 0 .. N \subseteq P
      <3> HIDE DEF P
      <3> QED
        BY <1>2, <1>4, <1>5, Upwards
    <2> QED
      BY <1>2, <2>1
  <1> QED
    BY <1>2, <1>3, <1>6
-----------------------------------------------------------------------------
\* Every session has its fields, and there are finitely many.

Sound(ss) == IsFiniteSet(DOMAIN ss) /\ \A k \in DOMAIN ss : IsSession(ss[k])
SoundInv == ops \in Nat /\ Sound(sessions) /\ Sound(stored) /\ Sound(disk.sessions)

LEMMA Fields ==
  ASSUME NEW s, IsSession(s)
  PROVE  /\ IsSession(Persist(s))
         /\ Persist(s).at = s.at /\ Persist(s).thread = s.thread /\ Persist(s).name = s.name
         /\ Persist(s).backends = s.backends
         /\ \A b : IsSession(StoreBackendThread(s, b))
         /\ ops \in Nat => IsSession(Now(s))
         /\ \A c \in Changed(s) : IsSession(c)
  <1>1. /\ IsSession(Persist(s))
        /\ Persist(s).at = s.at /\ Persist(s).thread = s.thread /\ Persist(s).name = s.name
        /\ Persist(s).backends = s.backends
    BY DEF IsSession, SessionFields, Persist
  <1>2. ASSUME NEW b PROVE IsSession(StoreBackendThread(s, b))
    <2>1. PICK bs : StoreBackendThread(s, b) = [s EXCEPT !.backends = bs]
      BY DEF StoreBackendThread
    <2> QED
      BY <2>1 DEF IsSession, SessionFields
  <1>3. ops \in Nat => IsSession(Now(s))
    BY DEF IsSession, SessionFields, Now
  <1>4. \A c \in Changed(s) : IsSession(c)
    BY DEF IsSession, SessionFields, Changed
  <1> QED
    BY <1>1, <1>2, <1>3, <1>4

LEMMA NewFields == IsSession(NewSession)
  BY DEF NewSession, IsSession, SessionFields

LEMMA SoundExtend ==
  ASSUME NEW ss, Sound(ss), NEW k, NEW s, IsSession(s)
  PROVE  Sound(Extend(ss, k, s))
  <1>1. DOMAIN Extend(ss, k, s) = DOMAIN ss \cup {k}
        /\ \A x \in DOMAIN ss \cup {k} : Extend(ss, k, s)[x] = IF x = k THEN s ELSE ss[x]
    BY DEF Extend
  <1>2. IsFiniteSet(DOMAIN ss \cup {k})
    BY FS_AddElement DEF Sound
  <1> HIDE DEF Extend
  <1> QED
    BY <1>1, <1>2 DEF Sound

LEMMA SoundSave ==
  ASSUME NEW ss, NEW rec, NEW prof, NEW nts, Save(ss, rec, prof, nts),
         Sound(ss), Sound(disk.sessions)
  PROVE  Sound(stored') /\ Sound(disk'.sessions)
  BY DEF Save, Snapshot

LEMMA SoundSaveAs ==
  ASSUME SoundInv, NEW k, NEW s, IsSession(s), SaveSessionAs(k, s)
  PROVE  Sound(sessions') /\ Sound(stored') /\ Sound(disk'.sessions)
  <1>1. IsSession(Persist(s))
    BY Fields
  <1> QED
    BY <1>1, SoundExtend, SoundSave DEF SaveSessionAs, SoundInv

\* What a start reads, and what it makes of it.
Loaded == [k \in DOMAIN disk.sessions |-> Persist(disk.sessions[k])]
LEMMA Opened ==
  ASSUME SoundInv, NEW order \in Orders(DOMAIN disk.sessions), Open(order)
  PROVE  /\ Gathered(sessions', DOMAIN Loaded, Loaded)
         /\ stored' = [k \in DOMAIN sessions' |-> Persist(sessions'[k])]
         /\ disk'.sessions = stored' /\ ops' = ops
  <1> DEFINE D == DOMAIN Loaded
             moved == Canonicalized(Loaded, order)
             rec == Rekeyed(disk.records)
             changed == \/ \E k \in DOMAIN Loaded : Canonical(k, Blank) # k
                        \/ rec # disk.records
             found == IF changed THEN moved ELSE Loaded
  <1>1. /\ sessions' = found
        /\ stored' = [k \in DOMAIN found |-> Persist(found[k])]
        /\ disk' = Snapshot([k \in DOMAIN found |-> Persist(found[k])], rec,
                            disk.profiles, disk.notes)
        /\ ops' = ops
    BY DEF Open, Loaded
  <1>2. D = DOMAIN disk.sessions /\ IsFiniteSet(D) /\ \A j \in D : IsSession(Loaded[j])
    BY Fields DEF SoundInv, Sound, Loaded
  <1>3. Gathered(moved, D, Loaded)
    BY <1>2, AllGathered
  <1>4. Gathered(sessions', D, Loaded)
    <2>1. CASE changed
      <3>1. sessions' = moved
        BY <1>1, <2>1
      <3> HIDE DEF moved
      <3> QED
        BY <1>3, <3>1
    <2>2. CASE ~changed
      <3>1. sessions' = Loaded
        BY <1>1, <2>2
      <3>2. \A k \in D : Canonical(k, Blank) = k
        BY <2>2
      <3>3. D = {Canonical(k, Blank) : k \in D}
        BY <3>2
      <3>4. ASSUME NEW c \in D PROVE Whole(Loaded[c], Comes(D, c), Loaded)
        <4> DEFINE times == [k \in DOMAIN Loaded |-> Loaded[k].at]
                   thread == [k \in DOMAIN Loaded |-> Loaded[k].thread]
                   name == [k \in DOMAIN Loaded |-> Loaded[k].name]
        <4>1. Comes(D, c) = {c}
          BY <3>2 DEF Comes
        <4>2. times[c] = Loaded[c].at /\ times[c] \in Int /\ thread[c] = Loaded[c].thread
              /\ name[c] = Loaded[c].name /\ IsSession(Loaded[c])
          BY <1>2 DEF IsSession
        <4> HIDE DEF times, thread, name
        <4>3. LatestOf({c}, times, Loaded[c].at) /\ KeptOf({c}, times, thread, Loaded[c].thread)
              /\ KeptOf({c}, times, name, Loaded[c].name)
          BY <4>2, OnlyOne
        <4>4. DOMAIN Loaded[c].backends = UNION {DOMAIN Loaded[k].backends : k \in {c}}
          OBVIOUS
        <4> QED
          BY <4>1, <4>2, <4>3, <4>4 DEF Whole, times, thread, name
      <3> QED
        BY <3>1, <3>3, <3>4 DEF Gathered
    <2> QED
      BY <2>1, <2>2
  <1> HIDE DEF found
  <1>5. /\ stored' = [k \in DOMAIN sessions' |-> Persist(sessions'[k])]
        /\ disk'.sessions = stored' /\ ops' = ops
    BY <1>1 DEF Snapshot
  <1> QED
    BY <1>4, <1>5

\* Every operation of the store, and a restart, keep the sessions sound.
LEMMA SoundKept ==
  ASSUME SoundInv, [StoreNext]_storeVars
  PROVE  SoundInv'
  <1> USE DEF SoundInv
  <1>1. ASSUME NEW order \in Orders(DOMAIN disk.sessions), Open(order) PROVE SoundInv'
    <2>1. /\ Gathered(sessions', DOMAIN Loaded, Loaded)
          /\ stored' = [k \in DOMAIN sessions' |-> Persist(sessions'[k])]
          /\ disk'.sessions = stored' /\ ops' = ops
      BY <1>1, Opened
    <2>2. IsFiniteSet(DOMAIN Loaded)
      BY DEF Loaded, Sound
    <2>3. IsFiniteSet({Canonical(k, Blank) : k \in DOMAIN Loaded})
      <3> DEFINE D == DOMAIN Loaded
                 C == {Canonical(k, Blank) : k \in D}
                 f == [k \in D |-> Canonical(k, Blank)]
      <3>1. f \in Surjection(D, C)
        BY DEF Surjection
      <3> HIDE DEF D, C, f
      <3>2. IsFiniteSet(C)
        BY <2>2, <3>1, FS_Surjection DEF D
      <3> QED
        BY <3>2 DEF C, D
    <2>4. DOMAIN sessions' = {Canonical(k, Blank) : k \in DOMAIN Loaded}
          /\ \A c \in DOMAIN sessions' : IsSession(sessions'[c])
      BY <2>1 DEF Gathered, Whole
    <2>5. Sound(sessions') /\ Sound(stored')
      BY <2>1, <2>3, <2>4, Fields DEF Sound
    <2> QED
      BY <2>1, <2>5
  <1>2. CASE Crash
    <2>1. Sound(Empty)
      BY FS_EmptySet DEF Sound, Empty
    <2> QED
      BY <1>2, <2>1 DEF Crash
  <1>3. ASSUME NEW k, NEW b, UpsertSession(k, b) PROVE SoundInv'
    <2> DEFINE old == IF k \in DOMAIN sessions THEN sessions[k] ELSE NewSession
    <2>1. IsSession(old)
      BY NewFields DEF Sound
    <2>2. PICK s \in Changed(old) : SaveSessionAs(k, Now(StoreBackendThread(s, b)))
      BY <1>3 DEF UpsertSession
    <2> HIDE DEF old
    <2>3. IsSession(Now(StoreBackendThread(s, b)))
      BY <2>1, <2>2, Fields
    <2> QED
      BY <1>3, <2>2, <2>3, SoundSaveAs DEF UpsertSession, Op
  <1>4. ASSUME NEW k, NEW b, UpdateSession(k, b) PROVE SoundInv'
    <2>1. k \in DOMAIN sessions /\ ops' \in Nat
      BY <1>4 DEF UpdateSession, Op
    <2>2. PICK c \in Changed(sessions[k]) :
            LET s == Now(StoreBackendThread(c, b))
            IN  \/ /\ sessions' = Extend(sessions, k, s)
                   /\ stored' = Extend(stored, k, Persist(s))
                   /\ disk' = Snapshot(stored', records, profiles, notes)
                \/ stored' = stored /\ UNCHANGED <<sessions, disk, dirty>>
      BY <1>4 DEF UpdateSession, RolledBack
    <2> DEFINE s == Now(StoreBackendThread(c, b))
    <2>3. IsSession(s) /\ IsSession(Persist(s))
      BY <2>1, <2>2, Fields DEF Sound
    <2> HIDE DEF s
    <2>4. Sound(Extend(sessions, k, s)) /\ Sound(Extend(stored, k, Persist(s)))
      BY <2>3, SoundExtend
    <2>5. CASE /\ sessions' = Extend(sessions, k, s)
               /\ stored' = Extend(stored, k, Persist(s))
               /\ disk' = Snapshot(stored', records, profiles, notes)
      <3>1. disk'.sessions = stored'
        BY <2>5 DEF Snapshot
      <3> QED
        BY <2>1, <2>4, <2>5, <3>1
    <2> QED
      BY <2>1, <2>2, <2>5 DEF s
  <1>5. ASSUME NEW f, CommitBackendSessions(f) PROVE SoundInv'
    <2> DEFINE K == {k \in DOMAIN sessions : k.f = f}
               after == [k \in DOMAIN sessions |->
                          IF k \in K THEN Now([sessions[k] EXCEPT !.thread = Blank])
                          ELSE sessions[k]]
               saved == [k \in DOMAIN stored |-> IF k \in K THEN Persist(after[k]) ELSE stored[k]]
    <2>1. /\ \/ /\ sessions' = after /\ stored' = saved
                /\ disk' = Snapshot(saved, records, profiles, notes)
             \/ UNCHANGED <<sessions, stored, disk>>
             \/ /\ disk' = Snapshot(stored, records, profiles, notes)
                /\ UNCHANGED <<sessions, stored>>
          /\ ops' \in Nat
      BY <1>5 DEF CommitBackendSessions, Op
    <2>2. ASSUME NEW k \in DOMAIN sessions PROVE IsSession(after[k])
      <3>1. IsSession([sessions[k] EXCEPT !.thread = Blank])
        BY DEF Sound, IsSession, SessionFields
      <3> QED
        BY <3>1, Fields DEF Sound
    <2>3. ASSUME NEW k \in DOMAIN stored PROVE IsSession(saved[k])
      <3> HIDE DEF after
      <3> QED
        BY <2>2, Fields DEF Sound
    <2>4. DOMAIN after = DOMAIN sessions /\ DOMAIN saved = DOMAIN stored
      OBVIOUS
    <2> HIDE DEF after, saved
    <2>5. Sound(after) /\ Sound(saved)
      BY <2>2, <2>3, <2>4 DEF Sound
    <2> QED
      BY <2>1, <2>5 DEF Snapshot
  <1>6. ASSUME NEW k, QueueSubmission(k) PROVE SoundInv'
    <2>1. IsSession(Ensured(k)) /\ ops' \in Nat
      BY <1>6, NewFields DEF QueueSubmission, Op, Ensured, Sound
    <2>2. IsSession([Ensured(k) EXCEPT !.queue = Append(@, ops)])
      BY <2>1 DEF IsSession, SessionFields
    <2>3. IsSession(Now([Ensured(k) EXCEPT !.queue = Append(@, ops)]))
      BY <2>2, Fields
    <2>4. SaveSessionAs(k, Now([Ensured(k) EXCEPT !.queue = Append(@, ops)]))
      BY <1>6 DEF QueueSubmission
    <2> QED
      BY <2>1, <2>3, <2>4, SoundSaveAs
  <1>7. ASSUME NEW k, DequeueSubmission(k) PROVE SoundInv'
    <2>1. IsSession(Ensured(k)) /\ ops' \in Nat
      BY <1>7, NewFields DEF DequeueSubmission, Op, Ensured, Sound
    <2>2. IsSession([Ensured(k) EXCEPT !.queue = Tail(@)])
      BY <2>1 DEF IsSession, SessionFields
    <2>3. IsSession(Now([Ensured(k) EXCEPT !.queue = Tail(@)]))
      BY <2>2, Fields
    <2>4. CASE SaveSessionAs(k, Now([Ensured(k) EXCEPT !.queue = Tail(@)]))
      BY <2>1, <2>3, <2>4, SoundSaveAs
    <2>5. CASE /\ sessions' = Extend(sessions, k, Ensured(k))
               /\ stored' = Extend(stored, k, Persist(Ensured(k))) /\ disk' = disk
      <3>1. IsSession(Persist(Ensured(k)))
        BY <2>1, Fields
      <3> QED
        BY <2>1, <2>5, <3>1, SoundExtend
    <2> QED
      BY <1>7, <2>4, <2>5 DEF DequeueSubmission
  <1>8. ASSUME NEW f, NEW c, NEW v, UpsertRecord(f, c, v) PROVE SoundInv'
    BY <1>8, SoundSave DEF UpsertRecord, Op
  <1>9. ASSUME NEW f, NEW id, DeleteRecord(f, id) PROVE SoundInv'
    BY <1>9, SoundSave DEF DeleteRecord, Op
  <1>10. ASSUME NEW f, NEW v, UpsertProfile(f, v) PROVE SoundInv'
    BY <1>10, SoundSave DEF UpsertProfile, Op
  <1>11. ASSUME NEW f, DeleteProfile(f) PROVE SoundInv'
    BY <1>11, SoundSave DEF DeleteProfile, Op
  <1>12. ASSUME NEW f, NEW note, QueueNote(f, note) PROVE SoundInv'
    BY <1>12, SoundSave DEF QueueNote, Op
  <1>13. ASSUME NEW f, NEW name, ClearNotes(f, name) PROVE SoundInv'
    BY <1>13, SoundSave DEF ClearNotes, Op
  <1>14. ASSUME NEW f, NEW u, FlushNotes(f, u) PROVE SoundInv'
    BY <1>14, SoundSave DEF FlushNotes, Op
  <1>15. CASE UNCHANGED storeVars
    BY <1>15 DEF storeVars
  <1> QED
    BY <1>1, <1>2, <1>3, <1>4, <1>5, <1>6, <1>7, <1>8, <1>9, <1>10, <1>11, <1>12,
       <1>13, <1>14, <1>15 DEF StoreNext

\* A session that is whole keeps the work of all that it takes the place of.
LEMMA WholeKeeps ==
  ASSUME SoundInv, NEW k \in DOMAIN disk.sessions, Canonical(k, Blank) \in DOMAIN sessions',
         Whole(sessions'[Canonical(k, Blank)], Comes(DOMAIN Loaded, Canonical(k, Blank)), Loaded)
  PROVE  KeepsWork(k)
  <1> DEFINE D == disk.sessions
             c == Canonical(k, Blank)
             s == sessions'[c]
             K == Comes(DOMAIN Loaded, c)
             old == {D[x] : x \in K}
             newest == {o \in old : \A t \in old : t.at <= o.at}
             times == [j \in DOMAIN Loaded |-> Loaded[j].at]
             thread == [j \in DOMAIN Loaded |-> Loaded[j].thread]
             name == [j \in DOMAIN Loaded |-> Loaded[j].name]
  <1>1. /\ K = {y \in DOMAIN disk.sessions : Canonical(y, Blank) = c}
        /\ \A j \in K : /\ times[j] = D[j].at /\ thread[j] = D[j].thread /\ name[j] = D[j].name
                        /\ Loaded[j].backends = D[j].backends
    BY Fields DEF Comes, Loaded, SoundInv, Sound
  <1>2. /\ KeptOf(K, times, thread, s.thread) /\ KeptOf(K, times, name, s.name)
        /\ DOMAIN s.backends = UNION {DOMAIN Loaded[j].backends : j \in K}
        /\ K # {}
    BY DEF Whole, LatestOf
  <1> HIDE DEF K, times, thread, name, D
  <1>3. newest = {D[j] : j \in Latest(K, times)}
    BY <1>1 DEF Latest
  <1>4. Latest(K, times) \subseteq K
    BY DEF Latest
  <1> HIDE DEF newest
  <1>5. /\ {o.thread : o \in newest} = {thread[j] : j \in Latest(K, times)}
        /\ {o.name : o \in newest} = {name[j] : j \in Latest(K, times)}
    <2>1. \A j \in Latest(K, times) : thread[j] = D[j].thread /\ name[j] = D[j].name
      BY <1>1, <1>4
    <2> QED
      BY <1>3, <2>1
  <1>6. /\ {o.thread : o \in old} = {thread[j] : j \in K}
        /\ {o.name : o \in old} = {name[j] : j \in K}
        /\ DOMAIN s.backends = UNION {DOMAIN o.backends : o \in old}
    BY <1>1, <1>2
  <1>7. \/ s.thread \in {thread[j] : j \in Latest(K, times)} \ {Blank}
        \/ /\ Blank \in {thread[j] : j \in Latest(K, times)}
           /\ \/ s.thread \in {thread[j] : j \in K} \ {Blank}
              \/ {thread[j] : j \in K} = {Blank}
    BY <1>2 DEF KeptOf
  <1>8. \/ s.name \in {name[j] : j \in Latest(K, times)} \ {Blank}
        \/ /\ Blank \in {name[j] : j \in Latest(K, times)}
           /\ \/ s.name \in {name[j] : j \in K} \ {Blank}
              \/ {name[j] : j \in K} = {Blank}
    BY <1>2 DEF KeptOf
  <1> QED
    BY <1>1, <1>5, <1>6, <1>7, <1>8 DEF newest, D, KeepsWork

\* The rewriting of old session keys loses nothing, whatever sessions a file holds and
\* in whatever order they are met (CanonicalizeSessionKeys, mergeSessions).
THEOREM StoreMigrates == StoreSpec => MigrationKeepsWork
  <1>1. StoreInit => SoundInv
    <2>1. Sound(Empty)
      BY FS_EmptySet DEF Sound, Empty
    <2> QED
      BY <2>1, StoreAssumption DEF StoreInit, SoundInv, Sound, IsSession, SessionFields, NewSession
  <1>2. ASSUME SoundInv, [StoreNext]_storeVars, ~up, up', NEW k \in DOMAIN disk.sessions
        PROVE  KeepsWork(k)
    <2>1. PICK order \in Orders(DOMAIN disk.sessions) : Open(order)
      BY <1>2 DEF StoreNext, storeVars, Crash, UpsertSession, UpdateSession,
         CommitBackendSessions, QueueSubmission, DequeueSubmission, UpsertRecord,
         DeleteRecord, UpsertProfile, DeleteProfile, QueueNote, ClearNotes, FlushNotes, Op
    <2>2. Gathered(sessions', DOMAIN Loaded, Loaded)
      BY <1>2, <2>1, Opened
    <2>3. k \in DOMAIN Loaded
      BY DEF Loaded
    <2>4. /\ Canonical(k, Blank) \in DOMAIN sessions'
          /\ Whole(sessions'[Canonical(k, Blank)],
                   Comes(DOMAIN Loaded, Canonical(k, Blank)), Loaded)
      BY <2>2, <2>3 DEF Gathered
    <2> QED
      BY <1>2, <2>4, WholeKeeps
  <1>3. SoundInv /\ [StoreNext]_storeVars =>
          [~up /\ up' => \A k \in DOMAIN disk.sessions : KeepsWork(k)]_storeVars
    BY <1>2
  <1> QED
    BY <1>1, <1>3, SoundKept, PTL DEF StoreSpec, MigrationKeepsWork
-----------------------------------------------------------------------------
(* Calls that are refused for their token.                                 *)

CallSteps == {"idle", "waits", "ready", "sent", "store", "done"}
CallFields == {"at", "slot", "tok", "tries", "end", "since", "id"}

ApiTypes ==
  /\ token \in Nat /\ cache \in Nat
  /\ DOMAIN call = Calls
  /\ \A c \in Calls :
       /\ DOMAIN call[c] = CallFields /\ call[c].at \in CallSteps
       /\ call[c].tries \in 0 .. 2 /\ call[c].since \in Nat /\ call[c].tok \in Nat

\* A call knows no token that is newer than the server's.
Older ==
  /\ cache <= token
  /\ \A c \in Calls : call[c].since <= token /\ call[c].tok <= token

\* The first request of a call may be sent with any token, the second one only
\* with a token that was fetched after the call began.
Fresher ==
  \A c \in Calls :
    /\ call[c].at \in {"idle", "waits"} => call[c].tries = 0
    /\ call[c].at = "ready" => call[c].tries \in {0, 1}
    /\ call[c].at = "ready" /\ call[c].tries = 1 =>
         cache = Unset \/ call[c].since <= cache
    /\ call[c].at = "sent" => call[c].tries \in {1, 2}
    /\ call[c].at = "sent" /\ call[c].tries = 2 => call[c].since <= call[c].tok
    /\ call[c].end = "invalid" => call[c].since < token
    /\ call[c].at # "done" => call[c].end # "invalid"

ApiInv == ApiTypes /\ Older /\ Fresher

\* What a step makes of its call; the others stay as they are.
Changes(c, a, tok, tries, end, since) ==
  /\ DOMAIN call' = Calls
  /\ \A d \in Calls \ {c} : call'[d] = call[d]
  /\ DOMAIN call'[c] = CallFields
  /\ call'[c].at = a /\ call'[c].tok = tok /\ call'[c].tries = tries
  /\ call'[c].end = end /\ call'[c].since = since

\* What a call changes of itself.
LEMMA SetChanges ==
  ASSUME ApiTypes, NEW c \in Calls, NEW a, Set(c, a)
  PROVE  Changes(c, a, call[c].tok, call[c].tries, call[c].end, call[c].since)
  BY DEF ApiTypes, Set, Changes, CallFields

\* What the end of a call changes.
LEMMA EndChanges ==
  ASSUME ApiTypes, NEW c \in Calls, NEW how, End(c, how)
  PROVE  Changes(c, "done", call[c].tok, call[c].tries, how, call[c].since)
  BY DEF ApiTypes, End, Changes, CallFields

\* A call begins.
Begins(c) ==
  \E a \in {"waits", "ready"} :
    Changes(c, a, call[c].tok, call[c].tries, call[c].end, token)

\* A call that begins keeps the invariant.
LEMMA BeginsKeeps ==
  ASSUME ApiInv, NEW c \in Calls, call[c].at = "idle", Begins(c), UNCHANGED <<token, cache>>
  PROVE  ApiInv'
  BY DEF ApiInv, ApiTypes, Older, Fresher, Begins, Changes, CallSteps, Unset

\* A call takes another step than that of a request, or ends.
Moves(c, a, end) == Changes(c, a, call[c].tok, call[c].tries, end, call[c].since)

\* So does one that goes on.
LEMMA MovesKeeps ==
  ASSUME ApiInv, NEW c \in Calls, NEW a, NEW end, Moves(c, a, end),
         UNCHANGED <<token, cache>>,
         \/ a = "done" /\ end # "invalid"
         \/ a = "store" /\ end = call[c].end /\ call[c].at # "done"
         \/ a = "ready" /\ end = call[c].end /\ call[c].at = "waits"
  PROVE  ApiInv'
  BY DEF ApiInv, ApiTypes, Older, Fresher, Moves, Changes, CallSteps, Unset

\* So does every step.
LEMMA ApiKept ==
  ASSUME ApiInv, [ApiNext]_apiVars
  PROVE  ApiInv'
  <1>1. CASE Tick
    BY <1>1 DEF Tick, ApiInv, ApiTypes, Older, Fresher
  <1>2. CASE Rotate
    BY <1>2 DEF Rotate, ApiInv, ApiTypes, Older, Fresher
  <1>3. ASSUME NEW c \in Calls, CreateMessage(c) \/ PatchMessage(c) \/ ReplyMessage(c)
        PROVE  ApiInv'
    <2>1. Begins(c)
      BY <1>3 DEF CreateMessage, PatchMessage, ReplyMessage, Paced, Begins, Changes,
           ApiInv, ApiTypes, CallFields
    <2> QED
      BY <1>3, <2>1, BeginsKeeps DEF CreateMessage, PatchMessage, ReplyMessage
  <1>4. ASSUME NEW c \in Calls, SlotReached(c) PROVE ApiInv'
    BY <1>4, SetChanges, MovesKeeps DEF SlotReached, Moves, ApiInv
  <1>5. ASSUME NEW c \in Calls, GiveUp(c) \/ Answer(c) PROVE ApiInv'
    BY <1>5, EndChanges, MovesKeeps DEF GiveUp, Answer, Moves, ApiInv
  <1>6. ASSUME NEW c \in Calls, Send(c) PROVE ApiInv'
    <2> DEFINE t == IF cache = Unset THEN token ELSE cache
    <2>1. /\ Changes(c, "sent", t, call[c].tries + 1, call[c].end, call[c].since)
          /\ call[c].at = "ready" /\ cache' = t /\ token' = token
      BY <1>6 DEF Send, Changes, ApiInv, ApiTypes, CallFields
    <2>2. t \in Nat /\ t <= token /\ (cache = Unset \/ t = cache)
      BY DEF ApiInv, ApiTypes, Older
    <2>3. call[c].tries = 1 => call[c].since <= t
      BY <2>1, <2>2 DEF ApiInv, ApiTypes, Older, Fresher, Unset
    <2>4. \A d \in Calls : call[d].since <= cache => call[d].since <= t
      BY <2>2 DEF ApiInv, ApiTypes, Older, Unset
    <2>5. \A d \in Calls : cache = Unset => call[d].since <= t
      BY DEF ApiInv, Older
    <2> HIDE DEF t
    <2> QED
      BY <2>1, <2>2, <2>3, <2>4, <2>5
         DEF ApiInv, ApiTypes, Older, Fresher, Changes, CallSteps
  <1>7. ASSUME NEW c \in Calls, Refused(c) PROVE ApiInv'
    <2>1. CASE CanRetry(c) /\ cache' = Unset /\ Set(c, "ready")
      <3>1. Moves(c, "ready", call[c].end) /\ call[c].tries = 1 /\ token' = token
            /\ call[c].at = "sent"
        BY <1>7, <2>1, SetChanges DEF Refused, CanRetry, Moves, ApiInv
      <3> QED
        BY <2>1, <3>1 DEF ApiInv, ApiTypes, Older, Fresher, Moves, Changes, CallSteps, Unset
    <2>2. CASE ~CanRetry(c) /\ End(c, "invalid") /\ UNCHANGED cache
      <3>1. Moves(c, "done", "invalid") /\ call[c].tries # 1 /\ token' = token
        BY <1>7, <2>2, EndChanges DEF Refused, CanRetry, Moves, ApiInv
      <3>2. call[c].since < token
        BY <1>7, <3>1 DEF Refused, ApiInv, ApiTypes, Older, Fresher
      <3> QED
        BY <2>2, <3>1, <3>2 DEF ApiInv, ApiTypes, Older, Fresher, Moves, Changes, CallSteps
    <2> QED
      BY <1>7, <2>1, <2>2 DEF Refused
  <1>8. ASSUME NEW c \in Calls, AddReaction(c) PROVE ApiInv'
    <2>1. CASE End(c, "ok")
      BY <1>8, <2>1, EndChanges, MovesKeeps DEF AddReaction, Moves, ApiInv
    <2>2. CASE call' = [call EXCEPT ![c].at = "ready", ![c].since = token]
      <3>1. Begins(c)
        BY <2>2 DEF Begins, Changes, ApiInv, ApiTypes, CallFields
      <3> QED
        BY <1>8, <3>1, BeginsKeeps DEF AddReaction
    <2> QED
      BY <1>8, <2>1, <2>2 DEF AddReaction
  <1>9. ASSUME NEW c \in Calls, Placed(c) PROVE ApiInv'
    BY <1>9, SetChanges, EndChanges, MovesKeeps DEF Placed, Answered, Moves, ApiInv
  <1>10. ASSUME NEW c \in Calls, Stored(c) \/ Forgotten(c) PROVE ApiInv'
    BY <1>10, EndChanges, MovesKeeps DEF Stored, Forgotten, Moves, ApiInv
  <1>11. ASSUME NEW c \in Calls, RemoveReaction(c) PROVE ApiInv'
    <2>1. CASE End(c, "ok")
      BY <1>11, <2>1, EndChanges, MovesKeeps DEF RemoveReaction, Moves, ApiInv
    <2>2. CASE call' = [call EXCEPT ![c].at = "ready", ![c].since = token,
                                    ![c].id = reactions[Target[c]]]
      <3>1. Begins(c)
        BY <2>2 DEF Begins, Changes, ApiInv, ApiTypes, CallFields
      <3> QED
        BY <1>11, <3>1, BeginsKeeps DEF RemoveReaction
    <2> QED
      BY <1>11, <2>1, <2>2 DEF RemoveReaction
  <1>12. ASSUME NEW c \in Calls, Removed(c) PROVE ApiInv'
    BY <1>12, SetChanges, MovesKeeps DEF Removed, Answered, Moves, ApiInv
  <1>13. CASE UNCHANGED apiVars
    BY <1>13 DEF apiVars, ApiInv, ApiTypes, Older, Fresher
  <1> QED
    BY <1>1, <1>2, <1>3, <1>4, <1>5, <1>6, <1>7, <1>8, <1>9, <1>10, <1>11, <1>12,
       <1>13 DEF ApiNext

\* A call fails for its token only if the server changed it meanwhile, for any
\* number of calls and changes of the token (withFeishuTenantTokenRefreshRetry).
THEOREM ApiRefusals == ApiSpec => []RefusedOnlyIfChanged
  <1>1. ApiInit => ApiInv
    BY DEF ApiInit, ApiInv, ApiTypes, Older, Fresher, Idle, Unset, CallSteps, CallFields
  <1>2. ApiInv => RefusedOnlyIfChanged
    BY DEF ApiInv, ApiTypes, Fresher, RefusedOnlyIfChanged
  <1> QED
    BY <1>1, <1>2, ApiKept, PTL DEF ApiSpec

-----------------------------------------------------------------------------
\* The tool server.

\* The reply of a call of a backend that names its session goes to that session
\* or to none, whatever items and submissions there are.
LEMMA KeyedResolve ==
  ASSUME NEW c, c.turn \in Callers, c.turn \in Keyed, c.key = KeyOf(c.turn)
  PROVE  Resolve(c) \in {SessionOf[c.turn], Rejected}
<1> DEFINE k == SessionOf[c.turn]
           fits == {i \in SameCall(c) : /\ Found(i[1])
                                        /\ c.key # "none" => SessionOf[i[1]] = c.key
                                        /\ i[1] \in Keyed => c.key # "none"}
<1>1. c.key = k /\ k # "none"  BY ToolAssumption DEF KeyOf
<1>2. fits # {} => SessionOf[(CHOOSE i \in fits : TRUE)[1]] = k  BY <1>1
<1>3. Single(FromSession(k)) \in {k, Rejected}
  <2> DEFINE S == FromSession(k)
  <2>1. Cardinality(S) = 1 => S # {}  BY FS_EmptySet
  <2>2. S # {} => SessionOf[CHOOSE t \in S : TRUE] = k  BY DEF FromSession
  <2> QED  BY <2>1, <2>2 DEF Single
<1> QED  BY <1>1, <1>2, <1>3, Zenon DEF Resolve

\* Two things are two.
LEMMA TwoElements ==
  ASSUME NEW x, NEW y, x # y
  PROVE  IsFiniteSet({x} \cup {y}) /\ Cardinality({x} \cup {y}) = 2
<1>1. IsFiniteSet({x}) /\ Cardinality({x}) = 1  BY FS_Singleton
<1>2. y \notin {x}  OBVIOUS
<1> DEFINE S == {x}
<1> HIDE DEF S
<1>3. IsFiniteSet(S \cup {y}) /\ Cardinality(S \cup {y}) = Cardinality(S) + 1
  BY <1>1, <1>2, FS_AddElement DEF S
<1> QED  BY <1>1, <1>3 DEF S

\* So does that of a call whose own item and submission are known: it is among
\* the items that fit, and two of them are refused.
LEMMA KnownResolve ==
  ASSUME ToolTypeOK, NEW c, c.turn \in Callers, c.args \in Args, c.turn \notin Keyed,
         c.key = KeyOf(c.turn), Found(c.turn), <<c.turn, c.args>> \in items
  PROVE  Resolve(c) \in {SessionOf[c.turn], Rejected}
<1> DEFINE mine == <<c.turn, c.args>>
           fits == {i \in SameCall(c) : /\ Found(i[1])
                                        /\ c.key # "none" => SessionOf[i[1]] = c.key
                                        /\ i[1] \in Keyed => c.key # "none"}
           one == CHOOSE i \in fits : TRUE
<1>1. c.key = "none"  BY DEF KeyOf
<1>2. mine \in fits  BY <1>1 DEF SameCall
<1>3. IsFiniteSet(fits)
  <2>1. IsFiniteSet(Callers \X {c.args})  BY ToolAssumption, FS_Singleton, FS_Product
  <2>2. fits \subseteq Callers \X {c.args}  BY DEF SameCall, ToolTypeOK
  <2> QED  BY <2>1, <2>2, FS_Subset
<1>4. one \in fits  BY <1>2
<1>5. CASE Cardinality(fits) > 1  BY <1>5, Zenon DEF Resolve
<1>6. CASE ~(Cardinality(fits) > 1)
  <2>1. one = mine
    <3>1. SUFFICES ASSUME one # mine PROVE FALSE  OBVIOUS
    <3>2. IsFiniteSet({mine}) /\ Cardinality({mine}) = 1  BY FS_Singleton
    <3> HIDE DEF mine, one
    <3>3. IsFiniteSet({mine} \cup {one}) /\ Cardinality({mine} \cup {one}) = 2
      BY <3>1, <3>2, TwoElements
    <3> USE DEF mine, one
    <3>4. {mine} \cup {one} \subseteq fits  BY <1>2, <1>4
    <3>5. Cardinality({mine} \cup {one}) <= Cardinality(fits)  BY <1>3, <3>4, FS_Subset
    <3> QED  BY <1>6, <3>3, <3>5, <1>3, FS_CardinalityType
  <2>2. Resolve(c) = SessionOf[one[1]]  BY <1>2, <1>6, Zenon DEF Resolve
  <2>3. mine[1] = c.turn  OBVIOUS
  <2> HIDE DEF mine, one
  <2> QED  BY <2>1, <2>2, <2>3
<1> QED  BY <1>5, <1>6

\* Every step keeps the types: a call carries the key of its session.
LEMMA ToolTypes ==
  ASSUME ToolTypeOK, ToolNext
  PROVE  ToolTypeOK'
<1> USE ToolAssumption
<1>1. ASSUME NEW t \in Callers, TurnBegins(t) \/ TurnBound(t) \/ TurnFails(t)  PROVE ToolTypeOK'
  BY <1>1 DEF ToolTypeOK, TurnBegins, TurnBound, TurnFails
<1>2. ASSUME NEW t \in Callers, TurnOver(t)  PROVE ToolTypeOK'
  BY <1>2 DEF ToolTypeOK, TurnOver
<1>3. ASSUME NEW t \in Callers, NEW a \in Args, CallTool(t, a)  PROVE ToolTypeOK'
  BY <1>3 DEF ToolTypeOK, CallTool
<1>4. ASSUME NEW i \in unseen, ItemSeen(i)  PROVE ToolTypeOK'
  BY <1>4 DEF ToolTypeOK, ItemSeen
<1>5. ASSUME NEW i \in items, ItemDone(i)  PROVE ToolTypeOK'
  BY <1>5 DEF ToolTypeOK, ItemDone
<1>6. ASSUME NEW c \in calls, HandleToolsCall(c)  PROVE ToolTypeOK'
  BY <1>6 DEF ToolTypeOK, HandleToolsCall
<1> QED  BY <1>1, <1>2, <1>3, <1>4, <1>5, <1>6 DEF ToolNext

\* Every answer goes home.
LEMMA HomeKept ==
  ASSUME ToolTypeOK, CallGoesHome, ToolNext
  PROVE  CallGoesHome'
<1>1. CASE sent' = sent  BY <1>1 DEF CallGoesHome
<1>2. ASSUME NEW c \in calls, HandleToolsCall(c)  PROVE CallGoesHome'
  <2>1. c.turn \in Callers /\ c.args \in Args /\ c.key = KeyOf(c.turn)  BY DEF ToolTypeOK
  <2>2. SUFFICES ASSUME NEW s \in sent', s \notin sent, s.turn \in Keyed \/ s.found
                 PROVE  s.to \in {SessionOf[s.turn], Rejected}
    BY DEF CallGoesHome
  <2> DEFINE known == Found(c.turn) /\ <<c.turn, c.args>> \in items
             to == Resolve(c)
  <2>3. s.turn = c.turn /\ s.to = to /\ s.found = known
    <3>1. sent' = sent \cup {[turn |-> c.turn, to |-> to, found |-> known]}
      BY <1>2, Zenon DEF HandleToolsCall
    <3>2. known \in BOOLEAN
      OBVIOUS
    <3> HIDE DEF known, to
    <3>3. s = [turn |-> c.turn, to |-> to, found |-> known]
      BY <2>2, <3>1
    <3> QED
      BY <3>2, <3>3
  <2>4. CASE c.turn \in Keyed  BY <2>1, <2>3, <2>4, KeyedResolve
  <2>5. CASE c.turn \notin Keyed  BY <2>1, <2>2, <2>3, <2>5, KnownResolve
  <2> QED  BY <2>4, <2>5
<1> QED
  BY <1>1, <1>2 DEF ToolNext, TurnBegins, TurnBound, TurnFails, TurnOver, CallTool,
                    ItemSeen, ItemDone

\* A file a tool call sends goes to the conversation whose turn made the call,
\* or nowhere, for any number of turns, sessions and calls.
THEOREM ToolCallsGoHome == ToolSpec => []CallGoesHome
<1>1. ToolInit => ToolTypeOK /\ CallGoesHome
  BY ToolAssumption DEF ToolInit, ToolTypeOK, CallGoesHome
<1>2. ToolTypeOK /\ CallGoesHome /\ [ToolNext]_toolVars => (ToolTypeOK /\ CallGoesHome)'
  <2>1. CASE ToolNext  BY <2>1, ToolTypes, HomeKept
  <2>2. CASE UNCHANGED toolVars
    BY <2>2 DEF toolVars, ToolTypeOK, CallGoesHome
  <2> QED  BY <2>1, <2>2
<1> QED  BY <1>1, <1>2, PTL DEF ToolSpec

-----------------------------------------------------------------------------
\* Local files on the drive.

FileSteps == {"idle", "claim", "link", "lock", "root", "newroot", "folder", "upload",
              "grant", "finish", "done", "lost"}
Node == [kind : {"folder", "file"}, parent : Nat, at : Nat, path : Int,
         for : SUBSET ToSet(Viewers)]
Links == [label : STRING \cup {0, "path"}, to : Nat, at : Nat]
Memos == UNION {[D -> Links] : D \in SUBSET Int}

FilesTyped ==
  /\ today \in Nat /\ tokens \in Nat
  /\ DOMAIN nodes \subseteq 1 .. tokens /\ nodes \in [DOMAIN nodes -> Node]
  /\ root \in [Stores -> 0 .. tokens]
  /\ stage \in [Jobs -> FileSteps] /\ at \in [Jobs -> Nat]
  /\ work \in [Jobs -> [folder : 0 .. tokens, file : 0 .. tokens, left : Seq(STRING)]]
  /\ memo \in [Jobs -> Memos] /\ out \in [Jobs -> Seq(Links)]

\* Folders of the drive's root hold the artifacts' folders, and these the files.
Tree ==
  /\ \A t \in DOMAIN nodes : nodes[t].parent <= tokens
  /\ \A t \in DOMAIN nodes : nodes[t].kind = "file" =>
       nodes[t].parent \in DOMAIN nodes /\ nodes[nodes[t].parent].kind = "folder"
  /\ \A t \in DOMAIN nodes : nodes[t].kind = "folder" /\ nodes[t].parent \in DOMAIN nodes =>
       nodes[nodes[t].parent].parent = 0
  /\ \A s \in Stores : root[s] \in DOMAIN nodes => root[s] \in Roots

\* An upload works on its own folder and on the file its link names.
MakingOf(j) ==
  /\ stage[j] = "upload" /\ work[j].folder \in DOMAIN nodes =>
       nodes[work[j].folder].kind = "folder"
  /\ stage[j] = "grant" /\ work[j].file \in DOMAIN nodes =>
       LET file == nodes[work[j].file]
       IN  /\ file.kind = "file" /\ file.path = Link(j).target
           /\ file.parent = work[j].folder
           /\ file.for \cup ToSet(work[j].left) = ToSet(Viewers)
  /\ stage[j] = "grant" => ToSet(work[j].left) \subseteq ToSet(Viewers)
Making == \A j \in Jobs : MakingOf(j)

\* The result of a job has one link for each link of its text that is settled.
OnALink == {"link", "lock", "root", "newroot", "folder", "upload", "grant"}
ProgressOf(j) ==
  /\ stage[j] \in {"idle", "claim"} => out[j] = <<>> /\ at[j] = 1
  /\ stage[j] \in OnALink => at[j] \in 1 .. Len(TextOf[j]) /\ Len(out[j]) = at[j] - 1
  /\ stage[j] = "finish" => at[j] = Len(TextOf[j])
  /\ Len(out[j]) <= Len(TextOf[j])
Progress == \A j \in Jobs : ProgressOf(j)

\* The link leads to the file, or the file is gone with good reason.
Good(link, target) ==
  /\ link.to \in 0 .. tokens
  /\ link.to # 0 /\ link.to \notin gone =>
       \/ /\ link.to \in DOMAIN nodes /\ nodes[link.to].kind = "file"
          /\ nodes[link.to].path = target /\ nodes[link.to].for = ToSet(Viewers)
          /\ nodes[nodes[link.to].parent].at = link.at
       \/ link.to \notin DOMAIN nodes /\ link.at < today - Retention

LinkedOf(j) ==
  /\ \A n \in DOMAIN out[j] : Good(out[j][n], TextOf[j][n].target)
  /\ \A t \in DOMAIN memo[j] : Good(memo[j][t], t)
Linked == \A j \in Jobs : LinkedOf(j)

FilesInv == FilesTyped /\ Tree /\ Making /\ Progress /\ Linked

Plain == nodes' = nodes /\ tokens' = tokens /\ gone' = gone /\ today' = today

\* What a step leaves of the drive: tokens are not reused, nodes keep what they are, and
\* what is removed was either removed by somebody or is too old.
NodesKept ==
  /\ tokens' \in Nat /\ tokens <= tokens' /\ today' \in Nat /\ today <= today'
  /\ gone \subseteq gone'
  /\ DOMAIN nodes' \subseteq 1 .. tokens' /\ nodes' \in [DOMAIN nodes' -> Node]
  /\ \A t \in DOMAIN nodes' : t \in DOMAIN nodes \/ t > tokens
  /\ \A t \in DOMAIN nodes' \cap DOMAIN nodes :
       /\ nodes'[t].kind = nodes[t].kind /\ nodes'[t].parent = nodes[t].parent
       /\ nodes'[t].at = nodes[t].at /\ nodes'[t].path = nodes[t].path
       /\ nodes[t].for \subseteq nodes'[t].for
  /\ \A t \in DOMAIN nodes \ DOMAIN nodes' :
       \/ t \in gone'
       \/ nodes[t].kind = "file" => nodes[nodes[t].parent].at < today - Retention

\* The steps that leave the drive alone, and the others.
LEMMA PlainSteps ==
  ASSUME FilesNext
  PROVE  \/ Plain
         \/ DayPasses
         \/ \E j \in Jobs : CreateRoot(j) \/ CreateFolder(j) \/ UploadFile(j) \/ Grant(j)
         \/ RunDriveArtifactGC
         \/ \E t \in DOMAIN nodes : RemovedOutside(t)
<1>1. ASSUME NEW j \in Downloads, OpenDownload(j) \/ Confirm(j) \/ CancelDownload(j)
      PROVE  Plain
  BY <1>1 DEF Plain, OpenDownload, Confirm, CancelDownload
<1>2. ASSUME NEW j \in Jobs,
             Claim(j) \/ ScheduleLinks(j) \/ NextLink(j) \/ TakeStore(j) \/ EnsureRoot(j)
      PROVE  Plain
  BY <1>2 DEF Plain, Claim, ScheduleLinks, NextLink, TakeStore, EnsureRoot
<1>3. ASSUME NEW j \in Jobs, Uploaded(j) \/ UploadFails(j) \/ Finish(j)
      PROVE  Plain
  BY <1>3 DEF Plain, Uploaded, UploadFails, Finish
<1>4. CASE Restart
  BY <1>4 DEF Plain, Restart
<1> QED
  BY <1>1, <1>2, <1>3, <1>4 DEF FilesNext

\* A new node leaves the others.
LEMMA AddKept ==
  ASSUME FilesTyped, NEW n \in Node, tokens' = tokens + 1, nodes' = Add(tokens', n),
         today' = today, gone' = gone
  PROVE  NodesKept /\ DOMAIN nodes' = DOMAIN nodes \cup {tokens'} /\ nodes'[tokens'] = n
         /\ \A t \in DOMAIN nodes : nodes'[t] = nodes[t]
<1>1. tokens \in Nat /\ today \in Nat /\ tokens' \in Nat /\ tokens' > tokens
      /\ DOMAIN nodes \subseteq 1 .. tokens
  BY DEF FilesTyped
<1>2. DOMAIN nodes' = DOMAIN nodes \cup {tokens'}
  BY DEF Add
<1>3. \A t \in DOMAIN nodes' : nodes'[t] = IF t = tokens' THEN n ELSE nodes[t]
  BY DEF Add
<1>4. nodes' = [t \in DOMAIN nodes' |-> nodes'[t]]
  BY DEF Add
<1>5. tokens' \notin DOMAIN nodes
  BY <1>1
<1>6. \A t \in DOMAIN nodes : nodes'[t] = nodes[t]
  BY <1>2, <1>3, <1>5
<1>7. \A t \in DOMAIN nodes' : nodes'[t] \in Node
  BY <1>2, <1>3 DEF FilesTyped
<1>8. nodes' \in [DOMAIN nodes' -> Node]
  BY <1>4, <1>7
<1>9. DOMAIN nodes' \subseteq 1 .. tokens'
  BY <1>1, <1>2
<1>10. \A t \in DOMAIN nodes' : t \in DOMAIN nodes \/ t > tokens
  BY <1>1, <1>2
<1> QED
  BY <1>1, <1>2, <1>3, <1>6, <1>8, <1>9, <1>10 DEF NodesKept

\* Nodes are removed for good reason.
LEMMA MinusKept ==
  ASSUME FilesTyped, NEW ts, nodes' = Minus(ts), tokens' = tokens, today' = today,
         gone \subseteq gone',
         \A t \in ts \cap DOMAIN nodes :
           \/ t \in gone'
           \/ nodes[t].kind = "file" => nodes[nodes[t].parent].at < today - Retention
  PROVE  NodesKept /\ DOMAIN nodes' = DOMAIN nodes \ ts
         /\ \A t \in DOMAIN nodes' : nodes'[t] = nodes[t]
<1>1. tokens \in Nat /\ today \in Nat /\ DOMAIN nodes \subseteq 1 .. tokens
  BY DEF FilesTyped
<1>2. DOMAIN nodes' = DOMAIN nodes \ ts /\ nodes' = [t \in DOMAIN nodes' |-> nodes'[t]]
  BY DEF Minus
<1>3. \A t \in DOMAIN nodes' : nodes'[t] = nodes[t]
  BY DEF Minus
<1>4. nodes' \in [DOMAIN nodes' -> Node]
  BY <1>2, <1>3 DEF FilesTyped
<1> QED
  BY <1>1, <1>2, <1>3, <1>4 DEF NodesKept

\* A grant adds one viewer to one file.
LEMMA GrantKept ==
  ASSUME FilesTyped, Making, NEW j \in Jobs, Grant(j)
  PROVE  /\ NodesKept
         /\ DOMAIN nodes' = DOMAIN nodes /\ work[j].file \in DOMAIN nodes
         /\ \A t \in DOMAIN nodes \ {work[j].file} : nodes'[t] = nodes[t]
         /\ nodes'[work[j].file].for = nodes[work[j].file].for \cup {Head(work[j].left)}
         /\ Head(work[j].left) \in ToSet(Viewers)
<1> DEFINE f == work[j].file
           v == Head(work[j].left)
<1>1. /\ tokens \in Nat /\ today \in Nat /\ f \in DOMAIN nodes /\ nodes[f] \in Node
      /\ work[j].left \in Seq(STRING) /\ work[j].left # <<>>
  BY DEF FilesTyped, Grant
<1>2. v \in ToSet(Viewers)
  <2>1. stage[j] = "grant" /\ ToSet(work[j].left) \subseteq ToSet(Viewers)
    BY DEF Making, MakingOf, Grant
  <2>2. v = work[j].left[1] /\ 1 \in DOMAIN work[j].left
    BY <1>1
  <2>3. v \in ToSet(work[j].left)
    BY <2>2 DEF ToSet
  <2> QED
    BY <2>1, <2>3
<1>3. [nodes[f] EXCEPT !.for = nodes[f].for \cup {v}] \in Node
  <2>1. nodes[f].for \cup {v} \in SUBSET ToSet(Viewers)
    BY <1>1, <1>2 DEF Node
  <2> HIDE DEF v
  <2> QED
    BY <1>1, <2>1 DEF Node
<1>4. nodes' = [nodes EXCEPT ![f] = [nodes[f] EXCEPT !.for = nodes[f].for \cup {v}]]
  BY DEF Grant
<1>5. /\ nodes' \in [DOMAIN nodes' -> Node] /\ DOMAIN nodes' = DOMAIN nodes
      /\ \A t \in DOMAIN nodes \ {f} : nodes'[t] = nodes[t]
      /\ nodes'[f] = [nodes[f] EXCEPT !.for = nodes[f].for \cup {v}]
  <2> HIDE DEF f, v
  <2> QED
    BY <1>1, <1>3, <1>4 DEF FilesTyped
<1>6. /\ nodes'[f].kind = nodes[f].kind /\ nodes'[f].parent = nodes[f].parent
      /\ nodes'[f].at = nodes[f].at /\ nodes'[f].path = nodes[f].path
      /\ nodes'[f].for = nodes[f].for \cup {v}
  <2> HIDE DEF f, v
  <2> QED
    BY <1>1, <1>5 DEF Node
<1>7. tokens' = tokens /\ today' = today /\ gone' = gone
  BY DEF Grant
<1> HIDE DEF v, f
<1>8. NodesKept
  <2>1. \A t \in DOMAIN nodes' \cap DOMAIN nodes :
          /\ nodes'[t].kind = nodes[t].kind /\ nodes'[t].parent = nodes[t].parent
          /\ nodes'[t].at = nodes[t].at /\ nodes'[t].path = nodes[t].path
          /\ nodes[t].for \subseteq nodes'[t].for
    BY <1>5, <1>6
  <2>2. DOMAIN nodes' \subseteq 1 .. tokens'
    BY <1>5, <1>7 DEF FilesTyped
  <2> QED
    BY <1>1, <1>5, <1>7, <2>1, <2>2 DEF NodesKept
<1> QED
  BY <1>1, <1>2, <1>5, <1>6, <1>8 DEF v, f

\* A folder is a node.
LEMMA FolderNodes ==
  ASSUME today \in Nat, NEW p \in Nat
  PROVE  /\ [FolderNode EXCEPT !.at = today] \in Node
         /\ [FolderNode EXCEPT !.at = today].kind = "folder"
         /\ [FolderNode EXCEPT !.at = today].parent = 0
         /\ [FolderNode EXCEPT !.at = today, !.parent = p] \in Node
         /\ [FolderNode EXCEPT !.at = today, !.parent = p].kind = "folder"
         /\ [FolderNode EXCEPT !.at = today, !.parent = p].parent = p
<1>1. /\ FolderNode \in Node /\ FolderNode.kind = "folder" /\ FolderNode.parent = 0
      /\ {} \in SUBSET ToSet(Viewers)
  BY DEF FolderNode, Node
<1> DEFINE f == FolderNode
<1> HIDE DEF f
<1>2. \A g \in Node : g.kind = "folder" /\ g.parent = 0 =>
        /\ [g EXCEPT !.at = today] \in Node
        /\ [g EXCEPT !.at = today].kind = "folder" /\ [g EXCEPT !.at = today].parent = 0
        /\ [g EXCEPT !.at = today, !.parent = p] \in Node
        /\ [g EXCEPT !.at = today, !.parent = p].kind = "folder"
        /\ [g EXCEPT !.at = today, !.parent = p].parent = p
  BY DEF Node
<1> QED
  BY <1>1, <1>2

NewFile(j) == [kind |-> "file", parent |-> work[j].folder, at |-> today,
               path |-> Link(j).target, for |-> {}]

\* The links of a text are links.
LEMMA TargetTyped ==
  ASSUME NEW j \in Jobs, NEW n \in 1 .. Len(TextOf[j])
  PROVE  TextOf[j][n].target \in Int /\ TextOf[j][n].label \in STRING
<1> DEFINE R == [label : STRING, target : Int]
<1>1. TextOf[j] \in Seq(R)
  BY FilesAssumption
<1>2. TextOf[j][n] \in R
  <2> HIDE DEF R
  <2> QED
    BY <1>1, ElementOfSeq
<1> QED
  BY <1>2

\* So is an uploaded file, which lies in the folder made for it.
LEMMA FileNode ==
  ASSUME FilesTyped, Progress, NEW j \in Jobs, stage[j] = "upload"
  PROVE  NewFile(j) \in Node /\ NewFile(j).kind = "file"
         /\ NewFile(j).parent = work[j].folder /\ NewFile(j).path = Link(j).target
         /\ NewFile(j).for = {}
<1>1. Link(j).target \in Int
  BY TargetTyped DEF Progress, ProgressOf, OnALink, Link
<1>2. work[j].folder \in Nat /\ today \in Nat
  BY DEF FilesTyped
<1> QED
  BY <1>1, <1>2 DEF NewFile, Node

\* Every step leaves of the drive what it must.
LEMMA DriveKept ==
  ASSUME FilesInv, FilesNext
  PROVE  NodesKept
<1> USE DEF FilesInv
<1>t. today \in Nat /\ tokens \in Nat /\ \A s \in Stores : root[s] \in Nat
  BY DEF FilesTyped
<1>1. CASE Plain
  BY <1>1 DEF Plain, NodesKept, FilesTyped
<1>2. CASE DayPasses
  BY <1>2 DEF DayPasses, NodesKept, FilesTyped
<1>3. ASSUME NEW j \in Jobs, CreateRoot(j) \/ CreateFolder(j) \/ UploadFile(j) PROVE NodesKept
  <2>1. StoreOf(j) \in Stores
    BY DEF StoreOf, Stores
  <2>2. CASE CreateRoot(j)
    BY <1>t, <2>2, AddKept, FolderNodes DEF CreateRoot
  <2>3. CASE CreateFolder(j)
    BY <1>t, <2>1, <2>3, AddKept, FolderNodes DEF CreateFolder
  <2>4. CASE UploadFile(j)
    BY <2>4, AddKept, FileNode DEF UploadFile, NewFile
  <2> QED
    BY <1>3, <2>2, <2>3, <2>4
<1>4. ASSUME NEW j \in Jobs, Grant(j) PROVE NodesKept
  BY <1>4, GrantKept
<1>5. CASE RunDriveArtifactGC
  <2>0. PICK r \in Int : \E old \in SUBSET (IF r = 0 THEN {} ELSE Expired(r)) :
          nodes' = Minus(old \cup {t \in DOMAIN nodes : nodes[t].parent \in old})
    <3>1. Roots \subseteq Int /\ root["files"] \in Int
      BY <1>t DEF FilesTyped, Roots, Stores
    <3> QED
      BY <1>5, <3>1 DEF RunDriveArtifactGC, Newest
  <2>1. PICK old \in SUBSET Expired(r) :
          nodes' = Minus(old \cup {t \in DOMAIN nodes : nodes[t].parent \in old})
    BY <2>0
  <2>2. \A t \in old \cup {u \in DOMAIN nodes : nodes[u].parent \in old} :
          nodes[t].kind = "file" => nodes[nodes[t].parent].at < today - Retention
    BY <2>1 DEF Expired
  <2> QED
    BY <1>5, <2>1, <2>2, MinusKept DEF RunDriveArtifactGC
<1>6. ASSUME NEW t \in DOMAIN nodes, RemovedOutside(t) PROVE NodesKept
  <2>1. PICK all : nodes' = Minus(all) /\ gone' = gone \cup all
    BY <1>6 DEF RemovedOutside
  <2> QED
    BY <1>6, <2>1, MinusKept DEF RemovedOutside
<1> QED
  BY <1>1, <1>2, <1>3, <1>4, <1>5, <1>6, PlainSteps

Extended(f, x, l) == [t \in DOMAIN f \cup {x} |-> IF t = x THEN l ELSE f[t]]
\* What a rewriting remembers with one more target.
LEMMA MemoAdd ==
  ASSUME NEW f \in Memos, NEW x \in Int, NEW l \in Links
  PROVE  /\ Extended(f, x, l) \in Memos
         /\ \A t \in DOMAIN Extended(f, x, l) :
              \/ t = x /\ Extended(f, x, l)[t] = l
              \/ t \in DOMAIN f /\ Extended(f, x, l)[t] = f[t]
<1> DEFINE m == Extended(f, x, l)
<1>1. PICK D \in SUBSET Int : f \in [D -> Links]
  BY DEF Memos
<1>2. D \cup {x} \in SUBSET Int /\ m \in [D \cup {x} -> Links]
  BY <1>1 DEF Extended
<1> HIDE DEF m
<1>3. m \in Memos
  BY <1>2 DEF Memos
<1> QED
  BY <1>1, <1>3 DEF m, Extended

\* A result and what a rewriting remembers after a link is settled.
LEMMA SettleTyped ==
  ASSUME FilesTyped, NEW j \in Jobs, at[j] \in 1 .. Len(TextOf[j]), NEW l \in Links,
         NEW b \in BOOLEAN, Settle(j, l, b)
  PROVE  /\ out' \in [Jobs -> Seq(Links)] /\ memo' \in [Jobs -> Memos]
         /\ stage' \in [Jobs -> FileSteps] /\ at' \in [Jobs -> Nat]
         /\ out'[j] = Append(out[j], l) /\ \A i \in Jobs \ {j} : out'[i] = out[i]
         /\ \A t \in DOMAIN memo'[j] :
              (t \in DOMAIN memo[j] /\ memo'[j][t] = memo[j][t])
                \/ (b /\ t = Link(j).target /\ memo'[j][t] = l)
         /\ \A i \in Jobs \ {j} : memo'[i] = memo[i] /\ stage'[i] = stage[i] /\ at'[i] = at[i]
         /\ \/ at[j] = Len(TextOf[j]) /\ stage'[j] = "finish" /\ at'[j] = at[j]
            \/ at[j] < Len(TextOf[j]) /\ stage'[j] = "link" /\ at'[j] = at[j] + 1
<1>1. Append(out[j], l) \in Seq(Links)
  BY AppendProperties DEF FilesTyped
<1>2. out' = [out EXCEPT ![j] = Append(out[j], l)]
  BY DEF Settle
<1>3. /\ out' \in [Jobs -> Seq(Links)] /\ out'[j] = Append(out[j], l)
      /\ \A i \in Jobs \ {j} : out'[i] = out[i]
  BY <1>1, <1>2 DEF FilesTyped
<1>4. Link(j).target \in Int
  BY TargetTyped DEF Link
<1> DEFINE x == Link(j).target
<1>5. memo \in [Jobs -> Memos] /\ memo[j] \in Memos
  BY DEF FilesTyped
<1>9. /\ memo' \in [Jobs -> Memos]
      /\ \A t \in DOMAIN memo'[j] :
           (t \in DOMAIN memo[j] /\ memo'[j][t] = memo[j][t]) \/ (b /\ t = x /\ memo'[j][t] = l)
      /\ \A i \in Jobs \ {j} : memo'[i] = memo[i]
  <2> HIDE DEF x
  <2> DEFINE m == Extended(memo[j], x, l)
  <2>2. /\ m \in Memos
        /\ \A t \in DOMAIN m : \/ t = x /\ m[t] = l
                               \/ t \in DOMAIN memo[j] /\ m[t] = memo[j][t]
    BY <1>4, <1>5, MemoAdd DEF x
  <2>3. CASE b
    <3>1. memo' = [memo EXCEPT ![j] = m]
      BY <2>3 DEF Settle, x, Extended
    <3> HIDE DEF m
    <3>2. memo'[j] = m /\ memo' \in [Jobs -> Memos] /\ \A i \in Jobs \ {j} : memo'[i] = memo[i]
      BY <1>5, <2>2, <3>1
    <3> QED
      BY <2>2, <2>3, <3>2
  <2>4. CASE ~b
    BY <1>5, <2>4 DEF Settle
  <2> QED
    BY <2>3, <2>4
<1>10. stage \in [Jobs -> FileSteps] /\ at \in [Jobs -> Nat] /\ Len(TextOf[j]) \in Nat
  BY FilesAssumption DEF FilesTyped
<1>11. /\ stage' = [stage EXCEPT ![j] = IF at[j] = Len(TextOf[j]) THEN "finish" ELSE "link"]
       /\ at' = [at EXCEPT ![j] = IF at[j] = Len(TextOf[j]) THEN at[j] ELSE at[j] + 1]
  BY DEF Settle
<1>12. /\ stage' \in [Jobs -> FileSteps] /\ at' \in [Jobs -> Nat]
       /\ \A i \in Jobs \ {j} : stage'[i] = stage[i] /\ at'[i] = at[i]
       /\ \/ at[j] = Len(TextOf[j]) /\ stage'[j] = "finish" /\ at'[j] = at[j]
          \/ at[j] < Len(TextOf[j]) /\ stage'[j] = "link" /\ at'[j] = at[j] + 1
  BY <1>10, <1>11 DEF FileSteps
<1> QED
  BY <1>3, <1>9, <1>12

\* Folders and files stay where they are.
LEMMA TreeAdded ==
  ASSUME FilesTyped, Tree, NEW n \in Node, tokens' = tokens + 1, nodes' = Add(tokens', n),
         today' = today, gone' = gone,
         n.kind = "file" => n.parent \in DOMAIN nodes /\ nodes[n.parent].kind = "folder",
         n.kind = "folder" /\ n.parent \in DOMAIN nodes => nodes[n.parent].parent = 0,
         n.parent <= tokens,
         \A s \in Stores :
           root'[s] = root[s] \/ (root'[s] = tokens' /\ n.kind = "folder" /\ n.parent = 0)
  PROVE  Tree'
<1>1. /\ DOMAIN nodes' = DOMAIN nodes \cup {tokens'} /\ nodes'[tokens'] = n
      /\ \A t \in DOMAIN nodes : nodes'[t] = nodes[t]
  BY AddKept
<1>2. /\ tokens' \notin DOMAIN nodes /\ tokens \in Nat /\ root \in [Stores -> 0 .. tokens]
      /\ \A t \in DOMAIN nodes : nodes[t] \in Node
  BY DEF FilesTyped
<1>3. \A t \in DOMAIN nodes' : nodes'[t].kind = "file" =>
        nodes'[t].parent \in DOMAIN nodes' /\ nodes'[nodes'[t].parent].kind = "folder"
  BY <1>1 DEF Tree
<1>4. \A t \in DOMAIN nodes' : nodes'[t].kind = "folder" /\ nodes'[t].parent \in DOMAIN nodes' =>
        nodes'[nodes'[t].parent].parent = 0
  <2> SUFFICES ASSUME NEW t \in DOMAIN nodes', nodes'[t].kind = "folder",
                      nodes'[t].parent \in DOMAIN nodes'
               PROVE  nodes'[nodes'[t].parent].parent = 0
    OBVIOUS
  <2>1. CASE t = tokens'
    BY <1>1, <1>2, <2>1 DEF Node
  <2>2. CASE t \in DOMAIN nodes /\ nodes[t].parent \in DOMAIN nodes
    BY <1>1, <2>2 DEF Tree
  <2>3. CASE t \in DOMAIN nodes /\ nodes[t].parent = tokens'
    BY <1>2, <2>3 DEF Tree
  <2> QED
    BY <1>1, <2>1, <2>2, <2>3
<1>5. \A s \in Stores : root'[s] \in DOMAIN nodes' => root'[s] \in Roots'
  BY <1>1, <1>2 DEF Tree, Roots
<1>6. \A t \in DOMAIN nodes' : nodes'[t].parent <= tokens'
  BY <1>1, <1>2 DEF Tree, Node
<1> QED
  BY <1>3, <1>4, <1>5, <1>6 DEF Tree

\* So they do when all that is in a removed folder is removed.
LEMMA TreeLess ==
  ASSUME FilesTyped, Tree, NEW ts, nodes' = Minus(ts), tokens' = tokens, today' = today,
         \A t \in DOMAIN nodes \ ts : nodes[t].kind = "file" => nodes[t].parent \notin ts,
         \A s \in Stores : root'[s] = root[s] \/ root'[s] \in Roots \/ root'[s] = 0
  PROVE  Tree'
<1>1. /\ DOMAIN nodes' = DOMAIN nodes \ ts
      /\ \A t \in DOMAIN nodes' : nodes'[t] = nodes[t]
  BY DEF Minus
<1>2. 0 \notin DOMAIN nodes
  BY DEF FilesTyped
<1> QED
  BY <1>1, <1>2 DEF Tree, Roots

\* The folders and files below a folder of the drive's root.
LEMMA AllBelow ==
  ASSUME FilesTyped, Tree, NEW r \in Roots
  PROVE  LET below == {r} \cup {x \in DOMAIN nodes : nodes[x].parent = r}
             all == below \cup {x \in DOMAIN nodes : nodes[x].parent \in below}
         IN  \A t \in DOMAIN nodes \ all : nodes[t].kind = "file" => nodes[t].parent \notin all
<1> DEFINE below == {r} \cup {x \in DOMAIN nodes : nodes[x].parent = r}
           all == below \cup {x \in DOMAIN nodes : nodes[x].parent \in below}
<1> SUFFICES ASSUME NEW t \in DOMAIN nodes \ all, nodes[t].kind = "file",
                    nodes[t].parent \in all
             PROVE  FALSE
  OBVIOUS
<1>1. r \in DOMAIN nodes /\ r # 0
  BY DEF Roots, FilesTyped
<1>2. nodes[t].parent \in DOMAIN nodes /\ nodes[nodes[t].parent].kind = "folder"
  BY DEF Tree
<1>3. nodes[t].parent \notin below
  OBVIOUS
<1>4. nodes[nodes[t].parent].parent \in below
  BY <1>3
<1>5. PICK q : q = nodes[nodes[t].parent].parent
  OBVIOUS
<1>6. q # r
  BY <1>3, <1>2, <1>5
<1>7. q \in DOMAIN nodes /\ nodes[q].parent = r
  BY <1>4, <1>5, <1>6
<1>8. nodes[q].parent = 0
  BY <1>2, <1>5, <1>7 DEF Tree
<1> QED
  BY <1>1, <1>7, <1>8

\* Every step leaves folders and files where they are.
LEMMA TreeKept ==
  ASSUME FilesInv, FilesNext
  PROVE  Tree'
<1> USE DEF FilesInv
<1>t. /\ today \in Nat /\ tokens \in Nat /\ root \in [Stores -> 0 .. tokens]
      /\ \A t \in DOMAIN nodes : nodes[t] \in Node
  BY DEF FilesTyped
<1>0. ASSUME NEW n \in Jobs PROVE StoreOf(n) \in Stores
  BY DEF StoreOf, Stores
<1>1. CASE Plain /\ \A s \in Stores : root'[s] = root[s] \/ root'[s] \in Roots \/ root'[s] = 0
  <2>1. 0 \notin DOMAIN nodes
    BY DEF FilesTyped
  <2> QED
    BY <1>1, <2>1 DEF Plain, Tree, Roots
<1>2. ASSUME NEW j \in Downloads, OpenDownload(j) \/ Confirm(j) \/ CancelDownload(j)
      PROVE  Tree'
  BY <1>1, <1>2 DEF Plain, OpenDownload, Confirm, CancelDownload
<1>3. ASSUME NEW j \in Jobs, Claim(j) \/ ScheduleLinks(j) \/ NextLink(j) \/ TakeStore(j)
      PROVE  Tree'
  BY <1>1, <1>3 DEF Plain, Claim, ScheduleLinks, NextLink, TakeStore
<1>4. ASSUME NEW j \in Jobs, EnsureRoot(j)
      PROVE  Tree'
  <2>1. \A s \in Stores : root'[s] = root[s] \/ root'[s] \in Roots
    BY <1>t, <1>4 DEF EnsureRoot, Newest
  <2> QED
    BY <1>1, <1>4, <2>1 DEF Plain, EnsureRoot
<1>5. ASSUME NEW j \in Jobs, Uploaded(j) \/ UploadFails(j) \/ Finish(j)
      PROVE  Tree'
  BY <1>1, <1>5 DEF Plain, Uploaded, UploadFails, Finish
<1>6. CASE Restart
  BY <1>1, <1>6 DEF Plain, Restart
<1>7. CASE DayPasses
  BY <1>7 DEF DayPasses, Tree, Roots
<1>8. ASSUME NEW j \in Jobs, CreateRoot(j) PROVE Tree'
  <2> DEFINE n == [FolderNode EXCEPT !.at = today]
  <2>1. n \in Node /\ n.kind = "folder" /\ n.parent = 0
    BY <1>t, FolderNodes
  <2>2. \A s \in Stores : root'[s] = root[s] \/ root'[s] = tokens'
    BY <1>t, <1>8 DEF CreateRoot
  <2>3. /\ tokens' = tokens + 1 /\ nodes' = Add(tokens', n)
        /\ today' = today /\ gone' = gone
    BY <1>8 DEF CreateRoot
  <2>4. 0 <= tokens /\ 0 \notin DOMAIN nodes
    BY DEF FilesTyped
  <2> HIDE DEF n
  <2> QED
    BY <2>1, <2>2, <2>3, <2>4, TreeAdded
<1>9. ASSUME NEW j \in Jobs, CreateFolder(j) PROVE Tree'
  <2>1. PICK r : r = root[StoreOf(j)]
    OBVIOUS
  <2>2. r \in Nat /\ r <= tokens /\ r \in DOMAIN nodes /\ nodes[r].parent = 0
    BY <1>t, <1>0, <1>9, <2>1 DEF CreateFolder, Tree, Roots
  <2> QED
    BY <1>t, <1>9, <2>1, <2>2, TreeAdded, FolderNodes DEF CreateFolder
<1>10. ASSUME NEW j \in Jobs, UploadFile(j) PROVE Tree'
  <2>1. work[j].folder \in DOMAIN nodes /\ nodes[work[j].folder].kind = "folder"
        /\ work[j].folder <= tokens
    BY <1>10 DEF UploadFile, Making, MakingOf, FilesTyped
  <2> QED
    BY <1>t, <1>10, <2>1, FileNode, TreeAdded DEF UploadFile, NewFile
<1>11. ASSUME NEW j \in Jobs, Grant(j) PROVE Tree'
  BY <1>11, GrantKept DEF Grant, NodesKept, Tree, Roots
<1>12. CASE RunDriveArtifactGC
  <2>0. PICK r \in {root["files"]} \cup Roots \cup {0} :
          \E old \in SUBSET (IF r = 0 THEN {} ELSE Expired(r)) :
            /\ root' = [root EXCEPT !["files"] = r]
            /\ nodes' = Minus(old \cup {t \in DOMAIN nodes : nodes[t].parent \in old})
    BY <1>12 DEF RunDriveArtifactGC, Newest
  <2>1. PICK old \in SUBSET (IF r = 0 THEN {} ELSE Expired(r)) :
          /\ root' = [root EXCEPT !["files"] = r]
          /\ nodes' = Minus(old \cup {t \in DOMAIN nodes : nodes[t].parent \in old})
    BY <2>0
  <2> DEFINE ts == old \cup {t \in DOMAIN nodes : nodes[t].parent \in old}
  <2>2. \A t \in DOMAIN nodes \ ts : nodes[t].kind = "file" => nodes[t].parent \notin ts
    <3> SUFFICES ASSUME NEW t \in DOMAIN nodes \ ts, nodes[t].kind = "file",
                        nodes[t].parent \in ts
                 PROVE  FALSE
      OBVIOUS
    <3>1. PICK q : q = nodes[t].parent
      OBVIOUS
    <3>2. q \in DOMAIN nodes /\ nodes[q].kind = "folder"
      BY <3>1 DEF Tree
    <3>3. q \notin old /\ nodes[q].parent \in old
      BY <3>1
    <3>4. r # 0 /\ nodes[q].parent \in DOMAIN nodes /\ nodes[nodes[q].parent].parent = r
      BY <2>1, <3>3 DEF Expired
    <3> QED
      BY <3>2, <3>4 DEF Tree
  <2>3. \A s \in Stores : root'[s] = root[s] \/ root'[s] \in Roots \/ root'[s] = 0
    BY <1>t, <2>1 DEF Stores
  <2> HIDE DEF ts
  <2>4. nodes' = Minus(ts)
    BY <2>1 DEF ts
  <2> QED
    BY <1>12, <2>2, <2>3, <2>4, TreeLess DEF RunDriveArtifactGC
<1>13. ASSUME NEW t \in DOMAIN nodes, RemovedOutside(t) PROVE Tree'
  <2> DEFINE below == {t} \cup {x \in DOMAIN nodes : nodes[x].parent = t}
             all == below \cup {x \in DOMAIN nodes : nodes[x].parent \in below}
  <2>1. t \in Roots /\ nodes' = Minus(all)
    BY <1>13 DEF RemovedOutside
  <2>2. \A u \in DOMAIN nodes \ all : nodes[u].kind = "file" => nodes[u].parent \notin all
    BY <2>1, AllBelow
  <2> HIDE DEF all
  <2> QED
    BY <1>13, <2>1, <2>2, TreeLess DEF RemovedOutside
<1> QED
  BY <1>2, <1>3, <1>4, <1>5, <1>6, <1>7, <1>8, <1>9, <1>10, <1>11, <1>12, <1>13 DEF FilesNext

\* A link is good after the step.
GoodNext(link, target) ==
  /\ link.to \in 0 .. tokens'
  /\ link.to # 0 /\ link.to \notin gone' =>
       \/ /\ link.to \in DOMAIN nodes' /\ nodes'[link.to].kind = "file"
          /\ nodes'[link.to].path = target /\ nodes'[link.to].for = ToSet(Viewers)
          /\ nodes'[nodes'[link.to].parent].at = link.at
       \/ link.to \notin DOMAIN nodes' /\ link.at < today' - Retention

\* A link stays as good as it is.
LEMMA GoodKept ==
  ASSUME FilesTyped, Tree, Tree', NodesKept, NEW l \in Links, NEW p \in Int, Good(l, p)
  PROVE  GoodNext(l, p)
<1>1. /\ tokens \in Nat /\ today \in Nat /\ tokens' \in Nat /\ today' \in Nat
      /\ tokens <= tokens' /\ today <= today' /\ gone \subseteq gone'
      /\ l.to \in Nat /\ l.at \in Nat /\ l.to <= tokens /\ Retention \in Nat
  BY FilesAssumption DEF FilesTyped, NodesKept, Links, Good
<1>2. SUFFICES ASSUME l.to # 0, l.to \notin gone'
               PROVE  \/ /\ l.to \in DOMAIN nodes' /\ nodes'[l.to].kind = "file"
                         /\ nodes'[l.to].path = p /\ nodes'[l.to].for = ToSet(Viewers)
                         /\ nodes'[nodes'[l.to].parent].at = l.at
                      \/ l.to \notin DOMAIN nodes' /\ l.at < today' - Retention
  BY <1>1 DEF GoodNext
<1>3. CASE l.to \notin DOMAIN nodes /\ l.at < today - Retention
  BY <1>1, <1>3 DEF NodesKept
<1>4. CASE /\ l.to \in DOMAIN nodes /\ nodes[l.to].kind = "file"
           /\ nodes[l.to].path = p /\ nodes[l.to].for = ToSet(Viewers)
           /\ nodes[nodes[l.to].parent].at = l.at
  <2>1. PICK q : q = nodes[l.to].parent
    OBVIOUS
  <2>2. CASE l.to \in DOMAIN nodes'
    <3>1. /\ nodes'[l.to].kind = "file" /\ nodes'[l.to].path = p /\ nodes'[l.to].parent = q
          /\ ToSet(Viewers) \subseteq nodes'[l.to].for /\ nodes'[l.to] \in Node
      BY <1>4, <2>1, <2>2 DEF NodesKept
    <3>2. nodes'[l.to].for = ToSet(Viewers)
      BY <3>1 DEF Node
    <3>3. q \in DOMAIN nodes /\ q \in DOMAIN nodes'
      BY <1>4, <2>1, <2>2, <3>1 DEF Tree
    <3>4. nodes'[q].at = l.at
      BY <1>4, <2>1, <3>3 DEF NodesKept
    <3> QED
      BY <2>2, <3>1, <3>2, <3>4
  <2>3. CASE l.to \notin DOMAIN nodes'
    BY <1>1, <1>2, <1>4, <2>3 DEF NodesKept
  <2> QED
    BY <2>2, <2>3
<1> QED
  BY <1>1, <1>2, <1>3, <1>4 DEF Good


Untouched(i) ==
  /\ stage'[i] = stage[i] /\ at'[i] = at[i] /\ work'[i] = work[i]
  /\ out'[i] = out[i] /\ memo'[i] = memo[i]

\* The results of a job stay good as long as they stay.
LEMMA LinksKept ==
  ASSUME FilesInv, Tree', NodesKept, NEW i \in Jobs
  PROVE  /\ \A n \in DOMAIN out[i] : GoodNext(out[i][n], TextOf[i][n].target)
         /\ \A t \in DOMAIN memo[i] : GoodNext(memo[i][t], t)
<1>1. out[i] \in Seq(Links) /\ memo[i] \in Memos /\ Len(out[i]) <= Len(TextOf[i])
      /\ Len(TextOf[i]) \in Nat
  BY FilesAssumption DEF FilesInv, FilesTyped, Progress, ProgressOf
<1>2. ASSUME NEW n \in DOMAIN out[i] PROVE GoodNext(out[i][n], TextOf[i][n].target)
  <2>1. n \in 1 .. Len(TextOf[i])
    BY <1>1
  <2>2. out[i][n] \in Links /\ TextOf[i][n].target \in Int
    BY <1>1, <2>1, TargetTyped
  <2>3. Good(out[i][n], TextOf[i][n].target)
    BY DEF FilesInv, Linked, LinkedOf
  <2> QED
    BY <2>2, <2>3, GoodKept DEF FilesInv
<1>3. ASSUME NEW t \in DOMAIN memo[i] PROVE GoodNext(memo[i][t], t)
  <2>1. memo[i][t] \in Links /\ t \in Int
    BY <1>1 DEF Memos
  <2>2. Good(memo[i][t], t)
    BY DEF FilesInv, Linked, LinkedOf
  <2> QED
    BY <2>1, <2>2, GoodKept DEF FilesInv
<1> QED
  BY <1>2, <1>3

\* An upload goes on with what it made.
LEMMA MakingKept ==
  ASSUME FilesInv, NodesKept, NEW i \in Jobs,
         stage'[i] \in {"upload", "grant"} =>
           stage'[i] = stage[i] /\ at'[i] = at[i] /\ work'[i] = work[i]
  PROVE  MakingOf(i)'
<1>1. /\ work[i].folder \in Nat /\ work[i].file \in Nat /\ tokens \in Nat
      /\ work[i].folder <= tokens /\ work[i].file <= tokens
  BY DEF FilesInv, FilesTyped
<1>2. CASE stage'[i] \notin {"upload", "grant"}
  BY <1>2 DEF MakingOf
<1>3. CASE stage'[i] = "upload"
  BY <1>1, <1>3 DEF MakingOf, FilesInv, Making, NodesKept
<1>4. CASE stage'[i] = "grant"
  <2>1. PICK f, left : f = work[i].file /\ left = work[i].left
    OBVIOUS
  <2>2. ToSet(left) \subseteq ToSet(Viewers)
    BY <1>4, <2>1 DEF FilesInv, Making, MakingOf
  <2>3. ASSUME f \in DOMAIN nodes'
        PROVE  /\ nodes'[f].kind = "file" /\ nodes'[f].path = Link(i).target
               /\ nodes'[f].parent = work[i].folder
               /\ nodes'[f].for \cup ToSet(left) = ToSet(Viewers)
    <3>1. f \in DOMAIN nodes
      BY <1>1, <2>1, <2>3 DEF NodesKept
    <3>2. /\ nodes[f].kind = "file" /\ nodes[f].path = Link(i).target
          /\ nodes[f].parent = work[i].folder
          /\ nodes[f].for \cup ToSet(left) = ToSet(Viewers)
      BY <1>4, <2>1, <3>1 DEF FilesInv, Making, MakingOf
    <3>3. nodes'[f] \in Node
      BY <2>3 DEF NodesKept
    <3>4. nodes'[f].for \subseteq ToSet(Viewers)
      BY <3>3 DEF Node
    <3> QED
      BY <2>2, <2>3, <3>1, <3>2, <3>4 DEF NodesKept
  <2>4. Link(i)' = Link(i)
    BY <1>4 DEF Link
  <2> QED
    BY <1>4, <2>1, <2>2, <2>3, <2>4 DEF MakingOf
<1> QED
  BY <1>2, <1>3, <1>4

\* A job that another job's step does not touch keeps its part.
LEMMA UntouchedKept ==
  ASSUME FilesInv, NodesKept, Tree', NEW i \in Jobs, Untouched(i)
  PROVE  MakingOf(i)' /\ ProgressOf(i)' /\ LinkedOf(i)'
<1>1. MakingOf(i)'
  BY MakingKept DEF Untouched
<1>2. ProgressOf(i)'
  BY DEF Untouched, ProgressOf, FilesInv, Progress
<1>3. LinkedOf(i)'
  BY LinksKept DEF Untouched, LinkedOf, Good, GoodNext
<1> QED
  BY <1>1, <1>2, <1>3

\* What a step of job j does to the jobs.
JobStep(j) ==
  /\ stage' \in [Jobs -> FileSteps] /\ at' \in [Jobs -> Nat]
  /\ work' \in [Jobs -> [folder : 0 .. tokens', file : 0 .. tokens', left : Seq(STRING)]]
  /\ memo' \in [Jobs -> Memos] /\ out' \in [Jobs -> Seq(Links)]
  /\ root' \in [Stores -> 0 .. tokens']
  /\ \A i \in Jobs \ {j} : Untouched(i)
  /\ MakingOf(j)' /\ ProgressOf(j)' /\ LinkedOf(j)'

\* A settled link joins the result.
LEMMA SettleKept ==
  ASSUME FilesInv, NodesKept, Tree', NEW j \in Jobs, stage[j] \in OnALink, NEW l \in Links,
         NEW b \in BOOLEAN, Settle(j, l, b), Good(l, Link(j).target),
         work' = work, root' = root
  PROVE  JobStep(j)
<1> USE DEF FilesInv
<1>0. at[j] \in 1 .. Len(TextOf[j]) /\ Len(out[j]) = at[j] - 1
      /\ Len(TextOf[j]) \in Nat /\ at[j] \in Nat /\ out[j] \in Seq(Links)
  BY FilesAssumption DEF Progress, ProgressOf, FilesTyped
<1>1. /\ out' \in [Jobs -> Seq(Links)] /\ memo' \in [Jobs -> Memos]
      /\ stage' \in [Jobs -> FileSteps] /\ at' \in [Jobs -> Nat]
      /\ out'[j] = Append(out[j], l) /\ \A i \in Jobs \ {j} : out'[i] = out[i]
      /\ \A t \in DOMAIN memo'[j] :
           (t \in DOMAIN memo[j] /\ memo'[j][t] = memo[j][t])
             \/ (t = Link(j).target /\ memo'[j][t] = l)
      /\ \A i \in Jobs \ {j} : memo'[i] = memo[i] /\ stage'[i] = stage[i] /\ at'[i] = at[i]
      /\ \/ at[j] = Len(TextOf[j]) /\ stage'[j] = "finish" /\ at'[j] = at[j]
         \/ at[j] < Len(TextOf[j]) /\ stage'[j] = "link" /\ at'[j] = at[j] + 1
  BY <1>0, SettleTyped
<1>2. \A i \in Jobs \ {j} : Untouched(i)
  BY <1>1 DEF Untouched
<1>3. work' \in [Jobs -> [folder : 0 .. tokens', file : 0 .. tokens', left : Seq(STRING)]]
      /\ root' \in [Stores -> 0 .. tokens']
  <2>1. 0 .. tokens \subseteq 0 .. tokens'
    BY DEF NodesKept, FilesTyped
  <2>2. work \in [Jobs -> [folder : 0 .. tokens, file : 0 .. tokens, left : Seq(STRING)]]
        /\ root \in [Stores -> 0 .. tokens]
    BY DEF FilesTyped
  <2> QED
    BY <2>1, <2>2
<1>4. MakingOf(j)'
  BY <1>1, MakingKept
<1>5. Len(out'[j]) = Len(out[j]) + 1 /\ out'[j][Len(out[j]) + 1] = l
      /\ \A n \in 1 .. Len(out[j]) : out'[j][n] = out[j][n]
      /\ DOMAIN out'[j] = 1 .. Len(out[j]) + 1 /\ DOMAIN out[j] = 1 .. Len(out[j])
  BY <1>0, <1>1, AppendProperties
<1>6. ProgressOf(j)'
  BY <1>0, <1>1, <1>5 DEF ProgressOf, OnALink
<1>7. Link(j) = TextOf[j][at[j]] /\ Link(j).target \in Int
  BY <1>0, TargetTyped DEF Link
<1>8. GoodNext(l, Link(j).target)
  BY <1>7, GoodKept
<1>9. \A n \in DOMAIN out'[j] : GoodNext(out'[j][n], TextOf[j][n].target)
  <2> TAKE n \in DOMAIN out'[j]
  <2>1. CASE n \in DOMAIN out[j]
    <3>1. GoodNext(out[j][n], TextOf[j][n].target)
      BY <2>1, LinksKept
    <3>2. out'[j][n] = out[j][n]
      BY <1>5, <2>1
    <3> QED
      BY <3>1, <3>2
  <2>2. CASE n \notin DOMAIN out[j]
    <3>1. n = at[j]
      BY <1>0, <1>5, <2>2
    <3>2. out'[j][n] = l
      BY <1>0, <1>5, <3>1
    <3> QED
      BY <1>7, <1>8, <3>1, <3>2
  <2> QED
    BY <2>1, <2>2
<1>10. \A t \in DOMAIN memo'[j] : GoodNext(memo'[j][t], t)
  BY <1>1, <1>8, LinksKept
<1>11. LinkedOf(j)'
  BY <1>9, <1>10 DEF LinkedOf, Good, GoodNext
<1> QED
  BY <1>1, <1>2, <1>3, <1>4, <1>6, <1>11 DEF JobStep


\* A step that leaves the results.
LEMMA StepKept ==
  ASSUME FilesInv, NodesKept, Tree', NEW j \in Jobs, memo' = memo, out' = out, at' = at,
         work' \in [Jobs -> [folder : 0 .. tokens', file : 0 .. tokens', left : Seq(STRING)]],
         root' \in [Stores -> 0 .. tokens'], NEW s \in FileSteps,
         stage' = [stage EXCEPT ![j] = s],
         \A i \in Jobs \ {j} : work'[i] = work[i], MakingOf(j)',
         s \in OnALink => 
           stage[j] \in OnALink \/ (stage[j] \in {"idle", "claim"} /\ TextOf[j] # <<>>),
         s \in {"idle", "claim"} => stage[j] \in {"idle", "claim"},
         s # "finish"
  PROVE  JobStep(j)
<1> USE DEF FilesInv
<1>1. /\ stage' \in [Jobs -> FileSteps] /\ stage'[j] = s
      /\ \A i \in Jobs \ {j} : stage'[i] = stage[i]
  BY DEF FilesTyped
<1>2. at' \in [Jobs -> Nat] /\ memo' \in [Jobs -> Memos] /\ out' \in [Jobs -> Seq(Links)]
  BY DEF FilesTyped
<1>3. \A i \in Jobs \ {j} : Untouched(i)
  BY <1>1 DEF Untouched
<1>4. LinkedOf(j)'
  BY LinksKept DEF LinkedOf, Good, GoodNext
<1>5. ProgressOf(j)'
  <2>1. ProgressOf(j) /\ Len(TextOf[j]) \in Nat /\ (TextOf[j] # <<>> => Len(TextOf[j]) >= 1)
    BY FilesAssumption DEF Progress
  <2>2. CASE s \in OnALink
    BY <1>1, <2>1, <2>2 DEF ProgressOf, OnALink
  <2>3. CASE s \notin OnALink
    BY <1>1, <2>1, <2>3 DEF ProgressOf
  <2> QED
    BY <2>2, <2>3
<1> QED
  BY <1>1, <1>2, <1>3, <1>4, <1>5 DEF JobStep

\* The typing of what most steps leave.
LEMMA LeftTyped ==
  ASSUME FilesTyped, NodesKept
  PROVE  /\ work \in [Jobs -> [folder : 0 .. tokens', file : 0 .. tokens', left : Seq(STRING)]]
         /\ root \in [Stores -> 0 .. tokens']
<1>1. 0 .. tokens \subseteq 0 .. tokens'
  BY DEF NodesKept, FilesTyped
<1> QED
  BY <1>1 DEF FilesTyped

\* The steps that move a job without a link or a node.
LEMMA UserSteps ==
  ASSUME FilesInv, NodesKept, Tree', NEW j \in Jobs,
         \/ j \in Downloads /\ (OpenDownload(j) \/ Confirm(j) \/ CancelDownload(j))
         \/ Claim(j) \/ ScheduleLinks(j) \/ TakeStore(j) \/ EnsureRoot(j)
         \/ /\ NextLink(j) /\ stage' = [stage EXCEPT ![j] = "lock"]
            /\ memo' = memo /\ out' = out /\ at' = at
  PROVE  JobStep(j)
<1>1. TextOf[j] # <<>>
  BY FilesAssumption
<1>r. /\ root \in [Stores -> 0 .. tokens'] /\ stage \in [Jobs -> FileSteps]
      /\ \A x \in Nat : x <= tokens => x <= tokens'
  BY LeftTyped DEF FilesInv, FilesTyped, NodesKept
<1>2. CASE Untouched(j) /\ UNCHANGED <<stage, at, work, out, memo, root>>
  <2>1. MakingOf(j)' /\ ProgressOf(j)' /\ LinkedOf(j)'
    BY <1>2, UntouchedKept
  <2> QED
    BY <1>2, <2>1, LeftTyped DEF FilesInv, FilesTyped, JobStep, Untouched
<1>3. CASE /\ work' = work /\ memo' = memo /\ out' = out /\ at' = at
           /\ root' \in [Stores -> 0 .. tokens']
           /\ \E s \in FileSteps :
                 /\ stage' = [stage EXCEPT ![j] = s]
                 /\ s \in {"claim", "link", "idle", "lock", "root", "folder", "newroot"}
                 /\ s \in OnALink => stage[j] \in OnALink \/ stage[j] \in {"idle", "claim"}
                 /\ s \in {"idle", "claim"} => stage[j] \in {"idle", "claim"}
  <2>1. PICK s \in FileSteps :
                 /\ stage' = [stage EXCEPT ![j] = s]
                 /\ s \in {"claim", "link", "idle", "lock", "root", "folder", "newroot"}
                 /\ s \in OnALink => stage[j] \in OnALink \/ stage[j] \in {"idle", "claim"}
                 /\ s \in {"idle", "claim"} => stage[j] \in {"idle", "claim"}
    BY <1>3
  <2>2. stage'[j] = s
    BY <1>r, <2>1
  <2>a. s \notin {"upload", "grant", "finish"}
    BY <2>1
  <2>3. MakingOf(j)'
    BY <2>2, <2>a, MakingKept
  <2>4. work' \in [Jobs -> [folder : 0 .. tokens', file : 0 .. tokens', left : Seq(STRING)]]
    BY <1>3, LeftTyped DEF FilesInv
  <2> QED
    BY <1>1, <1>3, <2>1, <2>3, <2>4, <2>a, StepKept
<1>4. CASE j \in Downloads /\ (OpenDownload(j) \/ CancelDownload(j))
  BY <1>2, <1>4 DEF OpenDownload, CancelDownload, Untouched
<1>5. CASE j \in Downloads /\ Confirm(j)
  BY <1>2, <1>3, <1>5, <1>r DEF Confirm, Untouched, FileSteps, OnALink
<1>6. CASE Claim(j)
  BY <1>3, <1>6, <1>r DEF Claim, FileSteps, OnALink
<1>7. CASE ScheduleLinks(j)
  BY <1>3, <1>7, <1>r DEF ScheduleLinks, FileSteps, OnALink
<1>8. CASE TakeStore(j)
  BY <1>3, <1>8, <1>r DEF TakeStore, FileSteps, OnALink
<1>9. CASE EnsureRoot(j)
  <2>1. root' \in [Stores -> 0 .. tokens']
    <3>1. StoreOf(j) \in Stores /\ Newest \subseteq DOMAIN nodes
      BY DEF StoreOf, Stores, Newest, Roots
    <3>2. DOMAIN nodes \subseteq 0 .. tokens'
      BY <1>r DEF FilesInv, FilesTyped, NodesKept
    <3> QED
      BY <1>9, <1>r, <3>1, <3>2 DEF EnsureRoot
  <2>2. \E s \in {"folder", "newroot"} : stage' = [stage EXCEPT ![j] = s]
    BY <1>9 DEF EnsureRoot
  <2>3. stage[j] = "root"
    BY <1>9 DEF EnsureRoot
  <2> QED
    BY <1>3, <1>9, <2>1, <2>2, <2>3 DEF EnsureRoot, FileSteps, OnALink
<1>10. CASE /\ NextLink(j) /\ stage' = [stage EXCEPT ![j] = "lock"]
            /\ memo' = memo /\ out' = out /\ at' = at
  BY <1>3, <1>10, <1>r DEF NextLink, FileSteps, OnALink
<1> QED
  BY <1>4, <1>5, <1>6, <1>7, <1>8, <1>9, <1>10


Works(m) == [folder : 0 .. m, file : 0 .. m, left : Seq(STRING)]

WithFile(w, j, f, l) == [w EXCEPT ![j].file = f, ![j].left = l]
\* What a job makes, with its file.
LEMMA WorkFile ==
  ASSUME NEW m \in Nat, NEW w \in [Jobs -> Works(m)], NEW j \in Jobs, NEW f \in 0 .. m,
         NEW l \in Seq(STRING)
  PROVE  /\ WithFile(w, j, f, l) \in [Jobs -> Works(m)]
         /\ \A i \in Jobs \ {j} : WithFile(w, j, f, l)[i] = w[i]
         /\ WithFile(w, j, f, l)[j].folder = w[j].folder
         /\ WithFile(w, j, f, l)[j].file = f
         /\ WithFile(w, j, f, l)[j].left = l
  BY DEF Works, WithFile

WithLeft(w, j, l) == [w EXCEPT ![j].left = l]
\* With the viewers that are left.
LEMMA WorkLeft ==
  ASSUME NEW m \in Nat, NEW w \in [Jobs -> Works(m)], NEW j \in Jobs,
         NEW l \in Seq(STRING)
  PROVE  /\ WithLeft(w, j, l) \in [Jobs -> Works(m)]
         /\ \A i \in Jobs \ {j} : WithLeft(w, j, l)[i] = w[i]
         /\ WithLeft(w, j, l)[j].folder = w[j].folder
         /\ WithLeft(w, j, l)[j].file = w[j].file
         /\ WithLeft(w, j, l)[j].left = l
  BY DEF Works, WithLeft

WithFolder(w, j, f) == [w EXCEPT ![j] = [NoWork EXCEPT !.folder = f]]
\* With its folder alone.
LEMMA WorkFolder ==
  ASSUME NEW m \in Nat, NEW w \in [Jobs -> Works(m)], NEW j \in Jobs, NEW f \in 0 .. m
  PROVE  /\ WithFolder(w, j, f) \in [Jobs -> Works(m)]
         /\ \A i \in Jobs \ {j} : WithFolder(w, j, f)[i] = w[i]
         /\ WithFolder(w, j, f)[j].folder = f
<1>1. /\ [NoWork EXCEPT !.folder = f] \in Works(m) /\ [NoWork EXCEPT !.folder = f].folder = f
  <2>1. \A x \in Works(m) :
          [x EXCEPT !.folder = f] \in Works(m) /\ [x EXCEPT !.folder = f].folder = f
    BY DEF Works, WithFolder
  <2>2. <<>> \in Seq(STRING)
    OBVIOUS
  <2>3. NoWork \in Works(m)
    BY <2>2 DEF NoWork, Works
  <2> QED
    BY <2>1, <2>3
<1>2. PICK x \in Works(m) : x = [NoWork EXCEPT !.folder = f] /\ x.folder = f
  BY <1>1
<1> QED
  BY <1>2 DEF WithFolder

\* The members of a sequence are its head and those of its tail.
LEMMA HeadAndTail ==
  ASSUME NEW s \in Seq(STRING), s # <<>>
  PROVE  Tail(s) \in Seq(STRING) /\ ToSet(s) = {Head(s)} \cup ToSet(Tail(s))
<1>1. Len(s) \in Nat /\ Len(s) >= 1 /\ Head(s) = s[1] /\ DOMAIN s = 1 .. Len(s)
  OBVIOUS
<1>2. /\ Tail(s) \in Seq(STRING) /\ Len(Tail(s)) = Len(s) - 1
      /\ DOMAIN Tail(s) = 1 .. Len(s) - 1
      /\ \A i \in 1 .. Len(s) - 1 : Tail(s)[i] = s[i + 1]
  OBVIOUS
<1>3. ASSUME NEW i \in 1 .. Len(s)
      PROVE  s[i] = s[1] \/ \E k \in 1 .. Len(s) - 1 : Tail(s)[k] = s[i]
  <2>1. CASE i = 1
    BY <2>1
  <2>2. CASE i # 1
    <3>1. i - 1 \in 1 .. Len(s) - 1 /\ (i - 1) + 1 = i
      BY <1>1, <2>2
    <3> QED
      BY <1>2, <3>1
  <2> QED
    BY <2>1, <2>2
<1>4. ASSUME NEW k \in 1 .. Len(s) - 1 PROVE k + 1 \in 1 .. Len(s) /\ Tail(s)[k] = s[k + 1]
  BY <1>1, <1>2
<1>5. 1 \in 1 .. Len(s)
  BY <1>1
<1>6. ToSet(s) \subseteq {Head(s)} \cup ToSet(Tail(s))
  <2> SUFFICES ASSUME NEW i \in 1 .. Len(s)
               PROVE  s[i] = Head(s) \/ s[i] \in ToSet(Tail(s))
    BY <1>1 DEF ToSet
  <2>1. CASE s[i] = s[1]
    BY <1>1, <2>1
  <2>2. ASSUME NEW k \in 1 .. Len(s) - 1, Tail(s)[k] = s[i]
        PROVE  s[i] \in ToSet(Tail(s))
    BY <1>2, <2>2 DEF ToSet
  <2> QED
    BY <1>3, <2>1, <2>2
<1>7. {Head(s)} \cup ToSet(Tail(s)) \subseteq ToSet(s)
  BY <1>1, <1>2, <1>4, <1>5 DEF ToSet
<1> QED
  BY <1>2, <1>6, <1>7

\* The steps that make folders and files and grant their viewers.
LEMMA DriveSteps ==
  ASSUME FilesInv, NodesKept, Tree', NEW j \in Jobs,
         CreateRoot(j) \/ CreateFolder(j) \/ UploadFile(j) \/ Grant(j)
  PROVE  JobStep(j)
<1>1. TextOf[j] # <<>> /\ FilesTyped /\ Making /\ Progress /\ StoreOf(j) \in Stores
  BY FilesAssumption DEF FilesInv, StoreOf, Stores
<1>2. /\ stage \in [Jobs -> FileSteps] /\ tokens \in Nat /\ tokens' \in Nat /\ tokens <= tokens'
      /\ root \in [Stores -> 0 .. tokens'] /\ work \in [Jobs -> Works(tokens')]
      /\ today \in Nat
  BY <1>1, LeftTyped DEF FilesTyped, NodesKept, Works
<1>3. ASSUME NEW s \in {"folder", "upload", "grant"}, stage' = [stage EXCEPT ![j] = s],
             stage[j] \in OnALink, memo' = memo, out' = out, at' = at,
             work' \in [Jobs -> Works(tokens')], root' \in [Stores -> 0 .. tokens'],
             \A i \in Jobs \ {j} : work'[i] = work[i], MakingOf(j)'
      PROVE  JobStep(j)
  <2>1. s \in FileSteps /\ s \notin {"idle", "claim", "finish"}
    BY DEF FileSteps
  <2> QED
    BY <1>1, <1>3, <2>1, StepKept DEF Works
<1>4. CASE CreateRoot(j)
  <2>1. stage' = [stage EXCEPT ![j] = "folder"] /\ stage[j] \in OnALink
        /\ memo' = memo /\ out' = out
        /\ at' = at /\ work' = work
    BY <1>4 DEF CreateRoot, OnALink
  <2>2. root' \in [Stores -> 0 .. tokens']
    BY <1>1, <1>2, <1>4 DEF CreateRoot
  <2>3. MakingOf(j)'
    BY <1>2, <2>1, MakingKept
  <2> QED
    BY <1>2, <1>3, <2>1, <2>2, <2>3
<1>5. CASE CreateFolder(j)
  <2>1. stage' = [stage EXCEPT ![j] = "upload"] /\ stage[j] \in OnALink
        /\ memo' = memo /\ out' = out
        /\ at' = at /\ root' = root
        /\ work' = [work EXCEPT ![j] = [NoWork EXCEPT !.folder = tokens']]
    BY <1>5 DEF CreateFolder, OnALink
  <2>2. /\ work' \in [Jobs -> Works(tokens')] /\ work'[j].folder = tokens'
        /\ \A i \in Jobs \ {j} : work'[i] = work[i]
    <3>1. tokens' \in 0 .. tokens'
      BY <1>2
    <3> QED
      <4>1. work' = WithFolder(work, j, tokens')
        BY <2>1 DEF WithFolder
      <4> QED
        BY <1>2, <3>1, <4>1, WorkFolder
  <2>3. nodes'[tokens'].kind = "folder"
    <3>1. PICK r \in Nat : r = root[StoreOf(j)]
      BY <1>1 DEF FilesTyped
    <3>2. PICK n \in Node :
            n = [FolderNode EXCEPT !.at = today, !.parent = r] /\ n.kind = "folder"
      BY <1>2, FolderNodes
    <3>3. tokens' = tokens + 1 /\ nodes' = Add(tokens', n) /\ today' = today /\ gone' = gone
      BY <1>5, <3>1, <3>2 DEF CreateFolder
    <3> QED
      BY <1>1, <3>2, <3>3, AddKept
  <2>4. MakingOf(j)'
    BY <1>2, <2>1, <2>2, <2>3 DEF MakingOf
  <2> QED
    BY <1>2, <1>3, <2>1, <2>2, <2>4
<1>6. CASE UploadFile(j)
  <2>1. stage' = [stage EXCEPT ![j] = "grant"] /\ stage[j] \in OnALink
        /\ memo' = memo /\ out' = out
        /\ at' = at /\ root' = root
        /\ work' = [work EXCEPT ![j].file = tokens', ![j].left = Viewers]
    BY <1>6 DEF UploadFile, OnALink, Grantees
  <2>2. /\ work' \in [Jobs -> Works(tokens')] /\ work'[j].folder = work[j].folder
        /\ work'[j].file = tokens' /\ work'[j].left = Viewers
        /\ \A i \in Jobs \ {j} : work'[i] = work[i]
    <3>1. tokens' \in 0 .. tokens' /\ Viewers \in Seq(STRING)
      BY <1>2, FilesAssumption
    <3> QED
      <4>1. work' = WithFile(work, j, tokens', Viewers)
        BY <2>1 DEF WithFile
      <4> QED
        BY <1>2, <3>1, <4>1, WorkFile
  <2>3. nodes'[tokens'] = NewFile(j)
    BY <1>1, <1>6, AddKept, FileNode DEF UploadFile, NewFile
  <2>4. NewFile(j).kind = "file" /\ NewFile(j).parent = work[j].folder
        /\ NewFile(j).path = Link(j).target /\ NewFile(j).for = {}
    BY <1>1, <1>6, FileNode DEF UploadFile
  <2>5. Link(j)' = Link(j)
    BY <2>1 DEF Link
  <2>6. MakingOf(j)'
    BY <1>2, <2>1, <2>2, <2>3, <2>4, <2>5 DEF MakingOf
  <2> QED
    BY <1>2, <1>3, <2>1, <2>2, <2>6
<1>7. CASE Grant(j)
  <2>1. stage[j] = "grant" /\ stage' = stage
        /\ memo' = memo /\ out' = out /\ at' = at /\ root' = root
        /\ work' = [work EXCEPT ![j].left = Tail(work[j].left)]
        /\ work[j].left \in Seq(STRING) /\ work[j].left # <<>>
    BY <1>2, <1>7 DEF Grant, Works
  <2>2. /\ Tail(work[j].left) \in Seq(STRING)
        /\ ToSet(work[j].left) = {Head(work[j].left)} \cup ToSet(Tail(work[j].left))
    BY <2>1, HeadAndTail
  <2>3. PICK left \in Seq(STRING) : left = Tail(work[j].left)
    BY <2>2
  <2>4. /\ work' \in [Jobs -> Works(tokens')] /\ work'[j].folder = work[j].folder
        /\ work'[j].file = work[j].file /\ work'[j].left = left
        /\ \A i \in Jobs \ {j} : work'[i] = work[i]
    <3>1. work' = WithLeft(work, j, left)
      BY <2>1, <2>3 DEF WithLeft
    <3> QED
      BY <1>2, <3>1, WorkLeft
  <2>5. stage' = [stage EXCEPT ![j] = "grant"]
    BY <1>2, <2>1
  <2>6. Link(j)' = Link(j)
    BY <2>1 DEF Link
  <2>7. PICK f, v : f = work[j].file /\ v = Head(work[j].left)
    OBVIOUS
  <2>8. /\ f \in DOMAIN nodes /\ nodes'[f].for = nodes[f].for \cup {v}
        /\ DOMAIN nodes' = DOMAIN nodes
        /\ nodes'[f].kind = nodes[f].kind /\ nodes'[f].parent = nodes[f].parent
        /\ nodes'[f].path = nodes[f].path
    BY <1>1, <1>7, <2>7, GrantKept DEF NodesKept
  <2>9. /\ nodes[f].kind = "file" /\ nodes[f].path = Link(j).target
        /\ nodes[f].parent = work[j].folder
        /\ nodes[f].for \cup ToSet(work[j].left) = ToSet(Viewers)
        /\ ToSet(work[j].left) \subseteq ToSet(Viewers)
    BY <1>1, <2>1, <2>7, <2>8 DEF Making, MakingOf
  <2>10. nodes'[f].for \cup ToSet(left) = ToSet(Viewers) /\ ToSet(left) \subseteq ToSet(Viewers)
    BY <2>2, <2>3, <2>7, <2>8, <2>9
  <2>11. MakingOf(j)'
    BY <1>2, <2>1, <2>4, <2>6, <2>7, <2>8, <2>9, <2>10 DEF MakingOf
  <2> QED
    BY <1>2, <1>3, <2>1, <2>4, <2>5, <2>11 DEF OnALink
<1> QED
  BY <1>4, <1>5, <1>6, <1>7


\* A link that stays as it was.
LEMMA LinkLeft ==
  ASSUME FilesInv, NEW j \in Jobs, stage[j] \in OnALink
  PROVE  /\ [NoLink EXCEPT !.label = Link(j).label] \in Links
         /\ \A p : Good([NoLink EXCEPT !.label = Link(j).label], p)
         /\ Link(j).target \in Int
<1>1. Link(j).label \in STRING /\ Link(j).target \in Int
  BY TargetTyped DEF FilesInv, Progress, ProgressOf, Link
<1>2. PICK x \in STRING : x = Link(j).label
  BY <1>1
<1>3. [NoLink EXCEPT !.label = x] \in Links /\ [NoLink EXCEPT !.label = x].to = 0
  BY DEF NoLink, Links
<1>4. tokens \in Nat
  BY DEF FilesInv, FilesTyped
<1> QED
  BY <1>1, <1>2, <1>3, <1>4 DEF Good

\* The steps that settle a link.
LEMMA LinkSteps ==
  ASSUME FilesInv, NodesKept, Tree', NEW j \in Jobs,
         NextLink(j) \/ Uploaded(j) \/ UploadFails(j)
  PROVE  JobStep(j)
<1> DEFINE plain == [NoLink EXCEPT !.label = Link(j).label]
<1>1. CASE NextLink(j)
  <2>1. stage[j] = "link" /\ stage[j] \in OnALink /\ work' = work /\ root' = root
    BY <1>1 DEF NextLink, OnALink
  <2>2. plain \in Links /\ (\A p : Good(plain, p)) /\ Link(j).target \in Int
    BY <2>1, LinkLeft
  <2>3. CASE Link(j).target \in DOMAIN memo[j] /\ Settle(j, memo[j][Link(j).target], FALSE)
    <3>1. memo[j] \in Memos
      BY DEF FilesInv, FilesTyped
    <3>2. PICK D \in SUBSET Int : memo[j] \in [D -> Links]
      BY <3>1 DEF Memos
    <3>3. memo[j][Link(j).target] \in Links
      BY <2>3, <3>2
    <3>4. Good(memo[j][Link(j).target], Link(j).target)
      BY <2>3 DEF FilesInv, Linked, LinkedOf
    <3> QED
      BY <2>1, <2>3, <3>3, <3>4, SettleKept
  <2>4. ASSUME NEW b \in BOOLEAN, Settle(j, plain, b)
        PROVE  JobStep(j)
    <3> HIDE DEF plain
    <3> QED
      BY <2>1, <2>2, <2>4, SettleKept
  <2>5. CASE stage' = [stage EXCEPT ![j] = "lock"] /\ memo' = memo /\ out' = out /\ at' = at
    BY <1>1, <2>5, UserSteps
  <2> HIDE DEF plain
  <2>6. \/ Link(j).target \in DOMAIN memo[j] /\ Settle(j, memo[j][Link(j).target], FALSE)
        \/ Settle(j, plain, TRUE) \/ Settle(j, plain, FALSE)
        \/ stage' = [stage EXCEPT ![j] = "lock"] /\ memo' = memo /\ out' = out /\ at' = at
    BY <1>1, Zenon DEF NextLink, plain
  <2> QED
    BY <2>3, <2>4, <2>5, <2>6
<1>2. CASE Uploaded(j)
  <2>1. stage[j] = "grant" /\ stage[j] \in OnALink /\ work' = work /\ root' = root
        /\ work[j].left = <<>> /\ work[j].file \in DOMAIN nodes
    BY <1>2 DEF Uploaded, OnALink
  <2>2. PICK f, g : f = work[j].file /\ g = work[j].folder
    OBVIOUS
  <2>3. /\ nodes[f].kind = "file" /\ nodes[f].path = Link(j).target /\ nodes[f].parent = g
        /\ nodes[f].for \cup ToSet(work[j].left) = ToSet(Viewers)
    BY <2>1, <2>2 DEF FilesInv, Making, MakingOf
  <2>4. ToSet(work[j].left) = {}
    BY <2>1 DEF ToSet
  <2>5. g \in DOMAIN nodes
    BY <2>1, <2>2, <2>3 DEF FilesInv, Tree
  <2>6. nodes[g].at \in Nat /\ f \in Nat /\ f <= tokens /\ tokens \in Nat
    BY <2>1, <2>2, <2>5 DEF FilesInv, FilesTyped, Node
  <2>7. PICK l : l = [label |-> "path", to |-> f, at |-> nodes[g].at]
    OBVIOUS
  <2>8. l \in Links /\ l.to = f /\ l.at = nodes[g].at
    <3>1. PICK a \in Nat : a = nodes[g].at
      BY <2>6
    <3>2. PICK name \in {0, "path"} : name = "path"
      OBVIOUS
    <3>4. name \in STRING \cup {0, "path"}
      BY <3>2
    <3>3. l = [label |-> name, to |-> f, at |-> a]
      BY <2>7, <3>1, <3>2
    <3> QED
      BY <2>6, <3>1, <3>3, <3>4 DEF Links
  <2>9. Good(l, Link(j).target)
    BY <2>1, <2>2, <2>3, <2>4, <2>6, <2>8 DEF Good
  <2>10. Settle(j, l, TRUE)
    BY <1>2, <2>2, <2>7 DEF Uploaded
  <2> QED
    BY <2>1, <2>8, <2>9, <2>10, SettleKept
<1>3. CASE UploadFails(j)
  <2>1. stage[j] \in OnALink /\ work' = work /\ root' = root
    BY <1>3 DEF UploadFails, OnALink
  <2>2. plain \in Links /\ \A p : Good(plain, p)
    BY <2>1, LinkLeft
  <2>3. Settle(j, plain, FALSE)
    BY <1>3 DEF UploadFails
  <2> HIDE DEF plain
  <2> QED
    BY <2>1, <2>2, <2>3, SettleKept
<1> QED
  BY <1>1, <1>2, <1>3

\* The end of a job clears what it made and remembers.
LEMMA FinishKept ==
  ASSUME FilesInv, NodesKept, Tree', NEW j \in Jobs, Finish(j)
  PROVE  JobStep(j)
<1>1. /\ stage \in [Jobs -> FileSteps] /\ root' \in [Stores -> 0 .. tokens'] /\ tokens' \in Nat
      /\ work \in [Jobs -> Works(tokens')] /\ memo \in [Jobs -> Memos]
      /\ out \in [Jobs -> Seq(Links)] /\ at \in [Jobs -> Nat]
  BY LeftTyped DEF FilesInv, FilesTyped, Works, Finish, NodesKept
<1>2. NoWork \in Works(tokens')
  <2>1. <<>> \in Seq(STRING)
    OBVIOUS
  <2> QED
    BY <1>1, <2>1 DEF NoWork, Works
<1>3. [t \in {} |-> NoLink] \in Memos /\ DOMAIN [t \in {} |-> NoLink] = {}
  <2>1. {} \in SUBSET Int /\ [t \in {} |-> NoLink] \in [{} -> Links]
    OBVIOUS
  <2> QED
    BY <2>1 DEF Memos
<1>4. /\ work' \in [Jobs -> Works(tokens')] /\ \A i \in Jobs \ {j} : work'[i] = work[i]
  BY <1>1, <1>2 DEF Finish
<1>5. /\ memo' \in [Jobs -> Memos] /\ \A i \in Jobs \ {j} : memo'[i] = memo[i]
      /\ DOMAIN memo'[j] = {}
  <2>1. PICK e \in Memos : e = [t \in {} |-> NoLink] /\ DOMAIN e = {}
    BY <1>3
  <2>2. memo' = [memo EXCEPT ![j] = e]
    BY <2>1 DEF Finish
  <2> QED
    BY <1>1, <2>1, <2>2
<1>6. at' = at /\ stage[j] = "finish" /\ at[j] = Len(TextOf[j]) /\ Len(out[j]) <= Len(TextOf[j])
      /\ Len(TextOf[j]) \in Nat /\ Len(TextOf[j]) >= 1
  BY FilesAssumption DEF Finish, FilesInv, Progress, ProgressOf
<1>7. \/ stage' = [stage EXCEPT ![j] = "done"] /\ out' = out
      \/ /\ j \in Downloads /\ stage' = [stage EXCEPT ![j] = "idle"]
         /\ out' = [out EXCEPT ![j] = <<>>]
  BY DEF Finish
<1>8. <<>> \in Seq(Links) /\ Len(<<>>) = 0 /\ DOMAIN <<>> = {}
  OBVIOUS
<1>9. /\ stage' \in [Jobs -> FileSteps] /\ out' \in [Jobs -> Seq(Links)]
      /\ \A i \in Jobs \ {j} : stage'[i] = stage[i] /\ out'[i] = out[i]
      /\ \/ stage'[j] = "done" /\ out'[j] = out[j]
         \/ j \in Downloads /\ stage'[j] = "idle" /\ out'[j] = <<>>
  <2>1. CASE stage' = [stage EXCEPT ![j] = "done"] /\ out' = out
    BY <1>1, <2>1 DEF FileSteps
  <2>2. CASE /\ j \in Downloads /\ stage' = [stage EXCEPT ![j] = "idle"]
             /\ out' = [out EXCEPT ![j] = <<>>]
    BY <1>1, <1>8, <2>2 DEF FileSteps
  <2> QED
    BY <1>7, <2>1, <2>2
<1>10. \A i \in Jobs \ {j} : Untouched(i)
  BY <1>4, <1>5, <1>6, <1>9 DEF Untouched
<1>11. MakingOf(j)'
  BY <1>9, MakingKept
<1>12. ProgressOf(j)'
  <2>1. j \in Downloads => at[j] = 1
    BY <1>6, FilesAssumption
  <2> QED
    BY <1>6, <1>8, <1>9, <2>1 DEF ProgressOf, OnALink
<1>13. LinkedOf(j)'
  <2>1. \A n \in DOMAIN out'[j] : GoodNext(out'[j][n], TextOf[j][n].target)
    BY <1>8, <1>9, LinksKept
  <2> QED
    BY <1>5, <2>1 DEF LinkedOf, Good, GoodNext
<1> QED
  BY <1>1, <1>4, <1>5, <1>6, <1>9, <1>10, <1>11, <1>12, <1>13 DEF JobStep, Works


\* The invariant holds at the start, when there is no node and no result.
LEMMA FilesInitial ==
  ASSUME FilesInit
  PROVE  FilesInv
<1>1. nodes = [t \in {} |-> FolderNode] /\ DOMAIN nodes = {} /\ nodes \in [{} -> Node]
  BY DEF FilesInit
<1>2. NoWork \in [folder : 0 .. 0, file : 0 .. 0, left : Seq(STRING)]
  <2>1. <<>> \in Seq(STRING)
    OBVIOUS
  <2> QED
    BY <2>1 DEF NoWork
<1>3. [t \in {} |-> NoLink] \in Memos /\ DOMAIN [t \in {} |-> NoLink] = {}
  <2>1. {} \in SUBSET Int /\ [t \in {} |-> NoLink] \in [{} -> Links]
    OBVIOUS
  <2> QED
    BY <2>1 DEF Memos
<1>4. <<>> \in Seq(Links) /\ Len(<<>>) = 0 /\ DOMAIN <<>> = {}
  OBVIOUS
<1>5. /\ today = 0 /\ tokens = 0 /\ root = [s \in Stores |-> 0]
      /\ stage = [j \in Jobs |-> "idle"] /\ at = [j \in Jobs |-> 1]
      /\ work = [j \in Jobs |-> NoWork] /\ out = [j \in Jobs |-> <<>>]
      /\ memo = [j \in Jobs |-> [t \in {} |-> NoLink]]
  BY DEF FilesInit
<1>6. memo \in [Jobs -> Memos] /\ \A j \in Jobs : DOMAIN memo[j] = {}
  <2>1. PICK e \in Memos : e = [t \in {} |-> NoLink] /\ DOMAIN e = {}
    BY <1>3
  <2>2. memo = [j \in Jobs |-> e]
    BY <1>5, <2>1
  <2> QED
    BY <2>1, <2>2
<1>7. out \in [Jobs -> Seq(Links)] /\ \A j \in Jobs : out[j] = <<>>
  BY <1>4, <1>5
<1>8. work \in [Jobs -> [folder : 0 .. 0, file : 0 .. 0, left : Seq(STRING)]]
  BY <1>2, <1>5
<1>9. stage \in [Jobs -> FileSteps] /\ \A j \in Jobs : stage[j] = "idle"
  BY <1>5 DEF FileSteps
<1>10. FilesTyped
  BY <1>1, <1>5, <1>6, <1>7, <1>8, <1>9 DEF FilesTyped
<1>11. Tree
  BY <1>1, <1>5 DEF Tree
<1>12. Making
  BY <1>9 DEF Making, MakingOf
<1>13. Progress
  <2>1. \A j \in Jobs : Len(TextOf[j]) \in Nat
    BY FilesAssumption
  <2>2. \A j \in Jobs : at[j] = 1 /\ out[j] = <<>> /\ stage[j] = "idle"
    BY <1>5
  <2> QED
    BY <1>4, <2>1, <2>2 DEF Progress, ProgressOf, OnALink
<1>14. Linked
  BY <1>4, <1>6, <1>7 DEF Linked, LinkedOf
<1> QED
  BY <1>10, <1>11, <1>12, <1>13, <1>14 DEF FilesInv

\* Every step keeps it.
LEMMA FilesStep ==
  ASSUME FilesInv, FilesNext
  PROVE  FilesInv'
<1>1. NodesKept /\ Tree'
  BY DriveKept, TreeKept
<1>2. /\ today' \in Nat /\ tokens' \in Nat /\ DOMAIN nodes' \subseteq 1 .. tokens'
      /\ nodes' \in [DOMAIN nodes' -> Node]
  BY <1>1 DEF NodesKept
<1>3. ASSUME NEW j \in Jobs, JobStep(j) PROVE FilesInv'
  <2>1. FilesTyped'
    BY <1>2, <1>3 DEF FilesTyped, JobStep
  <2>2. ASSUME NEW i \in Jobs PROVE MakingOf(i)' /\ ProgressOf(i)' /\ LinkedOf(i)'
    <3>1. CASE i = j
      BY <1>3, <3>1 DEF JobStep
    <3>2. CASE i # j
      BY <1>1, <1>3, <3>2, UntouchedKept DEF JobStep
    <3> QED
      BY <3>1, <3>2
  <2> QED
    BY <1>1, <2>1, <2>2 DEF FilesInv, Making, Progress, Linked
<1>4. CASE /\ at' = at /\ work' = work /\ out' = out /\ memo' = memo
           /\ root' \in [Stores -> 0 .. tokens'] /\ stage' \in [Jobs -> FileSteps]
           /\ \A i \in Jobs : stage'[i] = stage[i] \/ stage'[i] = "lost"
  <2>1. FilesTyped'
    BY <1>1, <1>2, <1>4, LeftTyped DEF FilesInv, FilesTyped
  <2>2. ASSUME NEW i \in Jobs PROVE MakingOf(i)' /\ ProgressOf(i)' /\ LinkedOf(i)'
    <3>1. CASE stage'[i] = stage[i]
      BY <1>1, <1>4, <3>1, UntouchedKept DEF Untouched
    <3>2. CASE stage'[i] = "lost"
      <4>1. MakingOf(i)'
        BY <3>2 DEF MakingOf
      <4>2. ProgressOf(i)'
        BY <1>4, <3>2 DEF ProgressOf, OnALink, FilesInv, Progress
      <4>3. LinkedOf(i)'
        BY <1>1, <1>4, LinksKept DEF LinkedOf, Good, GoodNext
      <4> QED
        BY <4>1, <4>2, <4>3
    <3> QED
      BY <1>4, <3>1, <3>2
  <2> QED
    BY <1>1, <2>1, <2>2 DEF FilesInv, Making, Progress, Linked
<1>5. /\ root \in [Stores -> 0 .. tokens] /\ root \in [Stores -> 0 .. tokens']
      /\ stage \in [Jobs -> FileSteps] /\ DOMAIN nodes \subseteq 1 .. tokens
  BY <1>1, LeftTyped DEF FilesInv, FilesTyped
<1>6. ASSUME NEW j \in Downloads, OpenDownload(j) \/ Confirm(j) \/ CancelDownload(j)
      PROVE  FilesInv'
  <2>1. j \in Jobs
    BY FilesAssumption
  <2> QED
    BY <1>1, <1>3, <1>6, <2>1, UserSteps
<1>7. ASSUME NEW j \in Jobs, Claim(j) \/ ScheduleLinks(j) \/ TakeStore(j) \/ EnsureRoot(j)
      PROVE  FilesInv'
  BY <1>1, <1>3, <1>7, UserSteps
<1>8. ASSUME NEW j \in Jobs, CreateRoot(j) \/ CreateFolder(j) \/ UploadFile(j) \/ Grant(j)
      PROVE  FilesInv'
  BY <1>1, <1>3, <1>8, DriveSteps
<1>9. ASSUME NEW j \in Jobs,
         NextLink(j) \/ Uploaded(j) \/ UploadFails(j)
      PROVE  FilesInv'
  BY <1>1, <1>3, <1>9, LinkSteps
<1>10. ASSUME NEW j \in Jobs, Finish(j) PROVE FilesInv'
  BY <1>1, <1>3, <1>10, FinishKept
<1>11. CASE RunDriveArtifactGC
  <2>1. PICK r \in {root["files"]} \cup Roots \cup {0} : root' = [root EXCEPT !["files"] = r]
    BY <1>11 DEF RunDriveArtifactGC, Newest
  <2>2. r \in 0 .. tokens /\ tokens' = tokens
    BY <1>5, <1>11, <2>1 DEF Roots, Stores, RunDriveArtifactGC
  <2>3. root' \in [Stores -> 0 .. tokens']
    BY <1>5, <2>1, <2>2
  <2> QED
    BY <1>4, <1>5, <1>11, <2>3 DEF RunDriveArtifactGC
<1>12. ASSUME NEW t \in DOMAIN nodes, RemovedOutside(t) PROVE FilesInv'
  BY <1>4, <1>5, <1>12 DEF RemovedOutside
<1>13. CASE Restart
  <2>1. root' \in [Stores -> 0 .. tokens'] /\ stage' \in [Jobs -> FileSteps]
    BY <1>2, <1>5, <1>13 DEF Restart, FileSteps
  <2> QED
    BY <1>4, <1>13, <2>1 DEF Restart
<1>14. CASE DayPasses
  BY <1>4, <1>5, <1>14 DEF DayPasses
<1> QED
  BY <1>6, <1>7, <1>8, <1>9, <1>10, <1>11, <1>12, <1>13, <1>14 DEF FilesNext

\* A link in the card of a finished job leads to the file it named, which all
\* may open, until its time is over or somebody removes it: for any number of jobs, links,
\* failed requests and restarts.
THEOREM FilesLinksReadable == FilesSpec => []LinksReadable
<1>1. FilesInit => FilesInv
  BY FilesInitial
<1>2. FilesInv /\ [FilesNext]_filesVars => FilesInv'
  <2>1. CASE FilesNext
    BY <2>1, FilesStep
  <2>2. CASE UNCHANGED filesVars
    BY <2>2 DEF filesVars, FilesInv, FilesTyped, Tree, Roots, Making, MakingOf, Link, Progress,
                ProgressOf, Linked, LinkedOf, Good
  <2> QED
    BY <2>1, <2>2
<1>3. FilesInv => LinksReadable
  BY DEF FilesInv, Linked, LinkedOf, Good, LinksReadable
<1> QED
  BY <1>1, <1>2, <1>3, PTL DEF FilesSpec
-----------------------------------------------------------------------------
(* Mutual exclusion per key and the refinement of KeyedMutex by the        *)
(* session actors.                                                         *)

\* Adding a task to the users of an entry, or removing one, moves the count by
\* one: what entry.refs++ and entry.refs-- rely on.
LEMMA UsersCount ==
  ASSUME NEW A, NEW B, NEW t, IsFiniteSet(A), t \notin A, B = A \cup {t}
  PROVE  Cardinality(A) \in Nat /\ Cardinality(B) = Cardinality(A) + 1
                                /\ IsFiniteSet(B)
  BY FS_CardinalityType, FS_AddElement

LEMMA UsersFinite ==
  ASSUME NEW e
  PROVE  IsFiniteSet(Users(e))
  BY ActorsAssumption, FS_Subset DEF ActorsAssumption, Users

LEMMA InitInv == Init => ActorInv
<1> SUFFICES ASSUME Init PROVE ActorInv OBVIOUS
<1> USE ActorsAssumption DEF ActorsAssumption, Init
<1>1. TypeOK BY DEF TypeOK
<1>2. \A e \in Entries : ~Reachable(e)
  BY DEF Reachable, Users
<1>3. Inside /\ SameEntry /\ OwnEntry /\ NoLeak
  BY DEF Inside, SameEntry, OwnEntry, NoLeak
<1>4. RefsCount /\ Held BY <1>2 DEF RefsCount, Held
<1> QED BY <1>1, <1>3, <1>4 DEF ActorInv

\* Run's first critical section with an existing entry
LEMMA JoinInv ==
  ASSUME ActorInv, NEW t \in Tasks, NEW k \in Keys, Join(t, k)
  PROVE  ActorInv'
<1> USE ActorsAssumption DEF ActorsAssumption, ActorInv
<1> DEFINE f == locks[k]
<1>1. f \in Entries /\ entry[t] = None /\ t \notin Users(f) /\ Reachable(f)
  BY DEF Join, TypeOK, Inside, Users, Reachable
<1>2. TypeOK'
  BY <1>1 DEF Join, TypeOK
<1>3. Inside' /\ SameEntry' /\ OwnEntry' /\ NoLeak'
  BY <1>1 DEF Join, TypeOK, Inside, SameEntry, OwnEntry, NoLeak
<1>4. Users(f)' = Users(f) \cup {t}
  BY <1>1 DEF Join, TypeOK, Users
<1>5. \A e \in Entries \ {f} : Users(e)' = Users(e)
  BY <1>1 DEF Join, TypeOK, Users
<1>6. \A e \in Entries \ {f} : Reachable(e)' = Reachable(e)
  BY <1>5 DEF Join, Reachable
<1>7. Cardinality(Users(f)') = Cardinality(Users(f)) + 1
  BY <1>1, <1>4, UsersFinite, UsersCount
<1>8. RefsCount'
  <2> SUFFICES ASSUME NEW e \in Entries, Reachable(e)'
               PROVE  refs'[e] = Cardinality(Users(e)')
    BY DEF RefsCount
  <2>1. CASE e = f
    BY <2>1, <1>1, <1>7 DEF Join, TypeOK, RefsCount
  <2>2. CASE e # f
    BY <2>2, <1>1, <1>5, <1>6 DEF Join, TypeOK, RefsCount
  <2> QED BY <2>1, <2>2
<1>9. Held'
  <2> SUFFICES ASSUME NEW u \in Tasks, NEW e \in Entries, Reachable(e)'
               PROVE  (holder'[e] = u) <=> (pc'[u] = "run" /\ entry'[u] = e)
    BY DEF Held
  <2>1. Reachable(e) BY <1>1, <1>6
  <2>2. pc[t] = "out" /\ pc'[t] = "wait" BY DEF Join, TypeOK
  <2>3. holder' = holder BY DEF Join
  <2>4. CASE u = t BY <2>1, <2>2, <2>3, <2>4 DEF Held
  <2>5. CASE u # t
    <3>1. pc'[u] = pc[u] /\ entry'[u] = entry[u] BY <2>5 DEF Join, TypeOK
    <3> QED BY <3>1, <2>1, <2>3 DEF Held
  <2> QED BY <2>4, <2>5
<1> QED BY <1>2, <1>3, <1>8, <1>9

\* Run's first critical section with a new entry
LEMMA CreateInv ==
  ASSUME ActorInv, NEW t \in Tasks, NEW k \in Keys, NEW f \in Entries,
         Create(t, k, f)
  PROVE  ActorInv'
<1> USE ActorsAssumption DEF ActorsAssumption, ActorInv
<1>1. /\ entry[t] = None /\ Users(f) = {}
      /\ \A l \in Keys : locks[l] # f
      /\ \A u \in Tasks : entry[u] # f
  BY DEF Create, TypeOK, Inside, Users, Reachable
<1>2. TypeOK'
  BY DEF Create, TypeOK
<1>3. Inside' /\ OwnEntry' /\ NoLeak'
  BY <1>1 DEF Create, TypeOK, Inside, OwnEntry, NoLeak
<1>3a. SameEntry'
  <2> SUFFICES ASSUME NEW u \in Tasks, pc'[u] # "out"
               PROVE  locks'[key'[u]] = entry'[u]
    BY DEF SameEntry
  <2>1. CASE u = t BY <2>1 DEF Create, TypeOK
  <2>2. CASE u # t
    <3>1. pc[u] # "out" /\ key'[u] = key[u] /\ entry'[u] = entry[u]
      BY <2>2 DEF Create, TypeOK
    <3>2. key[u] \in Keys /\ entry[u] # None BY <3>1 DEF TypeOK, Inside
    <3>3. locks[key[u]] = entry[u] BY <3>1 DEF SameEntry
    <3>4. key[u] # k BY <3>2, <3>3 DEF Create
    <3> QED BY <3>1, <3>2, <3>3, <3>4 DEF Create, TypeOK
  <2> QED BY <2>1, <2>2
<1>4. Users(f)' = Users(f) \cup {t} /\ t \notin Users(f)
  BY <1>1 DEF Create, TypeOK, Users
<1>5. \A e \in Entries \ {f} : Users(e)' = Users(e)
  BY <1>1 DEF Create, TypeOK, Users
<1>6. \A e \in Entries \ {f} : Reachable(e)' => Reachable(e)
  BY <1>5 DEF Create, TypeOK, Reachable
<1>7. Cardinality(Users(f)') = 1
  BY <1>1, <1>4, FS_Singleton
<1>8. RefsCount'
  <2> SUFFICES ASSUME NEW e \in Entries, Reachable(e)'
               PROVE  refs'[e] = Cardinality(Users(e)')
    BY DEF RefsCount
  <2>1. CASE e = f
    BY <2>1, <1>7 DEF Create, TypeOK
  <2>2. CASE e # f
    BY <2>2, <1>5, <1>6 DEF Create, TypeOK, RefsCount
  <2> QED BY <2>1, <2>2
<1>9. Held'
  <2> SUFFICES ASSUME NEW u \in Tasks, NEW e \in Entries, Reachable(e)'
               PROVE  (holder'[e] = u) <=> (pc'[u] = "run" /\ entry'[u] = e)
    BY DEF Held
  <2>1. pc[t] = "out" /\ pc'[t] = "wait" /\ entry'[t] = f BY DEF Create, TypeOK
  <2>2. u # t => pc'[u] = pc[u] /\ entry'[u] = entry[u] BY DEF Create, TypeOK
  <2>3. CASE e = f
    <3>1. holder'[e] = None BY <2>3 DEF Create, TypeOK
    <3> QED BY <3>1, <2>1, <2>2, <2>3, <1>1
  <2>4. CASE e # f
    <3>1. Reachable(e) /\ holder'[e] = holder[e]
      BY <2>4, <1>6 DEF Create, TypeOK
    <3> QED BY <3>1, <2>1, <2>2, <2>4 DEF Held
  <2> QED BY <2>3, <2>4
<1> QED BY <1>2, <1>3, <1>3a, <1>8, <1>9

\* Lock and Unlock move the mutex only
LEMMA LockInv ==
  ASSUME ActorInv, NEW t \in Tasks, Lock(t) \/ Unlock(t)
  PROVE  ActorInv'
<1> USE ActorsAssumption DEF ActorsAssumption, ActorInv
<1>1. pc[t] # "out" /\ entry[t] \in Entries
  BY DEF Lock, Unlock, TypeOK, Inside
<1>2. TypeOK'
  BY <1>1 DEF Lock, Unlock, TypeOK
<1>3. \A e \in Entries : Users(e)' = Users(e) /\ Reachable(e)' = Reachable(e)
  BY DEF Lock, Unlock, Users, Reachable
<1>4. Inside' /\ SameEntry' /\ OwnEntry' /\ NoLeak'
  BY <1>1 DEF Lock, Unlock, TypeOK, Inside, SameEntry, OwnEntry, NoLeak
<1>5. RefsCount'
  BY <1>3 DEF RefsCount, Lock, Unlock
<1>6. Held'
  <2> SUFFICES ASSUME NEW u \in Tasks, NEW e \in Entries, Reachable(e)'
               PROVE  (holder'[e] = u) <=> (pc'[u] = "run" /\ entry'[u] = e)
    BY DEF Held
  <2>1. Reachable(e) /\ entry' = entry BY <1>3 DEF Lock, Unlock
  <2>2. u # t => pc'[u] = pc[u] BY DEF Lock, Unlock, TypeOK
  <2>3. (holder[e] = u) <=> (pc[u] = "run" /\ entry[u] = e) BY <2>1 DEF Held
  <2>3a. (holder[e] = t) <=> (pc[t] = "run" /\ entry[t] = e) BY <2>1 DEF Held
  <2>4. CASE e # entry[t]
    <3>1. holder'[e] = holder[e] BY <2>4, <1>1 DEF Lock, Unlock, TypeOK
    <3> QED BY <3>1, <2>1, <2>2, <2>3, <2>4
  <2>5. CASE e = entry[t] /\ Lock(t)
    <3>1. holder'[e] = t /\ pc'[t] = "run" /\ holder[e] = None
      BY <2>5, <1>1 DEF Lock, TypeOK
    <3> QED BY <3>1, <2>1, <2>2, <2>3, <2>5
  <2>6. CASE e = entry[t] /\ Unlock(t)
    <3>1. holder'[e] = None /\ pc'[t] = "leave" /\ holder[e] = t
      BY <2>6, <1>1, <2>3a DEF Unlock, TypeOK
    <3> QED BY <3>1, <2>1, <2>2, <2>3, <2>6
  <2> QED BY <2>4, <2>5, <2>6
<1> QED BY <1>2, <1>4, <1>5, <1>6

\* Run's second critical section
LEMMA LeaveInv ==
  ASSUME ActorInv, NEW t \in Tasks, Leave(t)
  PROVE  ActorInv'
<1> USE ActorsAssumption DEF ActorsAssumption, ActorInv
<1>0. entry[t] \in Entries /\ key[t] \in Keys
  BY DEF Leave, TypeOK, Inside
<1>0a. PICK f \in Entries, k \in Keys : f = entry[t] /\ k = key[t]
  BY <1>0
<1>1. /\ f \in Entries /\ f = entry[t] /\ k \in Keys /\ k = key[t]
      /\ locks[k] = f /\ pc[t] = "leave"
  BY <1>0a DEF Leave, TypeOK, Inside, SameEntry
<1>2. Reachable(f) /\ t \in Users(f)
  BY <1>1 DEF Reachable, Users
<1>3. Users(f)' = Users(f) \ {t}
  BY <1>1 DEF Leave, TypeOK, Users
<1>4. \A e \in Entries \ {f} : Users(e)' = Users(e)
  BY <1>1 DEF Leave, TypeOK, Users
<1>5. /\ IsFiniteSet(Users(f)') /\ Cardinality(Users(f)') \in Nat
      /\ Cardinality(Users(f)) = Cardinality(Users(f)') + 1
  <2>1. IsFiniteSet(Users(f)') BY <1>3, UsersFinite, FS_Subset
  <2>2. t \notin Users(f)' /\ Users(f) = Users(f)' \cup {t} BY <1>2, <1>3
  <2> QED BY <2>1, <2>2, UsersCount
<1>6. refs[f] = Cardinality(Users(f)') + 1 /\ refs'[f] = Cardinality(Users(f)')
  BY <1>1, <1>2, <1>5 DEF RefsCount, Leave, TypeOK
<1>7. TypeOK'
  <2>1. refs' \in [Entries -> Nat] BY <1>1, <1>5, <1>6 DEF Leave, TypeOK
  <2> QED BY <2>1, <1>1 DEF Leave, TypeOK
<1>8. refs[f] = 1 <=> Users(f)' = {}
  BY <1>5, <1>6, FS_EmptySet
<1>9. \A u \in Tasks \ {t} : pc'[u] = pc[u] /\ key'[u] = key[u] /\ entry'[u] = entry[u]
  BY DEF Leave, TypeOK
<1>10. pc'[t] = "out" /\ key'[t] = None /\ entry'[t] = None
  BY DEF Leave, TypeOK
<1>11. Inside'
  BY <1>9, <1>10 DEF Inside
<1>12. SameEntry'
  <2> SUFFICES ASSUME NEW u \in Tasks, pc'[u] # "out"
               PROVE  locks'[key'[u]] = entry'[u]
    BY DEF SameEntry
  <2>1. u # t /\ pc[u] # "out" /\ key'[u] = key[u] /\ entry'[u] = entry[u]
    BY <1>9, <1>10
  <2>2. locks[key[u]] = entry[u] /\ key[u] \in Keys /\ entry[u] # None
    BY <2>1 DEF SameEntry, Inside, TypeOK
  <2>3. CASE refs[f] # 1 BY <2>1, <2>2, <2>3, <1>1 DEF Leave
  <2>4. CASE refs[f] = 1
    <3>1. entry[u] # f BY <2>1, <2>4, <1>8 DEF Users
    <3>2. key[u] # k BY <3>1, <2>2, <1>1
    <3> QED BY <3>2, <2>1, <2>2, <1>1 DEF Leave, TypeOK
  <2> QED BY <2>3, <2>4
<1>13. OwnEntry'
  BY <1>1 DEF OwnEntry, Leave, TypeOK
<1>14. NoLeak'
  <2> SUFFICES ASSUME NEW l \in Keys, locks'[l] # None
               PROVE  \E u \in Tasks : entry'[u] = locks'[l]
    BY DEF NoLeak
  <2>1. locks'[l] = locks[l] BY <1>1 DEF Leave, TypeOK
  <2>2. CASE l = k
    <3>1. refs[f] # 1 BY <2>2, <1>1 DEF Leave, TypeOK
    <3>2. PICK u \in Users(f)' : TRUE BY <3>1, <1>8
    <3> QED BY <3>2, <2>1, <2>2, <1>1, <1>3 DEF Users
  <2>3. CASE l # k
    <3>1. locks[l] # f BY <2>3, <1>1 DEF OwnEntry, TypeOK
    <3>2. PICK u \in Tasks : entry[u] = locks[l] BY <2>1 DEF NoLeak
    <3>3. u # t BY <3>1, <3>2, <1>1
    <3> QED BY <3>2, <3>3, <2>1, <1>9
  <2> QED BY <2>2, <2>3
<1>15. \A e \in Entries : Reachable(e)' => Reachable(e)
  BY <1>3, <1>4, <1>1 DEF Reachable, Leave, TypeOK
<1>16. RefsCount'
  <2> SUFFICES ASSUME NEW e \in Entries, Reachable(e)'
               PROVE  refs'[e] = Cardinality(Users(e)')
    BY DEF RefsCount
  <2>1. CASE e = f BY <2>1, <1>6
  <2>2. CASE e # f
    BY <2>2, <1>1, <1>4, <1>15 DEF Leave, TypeOK, RefsCount
  <2> QED BY <2>1, <2>2
<1>17. Held'
  <2> SUFFICES ASSUME NEW u \in Tasks, NEW e \in Entries, Reachable(e)'
               PROVE  (holder'[e] = u) <=> (pc'[u] = "run" /\ entry'[u] = e)
    BY DEF Held
  <2>1. Reachable(e) /\ holder' = holder BY <1>15 DEF Leave
  <2>2. (holder[e] = u) <=> (pc[u] = "run" /\ entry[u] = e) BY <2>1 DEF Held
  <2>3. CASE u = t BY <2>1, <2>2, <2>3, <1>1, <1>10
  <2>4. CASE u # t BY <2>1, <2>2, <2>4, <1>9
  <2> QED BY <2>3, <2>4
<1> QED BY <1>7, <1>11, <1>12, <1>13, <1>14, <1>16, <1>17

\* Every step keeps the invariant.
LEMMA StepInv == ActorInv /\ [Next]_vars => ActorInv'
<1> SUFFICES ASSUME ActorInv, [Next]_vars PROVE ActorInv' OBVIOUS
<1>1. CASE UNCHANGED vars
  <2> USE <1>1 DEF vars
  <2>1. TypeOK' /\ Inside' /\ SameEntry' /\ OwnEntry' /\ NoLeak'
    BY DEF ActorInv, TypeOK, Inside, SameEntry, OwnEntry, NoLeak
  <2>2. \A e \in Entries : Users(e)' = Users(e) /\ Reachable(e)' = Reachable(e)
    BY DEF Users, Reachable
  <2>3. RefsCount' /\ Held'
    BY <2>2 DEF ActorInv, RefsCount, Held
  <2> QED BY <2>1, <2>3 DEF ActorInv
<1>2. CASE Next
  <2>1. PICK t \in Tasks : Enter(t) \/ Lock(t) \/ Unlock(t) \/ Leave(t)
    BY <1>2 DEF Next
  <2>2. CASE Enter(t) BY <2>2, JoinInv, CreateInv DEF Enter
  <2>3. CASE Lock(t) \/ Unlock(t) BY <2>3, LockInv
  <2>4. CASE Leave(t) BY <2>4, LeaveInv
  <2> QED BY <2>1, <2>2, <2>3, <2>4
<1> QED BY <1>1, <1>2

\* The invariant of the lock map holds for every number of tasks, keys and
\* entries: reference counts are exact, no entry in use is deleted, and no
\* entry stays in the map without a user.
THEOREM ActorsInvariant == Spec => []ActorInv
  BY InitInv, StepInv, PTL DEF Spec

LEMMA InvExclusive == ActorInv => Exclusive
<1> SUFFICES ASSUME ActorInv, NEW t \in Tasks, NEW u \in Tasks,
                    pc[t] = "run", pc[u] = "run", key[t] = key[u]
             PROVE  t = u
  BY DEF Exclusive
<1>1. entry[t] = entry[u] /\ entry[t] \in Entries
  BY DEF ActorInv, SameEntry, Inside, TypeOK
<1>2. Reachable(entry[t])
  BY <1>1 DEF Reachable, Users
<1> QED BY <1>1, <1>2 DEF ActorInv, Held, TypeOK

\* Two tasks of the same session key never run at the same time.
THEOREM ActorsExclusive == Spec => []Exclusive
  BY ActorsInvariant, InvExclusive, PTL

\* Owner(k) is the task that runs under k: there is at most one.
LEMMA OwnerIs ==
  ASSUME Exclusive, NEW t \in Tasks, pc[t] = "run"
  PROVE  Owner(key[t]) = t
BY DEF Owner, Exclusive

LEMMA OwnerNone ==
  ASSUME NEW k \in Keys, \A t \in Tasks : pc[t] = "run" => key[t] # k
  PROVE  Owner(k) = None
BY DEF Owner

\* The abstract counterpart of the tasks' keys
Want(t) == IF pc[t] \in {"wait", "run"} THEN key[t] ELSE None

\* The owners depend only on who runs under which key.
LEMMA OwnerSame ==
  ASSUME NEW k \in Keys,
         \A t \in Tasks : (pc[t] = "run" /\ key[t] = k) <=> (pc[t] = "run" /\ key[t] = k)'
  PROVE  Owner(k)' = Owner(k)
BY DEF Owner

\* A step of the lock map is a step of the keyed mutex, or changes nothing of it.
LEMMA StepRefines ==
  ASSUME TypeOK, Inside, Exclusive, TypeOK', Exclusive', [Next]_vars
  PROVE  [Mutex!Next]_(Mutex!abstractVars)
<1> USE ActorsAssumption DEF ActorsAssumption
<1> DEFINE want == [t \in Tasks |-> Want(t)]
           owner == [k \in Keys |-> Owner(k)]
<1>1. CASE UNCHANGED vars
  <2>1. \A k \in Keys : Owner(k)' = Owner(k) BY <1>1 DEF Owner, vars
  <2>2. want' = want /\ owner' = owner BY <1>1, <2>1 DEF Want, vars
  <2> QED BY <2>2 DEF Mutex!abstractVars, Want
<1>2. ASSUME NEW t \in Tasks, NEW k \in Keys, pc[t] = "out", pc' = [pc EXCEPT ![t] = "wait"],
             key' = [key EXCEPT ![t] = k]
      PROVE  Mutex!Request(t, k)
  <2>1. \A l \in Keys : Owner(l)' = Owner(l)
    BY <1>2, OwnerSame DEF TypeOK
  <2>2. want[t] = None /\ want' = [want EXCEPT ![t] = k] /\ owner' = owner
    BY <1>2, <2>1 DEF Want, TypeOK
  <2> QED BY <2>2 DEF Mutex!Request, Want
<1>3. ASSUME NEW t \in Tasks, Lock(t) PROVE Mutex!Next
  <2>1. pc[t] = "wait" /\ pc'[t] = "run" /\ key' = key /\ key[t] \in Keys
    BY <1>3 DEF Lock, TypeOK, Inside
  <2>2. \A u \in Tasks \ {t} : pc'[u] = pc[u]
    BY <1>3 DEF Lock, TypeOK
  <2>3. \A u \in Tasks : pc[u] = "run" => key[u] # key[t]
    BY <2>1, <2>2 DEF Exclusive
  <2>4. Owner(key[t]) = None
    BY <2>1, <2>3, OwnerNone
  <2>5. Owner(key[t])' = t
    BY <2>1 DEF Owner, Exclusive
  <2>6. \A l \in Keys \ {key[t]} : Owner(l)' = Owner(l)
    BY <2>1, <2>2, OwnerSame
  <2>7. owner' = [owner EXCEPT ![key[t]] = t]
    BY <2>1, <2>5, <2>6
  <2>8. want' = want /\ want[t] = key[t] /\ owner[key[t]] = None
    BY <2>1, <2>2, <2>4 DEF Want
  <2>9. Mutex!Grant(t, key[t])
    BY <2>7, <2>8 DEF Mutex!Grant, Want
  <2> QED BY <2>1, <2>9 DEF Mutex!Next
<1>4. ASSUME NEW t \in Tasks, Unlock(t) PROVE Mutex!Next
  <2>1. pc[t] = "run" /\ pc'[t] = "leave" /\ key' = key /\ key[t] \in Keys
    BY <1>4 DEF Unlock, TypeOK, Inside
  <2>2. \A u \in Tasks \ {t} : pc'[u] = pc[u]
    BY <1>4 DEF Unlock, TypeOK
  <2>3. Owner(key[t]) = t
    BY <2>1, OwnerIs
  <2>4. \A u \in Tasks : ~(pc'[u] = "run" /\ key'[u] = key[t])
    BY <2>1, <2>2 DEF Exclusive
  <2>5. Owner(key[t])' = None
    BY <2>1, <2>4 DEF Owner
  <2>6. \A l \in Keys \ {key[t]} : Owner(l)' = Owner(l)
    BY <2>1, <2>2, OwnerSame
  <2>7. owner' = [owner EXCEPT ![key[t]] = None]
    BY <2>1, <2>5, <2>6
  <2>8. want' = [want EXCEPT ![t] = None] /\ want[t] = key[t] /\ owner[key[t]] = t
    BY <2>1, <2>2, <2>3 DEF Want
  <2>9. PICK k \in Keys : k = key[t] BY <2>1
  <2>10. Mutex!Release(t, k)
    BY <2>7, <2>8, <2>9 DEF Mutex!Release, Want
  <2> QED BY <2>10 DEF Mutex!Next
<1>5. ASSUME NEW t \in Tasks, Leave(t) PROVE UNCHANGED Mutex!abstractVars
  <2>1. \A l \in Keys : Owner(l)' = Owner(l)
    BY <1>5, OwnerSame DEF Leave, TypeOK
  <2>2. want' = want /\ owner' = owner
    BY <1>5, <2>1 DEF Leave, TypeOK, Want
  <2> QED BY <2>2 DEF Mutex!abstractVars, Want
<1>6. ASSUME NEW t \in Tasks, Enter(t) PROVE Mutex!Next
  <2>1. PICK k \in Keys : Join(t, k) \/ \E e \in Entries : Create(t, k, e)
    BY <1>6 DEF Enter
  <2>2. pc[t] = "out" /\ pc' = [pc EXCEPT ![t] = "wait"] /\ key' = [key EXCEPT ![t] = k]
    BY <2>1 DEF Join, Create
  <2>3. Mutex!Request(t, k) BY <2>2, <1>2
  <2> QED BY <2>3 DEF Mutex!Next
<1> QED BY <1>1, <1>3, <1>4, <1>5, <1>6 DEF Next

\* Initially nobody wants or owns a key.
LEMMA InitRefines == Init => Mutex!Init
BY DEF Init, Mutex!Init, Owner

\* The map of counted mutexes implements the keyed mutex, whatever the numbers
\* of tasks, keys and entries: every step of Run is a request, a grant, a
\* release or invisible.
THEOREM ActorsImplementMutex == Spec => ImplementsMutex
<1>1. ActorInv => TypeOK /\ Inside BY DEF ActorInv
<1> QED
  BY <1>1, ActorsInvariant, ActorsExclusive, InitRefines, StepRefines, PTL
     DEF Spec, ImplementsMutex, Mutex!Spec
=============================================================================

---------------------------- MODULE ClaudeRuntime ----------------------------
(***************************************************************************)
(* The Claude runtime for one session key: its CLI processes, the turns    *)
(* they run, the start of a queued submission and the event loop of every  *)
(* process (runtime/claude/service.go, model_config.go and                 *)
(* application/submission/claude_start.go).                                *)
(*                                                                         *)
(* A process is the number of its start; its Session is reduced to the     *)
(* messages it was sent and the events it emits (ClaudeSession has the     *)
(* rest).  Its conversation is identified by the process that created it.  *)
(* The session actor serialises what runs on it: transitions of the event  *)
(* loops are short and take the actor in one step; a start that was        *)
(* scheduled through the actor holds it until it ends, a start from an     *)
(* inbound message holds the transport's actor instead.                    *)
(***************************************************************************)
EXTENDS Integers, Sequences, FiniteSets

CONSTANTS
  Subs,        \* submissions, in order of arrival: 1 .. n
  Settings,    \* model settings: records of model, effort and aux
  MaxLaunches, \* bound: processes
  MaxSends,    \* bound: messages sent to one process
  MaxChanges,  \* bound: changes of the settings by the user
  MaxDeaths,   \* bound: the CLI dies while fewer processes have stopped
  MaxStops     \* bound: /stop during the first MaxStops turns of a process

VARIABLES
  desired,   \* ModelSettings(sessionKey)
  changes,   \* bound for the above
  serving,   \* sessions[key]: a process or NoCli
  cli,       \* SessionState and Session per process
  configPending,
  sess,      \* the stored session: thread, queue, active operation
  starter,   \* StartNextClaudeSubmission: pc and locals
  wake,      \* a start scheduled with RunSessionAsync
  actor,     \* the start holds the session's actor
  status,    \* status of a submission
  excused    \* history: submissions whose completion came before StartTurn was
             \* ready for it

startsVars == <<desired, changes, serving, cli, configPending, sess, starter, wake,
          actor, status, excused>>

Launches == 1 .. MaxLaunches
NoCli == 0
NoSub == 0
NoConv == 0
Fresh == [sub |-> NoSub, suppress |-> FALSE]    \* no TurnState
Event(kind, n, ok) == [kind |-> kind, n |-> n, ok |-> ok]

Numbers == 1 .. MaxSends

\* What a process can run with: a request to change the settings may have applied
\* one of them only
Configs == [model  : {s.model : s \in Settings},
            effort : {s.effort : s \in Settings},
            aux    : {s.aux : s \in Settings}]

ASSUME StartsAssumption ==
  /\ Settings # {} /\ Settings \subseteq Configs
  /\ Subs \subseteq Nat \ {NoSub}
  /\ MaxLaunches \in Nat /\ MaxSends \in Nat /\ MaxChanges \in Nat

Events == [kind : {"ready", "error"}, n : {0}, ok : BOOLEAN]
            \cup [kind : {"started", "complete"}, n : Numbers, ok : BOOLEAN]

Turns == [sub : Subs \cup {NoSub}, suppress : BOOLEAN]

Processes ==
  [st : {"new", "up", "stopped"}, real : Configs, applied : Settings,
   valid : BOOLEAN, conv : Launches \cup {NoConv}, ready : BOOLEAN,
   preserve : BOOLEAN, turns : [Numbers -> Turns], cur : Numbers \cup {0},
   interrupt : BOOLEAN, sent : 0 .. MaxSends, answered : 0 .. MaxSends,
   told : BOOLEAN, events : Seq(Events),
   loop : [pc : {"recv", "bind", "finish", "fail", "cleanup", "end"},
           sub : Subs \cup {NoSub}, ok : BOOLEAN]]

Starters ==
  [pc : {"idle", "begin", "ensure", "init", "bind", "send", "store", "ready",
         "error"},
   sub : Subs \cup {NoSub}, resume : Launches \cup {NoConv}, want : Settings,
   p : Launches \cup {NoCli}, n : 0 .. MaxSends]

StartsTypeOK ==
  /\ desired \in Settings /\ changes \in 0 .. MaxChanges
  /\ serving \in Launches \cup {NoCli}
  /\ cli \in [Launches -> Processes]
  /\ configPending \in BOOLEAN
  /\ sess \in [thread : Launches \cup {NoConv}, queue : Seq(Subs),
              op : Subs \cup {NoSub}]
  /\ starter \in Starters
  /\ wake \in BOOLEAN /\ actor \in BOOLEAN
  /\ status \in [Subs -> {"new", "queued", "running", "done", "failed"}]
  /\ excused \subseteq Subs

Unset == CHOOSE s \in Settings : TRUE
NewCli == [st |-> "new", real |-> Unset, applied |-> Unset, valid |-> TRUE,
            conv |-> NoConv, ready |-> FALSE, preserve |-> FALSE,
            turns |-> [n \in Numbers |-> Fresh], cur |-> 0, interrupt |-> FALSE,
            sent |-> 0, answered |-> 0, told |-> FALSE, events |-> <<>>,
            loop |-> [pc |-> "recv", sub |-> NoSub, ok |-> FALSE]]

Idle == [pc |-> "idle", sub |-> NoSub, resume |-> NoConv, want |-> Unset,
         p |-> NoCli, n |-> 0]

StartsInit ==
  /\ desired = Unset /\ changes = 0
  /\ serving = NoCli /\ cli = [p \in Launches |-> NewCli]
  /\ configPending = FALSE
  /\ sess = [thread |-> NoConv, queue |-> <<>>, op |-> NoSub]
  /\ starter = Idle /\ wake = FALSE /\ actor = FALSE
  /\ status = [s \in Subs |-> "new"]
  /\ excused = {}

Started == {p \in Launches : cli[p].st # "new"}
LastLaunch == Cardinality(Started)
Running(p) == p # NoCli /\ cli[p].st = "up"
-----------------------------------------------------------------------------
(* The user.                                                               *)

\* A message is queued and a start attempted, on the transport's actor; a start
\* that runs already makes TryBegin fail, and FinishStart schedules another.
Arrive(s) ==
  /\ status[s] = "new" /\ \A r \in Subs : r < s => status[r] # "new"
  /\ sess' = [sess EXCEPT !.queue = Append(@, s)]
  /\ status' = [status EXCEPT ![s] = "queued"]
  /\ IF starter.pc = "idle"
     THEN starter' = [Idle EXCEPT !.pc = "begin"] /\ wake' = wake
     ELSE starter' = starter /\ wake' = TRUE
  /\ UNCHANGED <<desired, changes, serving, cli, configPending, actor, excused>>

\* /model
Change(d) ==
  /\ changes < MaxChanges /\ d # desired
  /\ desired' = d /\ changes' = changes + 1
  /\ UNCHANGED <<serving, cli, configPending, sess, starter, wake, actor,
                 status, excused>>

\* Interrupt: /stop
Interrupt ==
  /\ Running(serving) /\ sess.op # NoSub /\ ~cli[serving].interrupt
  /\ cli[serving].sent <= MaxStops
  /\ cli' = [cli EXCEPT ![serving].interrupt = TRUE]
  /\ UNCHANGED <<desired, changes, serving, configPending, sess, starter, wake,
                 actor, status, excused>>
-----------------------------------------------------------------------------
(* StartNextSubmission up to the dequeue.                                  *)

\* RunSessionAsync: the start waits for the session's actor and keeps it
StartWoken ==
  /\ wake /\ starter.pc = "idle" /\ ~actor
  /\ wake' = FALSE /\ actor' = TRUE
  /\ starter' = [Idle EXCEPT !.pc = "begin"]
  /\ UNCHANGED <<desired, changes, serving, cli, configPending, sess, status,
                 excused>>

\* The start is over: its actor is free again
Ended == starter' = Idle /\ actor' = FALSE

StartBegin ==
  /\ starter.pc = "begin"
  /\ IF sess.op # NoSub \/ sess.queue = <<>>
     THEN Ended /\ sess' = sess
     ELSE /\ sess' = [sess EXCEPT !.queue = Tail(@)]
          /\ starter' = [starter EXCEPT !.pc = "ensure", !.sub = Head(sess.queue),
                                        !.resume = sess.thread]
          /\ actor' = actor
  /\ UNCHANGED <<desired, changes, serving, cli, configPending, wake, status,
                 excused>>

\* deferClaudeModelConfig: the submission goes back to the head of the queue and
\* nothing is scheduled
Defer ==
  /\ sess' = [sess EXCEPT !.queue = <<starter.sub>> \o @, !.op = NoSub]
  /\ status' = [status EXCEPT ![starter.sub] = "queued"]
  /\ Ended

\* HandleSubmissionStartFailure: the submission has failed, the next one starts
Fail(thread) ==
  /\ sess' = [sess EXCEPT !.op = NoSub, !.thread = thread]
  /\ status' = [status EXCEPT ![starter.sub] = "failed"]
  /\ wake' = (wake \/ sess.queue # <<>>)
  /\ Ended
-----------------------------------------------------------------------------
(* EnsureSession.                                                          *)

SameConversation(p) == starter.resume = NoConv \/ cli[p].conv = starter.resume

\* modelChangeBlockedReason
Blocked(p) ==
  \/ sess.op # NoSub \/ cli[p].cur # 0 \/ cli[p].interrupt
  \/ \E n \in Numbers : cli[p].turns[n] # Fresh

\* Settings that a running process cannot take over
NeedsRestart(p) == ~cli[p].valid \/ desired.aux # cli[p].applied.aux

\* noteModelSettingsApplied
Noted(r, s) == [r EXCEPT !.applied = s, !.valid = TRUE]

Reusable(p) == Running(p) /\ SameConversation(p)

\* The process runs with the settings already
EnsureReuse ==
  /\ starter.pc = "ensure" /\ Reusable(serving)
  /\ cli[serving].valid /\ cli[serving].applied = desired
  /\ configPending' = FALSE
  /\ starter' = [starter EXCEPT !.pc = "bind", !.p = serving, !.want = desired]
  /\ UNCHANGED <<desired, changes, serving, cli, sess, wake, actor, status,
                 excused>>

EnsureBlocked ==
  /\ starter.pc = "ensure" /\ Reusable(serving)
  /\ ~cli[serving].valid \/ cli[serving].applied # desired
  /\ Blocked(serving)
  /\ Defer
  /\ UNCHANGED <<desired, changes, serving, cli, configPending, wake, excused>>

\* Mutant of ApplyFailed: the snapshot stays valid
ApplyFailedValid(r) == r

\* a failed request may have applied one of the two settings
ApplyFailed(r) == [r EXCEPT !.valid = FALSE]

\* applyModelSettings: SetModel, then SetEffort; each may fail
EnsureHot ==
  /\ starter.pc = "ensure" /\ Reusable(serving)
  /\ cli[serving].valid /\ cli[serving].applied # desired
  /\ ~Blocked(serving) /\ ~NeedsRestart(serving)
  /\ \/ /\ cli' = [cli EXCEPT ![serving] = Noted([@ EXCEPT !.real = desired], desired)]
        /\ configPending' = FALSE
        /\ starter' = [starter EXCEPT !.pc = "bind", !.p = serving, !.want = desired]
        /\ UNCHANGED <<sess, actor, status>>
     \/ /\ \E half \in {cli[serving].real,
                        [cli[serving].real EXCEPT !.model = desired.model]} :
             cli' = [cli EXCEPT ![serving] = ApplyFailed([@ EXCEPT !.real = half])]
        /\ configPending' = TRUE /\ Defer
  /\ UNCHANGED <<desired, changes, serving, wake, excused>>

\* ResetSession, for a process that cannot serve: stopped, of another
\* conversation, or to be started again with its own conversation
EnsureReset ==
  /\ starter.pc = "ensure"
  /\ \/ ~Reusable(serving) /\ UNCHANGED <<configPending, starter>>
     \/ /\ Reusable(serving)
        /\ ~cli[serving].valid \/ cli[serving].applied # desired
        /\ ~Blocked(serving) /\ NeedsRestart(serving)
        /\ configPending' = TRUE
        /\ starter' = [starter EXCEPT !.resume = IF cli[serving].conv = NoConv
                                                 THEN @ ELSE cli[serving].conv]
  /\ serving # NoCli
  /\ cli' = [cli EXCEPT ![serving].st = "stopped"]
  /\ serving' = NoCli
  /\ UNCHANGED <<desired, changes, sess, wake, actor, status, excused>>

\* startSession up to Initialize
EnsureLaunch ==
  /\ starter.pc = "ensure" /\ serving = NoCli /\ LastLaunch < MaxLaunches
  /\ LET p == LastLaunch + 1 IN
       /\ cli' = [cli EXCEPT ![p] =
                     Noted([@ EXCEPT !.st = "up", !.real = desired,
                                     !.conv = starter.resume], desired)]
       /\ serving' = p
       /\ starter' = [starter EXCEPT !.pc = "init", !.p = p, !.want = desired]
  /\ UNCHANGED <<desired, changes, configPending, sess, wake, actor, status,
                 excused>>

\* PreserveResumeOnFailure
Protects == configPending /\ starter.resume # NoConv

\* Initialize succeeds
EnsureInit ==
  /\ starter.pc = "init" /\ Running(starter.p)
  /\ cli' = [cli EXCEPT ![starter.p].preserve = Protects]
  /\ configPending' = FALSE
  /\ starter' = [starter EXCEPT !.pc = "bind"]
  /\ UNCHANGED <<desired, changes, serving, sess, wake, actor, status, excused>>

\* Start or Initialize fails.  A change of settings keeps the submission at the
\* head of the queue; another failure of a resume falls back to a fresh
\* conversation.
EnsureFails ==
  /\ starter.pc = "init"
  /\ cli' = [cli EXCEPT ![starter.p].st = "stopped"]
  /\ serving' = NoCli
  /\ \/ configPending /\ Defer /\ UNCHANGED wake
     \/ /\ ~configPending /\ starter.resume # NoConv
        /\ sess' = [sess EXCEPT !.thread = NoConv]
        /\ starter' = [starter EXCEPT !.pc = "ensure", !.resume = NoConv]
        /\ UNCHANGED <<actor, status, wake>>
     \/ ~configPending /\ starter.resume = NoConv /\ Fail(sess.thread)
  /\ UNCHANGED <<desired, changes, configPending, excused>>
-----------------------------------------------------------------------------
(* startClaudeSubmissionAttempt and StartTurn.                             *)

\* bindClaudeSubmissionStartState
StartBind ==
  /\ starter.pc = "bind"
  /\ sess' = [sess EXCEPT !.op = starter.sub, !.thread = cli[starter.p].conv]
  /\ status' = [status EXCEPT ![starter.sub] = "running"]
  /\ starter' = [starter EXCEPT !.pc = "send"]
  /\ UNCHANGED <<desired, changes, serving, cli, configPending, wake, actor,
                 excused>>

\* SendMessage
StartSend ==
  /\ starter.pc = "send"
  /\ IF Running(starter.p)
     THEN /\ cli[starter.p].sent < MaxSends
          /\ cli' = [cli EXCEPT ![starter.p].sent = @ + 1]
          /\ starter' = [starter EXCEPT !.pc = "store", !.n = cli[starter.p].sent + 1]
     ELSE /\ starter' = [starter EXCEPT !.pc = "error"]
          /\ cli' = cli
  /\ UNCHANGED <<desired, changes, serving, configPending, sess, wake, actor,
                 status, excused>>

\* StartTurn stores the turn under state.Mu
StartStore ==
  /\ starter.pc = "store"
  /\ cli' = [cli EXCEPT ![starter.p].turns[starter.n] =
                [sub |-> starter.sub, suppress |-> TRUE]]
  /\ starter' = [starter EXCEPT !.pc = "ready"]
  /\ UNCHANGED <<desired, changes, serving, configPending, sess, wake, actor,
                 status, excused>>

\* waitForTurnReady: the process is ready, and has not stopped meanwhile
StartReady ==
  /\ starter.pc = "ready" /\ cli[starter.p].ready
  /\ IF Running(starter.p)
     THEN /\ cli' = [cli EXCEPT ![starter.p] =
               [@ EXCEPT !.preserve = FALSE, !.turns[starter.n].suppress = FALSE]]
          /\ Ended
     ELSE /\ starter' = [starter EXCEPT !.pc = "error"]
          /\ UNCHANGED <<cli, actor>>
  /\ UNCHANGED <<desired, changes, serving, configPending, sess, wake, status,
                 excused>>

\* The event loop of p waits for the actor
LoopWaits(p) == cli[p].loop.pc \in {"bind", "finish", "fail"}

\* Its context ends after 20 seconds: the process has not answered by then, or
\* cannot be heard.
StartTimeout ==
  /\ starter.pc = "ready" /\ ~cli[starter.p].ready
  /\ ~cli[starter.p].told \/ (actor /\ LoopWaits(starter.p))
  /\ starter' = [starter EXCEPT !.pc = "error"]
  /\ UNCHANGED <<desired, changes, serving, cli, configPending, sess, wake,
                 actor, status, excused>>

\* The attempt has failed.  A protected resume is rolled back and kept; another
\* resume is tried once with a fresh conversation; anything else is a failure.
StartError ==
  /\ starter.pc = "error"
  /\ \/ /\ starter.resume # NoConv /\ cli[starter.p].preserve
        /\ Defer /\ UNCHANGED wake
     \/ /\ starter.resume # NoConv /\ ~cli[starter.p].preserve
        /\ sess' = [sess EXCEPT !.op = NoSub, !.thread = NoConv]
        /\ starter' = [starter EXCEPT !.pc = "ensure", !.resume = NoConv]
        /\ status' = [status EXCEPT ![starter.sub] = "queued"]
        /\ UNCHANGED <<wake, actor>>
     \/ starter.resume = NoConv /\ Fail(sess.thread)
  /\ UNCHANGED <<desired, changes, serving, cli, configPending, excused>>
-----------------------------------------------------------------------------
(* runSession: the event loop of a process.  A handler with a transition   *)
(* of the session waits for the actor.                                     *)

Next1(p) == Head(cli[p].events)
Later(p) == Tail(cli[p].events)
CanTake(p) == cli[p].st # "new" /\ cli[p].loop.pc = "recv" /\ cli[p].events # <<>>

\* ReadyEvent: the conversation is named, then bound on the actor
LoopReady(p) ==
  /\ CanTake(p) /\ Next1(p).kind = "ready"
  /\ cli' = [cli EXCEPT ![p] =
       [@ EXCEPT !.events = Later(p), !.loop.pc = "bind",
                 !.conv = IF cli[p].conv = NoConv THEN p ELSE cli[p].conv]]
  /\ UNCHANGED <<desired, changes, serving, configPending, sess, starter, wake,
                 actor, status, excused>>

\* BindClaudeSessionThread; only then is ReadyCh closed
LoopBind(p) ==
  /\ cli[p].loop.pc = "bind" /\ ~actor
  /\ sess' = [sess EXCEPT !.thread = cli[p].conv]
  /\ cli' = [cli EXCEPT ![p] = [@ EXCEPT !.loop.pc = "recv", !.ready = TRUE]]
  /\ UNCHANGED <<desired, changes, serving, configPending, starter, wake, actor,
                 status, excused>>

\* TurnStartedEvent
LoopStarted(p) ==
  /\ CanTake(p) /\ Next1(p).kind = "started"
  /\ cli' = [cli EXCEPT ![p] =
       [@ EXCEPT !.events = Later(p), !.cur = Next1(p).n,
                 !.loop.pc = IF cli[p].turns[Next1(p).n] # Fresh THEN "bind" ELSE "recv"]]
  /\ UNCHANGED <<desired, changes, serving, configPending, sess, starter, wake,
                 actor, status, excused>>

\* handleTurnComplete under state.Mu: the turn leaves the table
Forget(r, n) ==
  [r EXCEPT !.turns[n] = Fresh, !.cur = IF @ = n THEN 0 ELSE @, !.interrupt = FALSE]

\* handleTurnComplete: a turn the starter has not stored yet, and a failure it
\* will see itself, end here; otherwise the answer is delivered and FinishTurn
\* waits for the actor
LoopComplete(p) ==
  /\ CanTake(p) /\ Next1(p).kind = "complete"
  /\ LET e == Next1(p)
         turn == cli[p].turns[e.n]
         silent == turn = Fresh \/ (turn.suppress /\ ~e.ok)
     IN  /\ cli' = [cli EXCEPT ![p] =
              [Forget(@, e.n) EXCEPT
                 !.events = Later(p),
                 !.loop = IF silent THEN cli[p].loop
                          ELSE [pc |-> "finish", sub |-> turn.sub, ok |-> e.ok]]]
         /\ excused' = excused \cup
              {s \in {starter.sub} : silent /\ starter.pc \in {"store", "ready"}
                                       /\ starter.p = p /\ starter.n = e.n}
  /\ UNCHANGED <<desired, changes, serving, configPending, sess, starter, wake,
                 actor, status>>

\* Mutant of Finish: a failed turn keeps its operation
FinishKeepsFailed(s, ok) ==
  /\ sess' = IF sess.op = s /\ ok THEN [sess EXCEPT !.op = NoSub] ELSE sess
  /\ status' = IF sess.op = s
               THEN [status EXCEPT ![s] = IF ok THEN "done" ELSE "failed"] ELSE status
  /\ wake' = (wake \/ (sess.op = s /\ sess.queue # <<>>))

\* FinishTurn: the operation of the submission ends, the next start is scheduled
Finish(s, ok) ==
  /\ IF sess.op = s
     THEN /\ sess' = [sess EXCEPT !.op = NoSub]
          /\ status' = [status EXCEPT ![s] = IF ok THEN "done" ELSE "failed"]
          /\ wake' = (wake \/ sess.queue # <<>>)
     ELSE UNCHANGED <<sess, status, wake>>

LoopFinish(p) ==
  /\ cli[p].loop.pc = "finish" /\ ~actor
  /\ Finish(cli[p].loop.sub, cli[p].loop.ok)
  /\ cli' = [cli EXCEPT ![p].loop.pc = "recv"]
  /\ UNCHANGED <<desired, changes, serving, configPending, starter, actor, excused>>

\* HandleSessionError: a dead process fails the work of the session
LoopError(p) ==
  /\ CanTake(p) /\ Next1(p).kind = "error"
  /\ cli' = [cli EXCEPT ![p] = [@ EXCEPT !.events = Later(p), !.loop.pc = "fail"]]
  /\ UNCHANGED <<desired, changes, serving, configPending, sess, starter, wake,
                 actor, status, excused>>

\* FailClaudeSessionActiveWork
LoopFail(p) ==
  /\ cli[p].loop.pc = "fail" /\ ~actor
  /\ Finish(sess.op, FALSE)
  /\ cli' = [cli EXCEPT ![p].loop.pc = "recv"]
  /\ UNCHANGED <<desired, changes, serving, configPending, starter, actor,
                 excused>>

\* A SessionState nobody but a starter refers to any more
Gone(r) == [NewCli EXCEPT !.st = "stopped", !.ready = TRUE, !.conv = r.conv,
                           !.preserve = r.preserve, !.loop.pc = "end"]

\* The events are over: ReadyCh is closed; cleanupStaleSessionOps reads the
\* operations of the session, whoever's they are
LoopOver(p) ==
  /\ cli[p].st = "stopped" /\ cli[p].loop.pc = "recv" /\ cli[p].events = <<>>
  /\ cli' = [cli EXCEPT ![p] =
       IF sess.op = NoSub THEN Gone(@)
       ELSE [@ EXCEPT !.ready = TRUE,
                      !.loop = [pc |-> "cleanup", sub |-> sess.op, ok |-> FALSE]]]
  /\ UNCHANGED <<desired, changes, serving, configPending, sess, starter, wake,
                 actor, status, excused>>

LoopCleanup(p) ==
  /\ cli[p].loop.pc = "cleanup" /\ ~actor
  /\ Finish(cli[p].loop.sub, FALSE)
  /\ cli' = [cli EXCEPT ![p] = Gone(@)]
  /\ UNCHANGED <<desired, changes, serving, configPending, starter, actor, excused>>
-----------------------------------------------------------------------------
(* external: the CLI.                                                      *)

\* it reports its conversation with the first message
CliReady(p) ==
  /\ Running(p) /\ cli[p].sent > 0 /\ ~cli[p].told
  /\ cli' = [cli EXCEPT ![p] =
       [@ EXCEPT !.told = TRUE,
                 !.events = Append(cli[p].events, Event("ready", 0, TRUE))]]
  /\ UNCHANGED <<desired, changes, serving, configPending, sess, starter, wake,
                 actor, status, excused>>

CliAnswers(p) ==
  /\ Running(p) /\ cli[p].told /\ cli[p].answered < cli[p].sent
  /\ \E ok \in BOOLEAN :
       LET n == cli[p].answered + 1 IN
         cli' = [cli EXCEPT ![p] =
           [@ EXCEPT !.answered = n,
                     !.events = cli[p].events \o <<Event("started", n, TRUE),
                                                    Event("complete", n, ok)>>]]
  /\ UNCHANGED <<desired, changes, serving, configPending, sess, starter, wake,
                 actor, status, excused>>

\* the process dies: the error is an event, then the events are closed
CliDies(p) ==
  /\ Running(p) /\ Cardinality({q \in Launches : cli[q].st = "stopped"}) < MaxDeaths
  /\ cli' = [cli EXCEPT ![p] =
       [@ EXCEPT !.st = "stopped",
                 !.events = Append(cli[p].events, Event("error", 0, FALSE))]]
  /\ UNCHANGED <<desired, changes, serving, configPending, sess, starter, wake,
                 actor, status, excused>>
-----------------------------------------------------------------------------
StartStep ==
  StartWoken \/ StartBegin \/ EnsureReuse \/ EnsureBlocked \/ EnsureHot
    \/ EnsureReset \/ EnsureLaunch \/ EnsureInit \/ EnsureFails \/ StartBind
    \/ StartSend \/ StartStore \/ StartReady \/ StartTimeout \/ StartError

LoopStep(p) ==
  LoopReady(p) \/ LoopBind(p) \/ LoopStarted(p) \/ LoopComplete(p)
    \/ LoopFinish(p) \/ LoopError(p) \/ LoopFail(p) \/ LoopOver(p)
    \/ LoopCleanup(p)

StartsNext ==
  \/ \E s \in Subs : Arrive(s)
  \/ \E d \in Settings : Change(d)
  \/ Interrupt \/ StartStep
  \/ \E p \in Launches : LoopStep(p) \/ CliReady(p) \/ CliAnswers(p) \/ CliDies(p)

StartsSpec == StartsInit /\ [][StartsNext]_startsVars
-----------------------------------------------------------------------------
\* A prompt is only sent to a process that runs with exactly the settings
\* EnsureSession resolved for it, whatever became of earlier attempts to apply
\* them (AppliedModelConfig.Valid, noteModelSettingsApplied).
PromptUsesSettings ==
  [][starter.pc = "send" /\ starter'.pc = "store"
       => cli[starter.p].real = starter.want]_startsVars

\* While a submission is active and no start is under way, some process still has
\* its turn, is about to finish it, or is dead and about to clean up after itself:
\* neither the end of a process, nor a restart for new settings, nor a retry
\* leaves an operation that nothing will end (handleTurnComplete,
\* cleanupStaleSessionOps, rollbackClaudeSubmissionStart).
RunningHasProcess ==
  (sess.op # NoSub /\ starter.pc = "idle" /\ sess.op \notin excused)
    => \E p \in Launches :
         \/ \E n \in Numbers : cli[p].turns[n].sub = sess.op
         \/ cli[p].loop.pc = "finish" /\ cli[p].loop.sub = sess.op
         \/ cli[p].st = "stopped" /\ cli[p].loop.pc # "end"
=============================================================================

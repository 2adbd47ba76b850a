------------------------------ MODULE ThreadWork ------------------------------
(***************************************************************************)
(* The turns of a Codex thread that no user input asked for: a standalone  *)
(* context compaction (application/compaction) and the turns the App       *)
(* Server starts by itself while the thread has an active goal             *)
(* (application/goal, adapter/feishu/goalcmd), beside the turns of user    *)
(* inputs on the same session.                                             *)
(*                                                                         *)
(* One session and its thread.  The notifications of the thread are        *)
(* dispatched one after the other (lane); /compact, /goal and the buttons  *)
(* of their cards run on goroutines of their own, so a request's response  *)
(* is taken in at any time.  SaveSession stores the whole session that was *)
(* loaded, UpdateSession changes the stored one.  The path of a user input *)
(* is SubmissionQueue's; here an input is created, started, bound and      *)
(* finished in one step each.                                              *)
(***************************************************************************)
EXTENDS Integers, Sequences, FiniteSets, SequencesExt

CONSTANTS
  Workers,        \* commands and card actions that may run at the same time
  Kinds,          \* what they may be
  Objectives,     \* texts of goals
  MaxCommands,    \* bound: commands and card actions
  MaxInputs,      \* bound: user inputs
  MaxTurns,       \* bound: turns of the thread
  MaxFailures,    \* bound: requests that fail, and messages that are not sent
  MaxDeaths,      \* bound: deaths of the App Server, 0 or 1
  DeathLast       \* its death is reported after all it sent is handled

VARIABLES
  sess,      \* the stored session: status, active operations, queue
  subs,      \* submissions: "queued", "running", "done", by number
  bound,     \* turnbinding.Tracker.Bindings: the submission of a turn
  noted,     \* goal.Tracker: the goal noted, the anchor, continuations so far
  shown,     \* cards with buttons in the chat
  notices,   \* what the user was told of compactions
  worker,    \* commands and card actions in progress
  handler,   \* the notification in progress
  lane,      \* notifications not handled yet
  goal,      \* the thread's goal in the App Server
  running,   \* the turn the App Server runs, and its kind
  requests,  \* compactions and turns the App Server has to run
  alive,     \* the App Server process: "up", "dead", "reported"
  commands, turns, failures

vars == <<sess, subs, bound, noted, shown, notices, worker, handler, lane, goal,
          running, requests, alive, commands, turns, failures>>
app == <<sess, subs, bound, notices>>
server == <<lane, goal, running, requests, alive, turns>>

None == "none"
Op(i, t) == [sub |-> i, turn |-> t]
NoGoal == [objective |-> None, status |-> None]
Idle == [pc |-> "idle", kind |-> None, rest |-> <<>>, goal |-> NoGoal, sess |-> [status |-> "idle"],
         reply |-> None]
Waiting == [pc |-> "idle", turn |-> 0, sess |-> [status |-> "idle"], notice |-> None]

HasActiveOperations(s) == s.ops # {}
HasActiveWork(s) == HasActiveOperations(s) \/ s.status \in {"compacting", "starting"}
OpOfTurn(s, t) == {o \in s.ops : t # 0 /\ o.turn = t}
Standalone(s, t) == {o \in OpOfTurn(s, t) : o.sub = 0}
PendingOp(s) == {o \in s.ops : o.sub # 0 /\ o.turn = 0}

RemoveActiveOperation(s, i, t) ==
  [s EXCEPT !.ops = {o \in @ : ~((i # 0 /\ o.sub = i) \/ (t # 0 /\ o.turn = t))}]

\* An operation of the same submission or turn is completed, not added.
UpsertActiveOperation(s, i, t) ==
  LET same == {o \in s.ops : (i # 0 /\ o.sub = i) \/ (t # 0 /\ o.turn = t)}
  IN [s EXCEPT !.ops = IF same = {} THEN @ \cup {Op(i, t)}
       ELSE (@ \ same) \cup {Op(IF i # 0 THEN i ELSE o.sub, IF t # 0 THEN t ELSE o.turn) : o \in same}]

RefreshPendingStatus(s) ==
  IF HasActiveOperations(s) THEN s ELSE [s EXCEPT !.status = IF s.queue # <<>> THEN "queued" ELSE "idle"]

RefreshActiveStatus(s) ==
  IF ~HasActiveOperations(s) THEN RefreshPendingStatus(s)
  ELSE [s EXCEPT !.status = IF \E o \in s.ops : o.turn # 0 THEN "turn" ELSE "starting"]

BindSession(s, i, t) == [UpsertActiveOperation(s, i, t) EXCEPT !.status = "turn"]

Init ==
  /\ sess = [status |-> "idle", ops |-> {}, queue |-> <<>>]
  /\ subs = <<>> /\ bound = [t \in {} |-> 0]
  /\ noted = [goal |-> NoGoal, context |-> FALSE, count |-> 0]
  /\ shown = {} /\ notices = <<>>
  /\ worker = [w \in Workers |-> Idle] /\ handler = Waiting
  /\ lane = <<>> /\ goal = NoGoal /\ running = [turn |-> 0, kind |-> None]
  /\ requests = <<>> /\ alive = "up"
  /\ commands = 0 /\ turns = 0 /\ failures = 0
-----------------------------------------------------------------------------
(* User inputs. *)

\* ShouldStartNextSubmission: the next input becomes an operation without a
\* turn and its turn/start is sent.
StartNext(s) == IF HasActiveOperations(s) \/ s.queue = <<>> THEN s
                ELSE [s EXCEPT !.queue = Tail(@), !.ops = {Op(Head(s.queue), 0)}, !.status = "starting"]

Started(s, q) == IF HasActiveOperations(s) \/ s.queue = <<>> THEN q
                 ELSE Append(q, [kind |-> "input", sub |-> Head(s.queue)])

EnqueueInput ==
  LET i == Len(subs) + 1
      s == [sess EXCEPT !.queue = Append(@, i)]
  IN /\ alive = "up" /\ Cardinality({k \in DOMAIN subs : subs[k].kind = "input"}) < MaxInputs
     /\ subs' = Append(subs, [kind |-> "input", status |-> IF HasActiveOperations(sess) THEN "queued" ELSE "running"])
     /\ requests' = Started(s, requests)
     /\ sess' = IF HasActiveOperations(sess) THEN s ELSE StartNext(s)
     /\ UNCHANGED <<bound, noted, shown, notices, worker, handler, lane, goal, running,
                    alive, commands, turns, failures>>

\* Finishing the turn of submission i: FinalizeSubmission, then the session,
\* whose next input starts unless the process is gone.
FinishSubmission(s, i, t) ==
  LET left == RefreshActiveStatus(RemoveActiveOperation(s, i, t))
      next == IF HasActiveOperations(left) \/ left.queue = <<>> \/ alive # "up" THEN 0 ELSE Head(left.queue)
  IN /\ sess' = IF next = 0 THEN left ELSE StartNext(left)
     /\ requests' = IF next = 0 THEN requests ELSE Started(left, requests)
     /\ subs' = [k \in DOMAIN subs |->
                   CASE k = i -> [subs[k] EXCEPT !.status = "done"]
                     [] k = next -> [subs[k] EXCEPT !.status = "running"]
                     [] OTHER -> subs[k]]
-----------------------------------------------------------------------------
(* The App Server, as far as this module needs it. *)

Notify(e) == lane' = Append(lane, e)
Event(what, t) == [what |-> what, turn |-> t, goal |-> NoGoal]
GoalEvent(g) == [what |-> "goal", turn |-> 0, goal |-> g]

\* A requested turn first; a turn of its own while an active goal is idle.
RunTurn ==
  LET t == turns + 1
  IN /\ alive = "up" /\ running.turn = 0 /\ turns < MaxTurns
     /\ IF requests # <<>>
        THEN /\ running' = [turn |-> t, kind |-> Head(requests).kind] /\ requests' = Tail(requests)
             \* the response to turn/start
             /\ LET i == Head(requests).sub
                IN IF i = 0 \/ subs[i].status = "done" THEN UNCHANGED <<sess, bound>>
                   ELSE /\ bound' = [x \in DOMAIN bound \cup {t} |-> IF x = t THEN i ELSE bound[x]]
                        /\ sess' = IF \E o \in PendingOp(sess) : o.sub = i THEN BindSession(sess, i, t) ELSE sess
        ELSE /\ goal.status = "active"
             /\ running' = [turn |-> t, kind |-> "goal"] /\ UNCHANGED <<requests, sess, bound>>
     /\ turns' = t /\ Notify(Event("started", t))
     /\ UNCHANGED <<subs, noted, shown, notices, worker, handler, goal, alive, commands, failures>>

\* A compaction is an item of its turn; an item may be left out when the
\* turn is interrupted or fails.  A turn of a goal may complete the goal.
EndTurn ==
  LET t == running.turn
  IN /\ alive = "up" /\ t # 0 /\ running' = [turn |-> 0, kind |-> None]
     /\ \E ok \in BOOLEAN :
          /\ lane' = lane \o
               CASE running.kind = "compact" /\ ok -> <<Event("item_started", t), Event("item_completed", t), Event("completed", t)>>
                 [] running.kind = "compact" -> <<Event("item_started", t), Event("error", t), Event("failed", t)>>
                 [] running.kind = "goal" /\ ok -> <<GoalEvent([goal EXCEPT !.status = "complete"]), Event("completed", t)>>
                 [] OTHER -> <<Event("completed", t)>>
          /\ goal' = IF running.kind = "goal" /\ ok /\ goal # NoGoal THEN [goal EXCEPT !.status = "complete"] ELSE goal
          /\ (running.kind = "goal" /\ ok) => goal # NoGoal
     /\ UNCHANGED <<sess, subs, bound, noted, shown, notices, worker, handler, requests,
                    alive, commands, turns, failures>>

\* What was written to the connection before may still be read.
Die ==
  /\ alive = "up" /\ MaxDeaths > 0 /\ alive' = "dead"
  /\ running' = [turn |-> 0, kind |-> None] /\ requests' = <<>>
  /\ UNCHANGED <<sess, subs, bound, noted, shown, notices, worker, handler, lane, goal,
                 commands, turns, failures>>
-----------------------------------------------------------------------------
(* Commands and card actions. *)

Set(o, status) == [what |-> "set", objective |-> o, status |-> status]
Get == [what |-> "get", objective |-> None, status |-> None]
Clear == [what |-> "clear", objective |-> None, status |-> None]
Compact == [what |-> "compact", objective |-> None, status |-> None]

\* EditedStatus: an edited goal keeps its status unless it had ended.  The
\* statuses "blocked" and "usage limited" are as "paused".
EditedStatus(g) == IF g.status \in {"active", "paused"} THEN g.status ELSE "active"

\* What a card shows, which is what its buttons send.
Card(kind, g, o) == [kind |-> kind, goal |-> g, objective |-> o]

Run(w, kind, calls, g) ==
  worker' = [worker EXCEPT ![w] = [Idle EXCEPT !.pc = "call", !.kind = kind, !.rest = calls, !.goal = g]]

Command(w) ==
  /\ alive = "up" /\ worker[w].pc = "idle" /\ commands < MaxCommands /\ commands' = commands + 1
  /\ \E kind \in Kinds :
       \/ kind = "status" /\ Run(w, kind, <<Get>>, NoGoal)
       \/ kind = "pause" /\ Run(w, kind, <<Set(None, "paused")>>, NoGoal)
       \/ kind = "resume" /\ Run(w, kind, <<Set(None, "active")>>, NoGoal)
       \/ kind = "clear" /\ Run(w, kind, <<Clear>>, NoGoal)
       \/ kind = "edit" /\ Run(w, kind, <<Get>>, NoGoal)
       \/ kind = "propose" /\ \E o \in Objectives : Run(w, kind, <<Get>>, [objective |-> o, status |-> "active"])
  /\ UNCHANGED <<sess, subs, bound, noted, shown, notices, handler, server, failures>>

Press(w) ==
  /\ alive = "up" /\ worker[w].pc = "idle" /\ commands < MaxCommands /\ commands' = commands + 1
  /\ \E c \in shown :
       \/ c.kind = "confirm" /\ Run(w, "confirm", <<Clear, Set(c.objective, "active")>>, NoGoal)
       \/ c.kind = "confirm" /\ Run(w, "status", <<Get>>, NoGoal)
       \/ c.kind = "edit" /\ \E o \in Objectives : Run(w, "submit", <<Set(o, EditedStatus(c.goal))>>, NoGoal)
       \/ c.kind = "goal" /\ c.goal.status = "active" /\ Run(w, "pause", <<Set(None, "paused")>>, NoGoal)
       \/ c.kind = "goal" /\ c.goal.status = "paused" /\ Run(w, "resume", <<Set(None, "active")>>, NoGoal)
       \/ c.kind = "goal" /\ Run(w, "clear", <<Clear>>, NoGoal)
       \/ c.kind = "goal" /\ Run(w, "edit", <<Get>>, NoGoal)
  /\ UNCHANGED <<sess, subs, bound, noted, shown, notices, handler, server, failures>>

\* StartThreadCompaction up to its SaveSession, which stores this snapshot.
CompactCommand(w) ==
  /\ alive = "up" /\ worker[w].pc = "idle" /\ commands < MaxCommands /\ "compact" \in Kinds
  /\ commands' = commands + 1
  /\ ~HasActiveWork(sess)
  /\ worker' = [worker EXCEPT ![w] = [Idle EXCEPT !.pc = "save", !.kind = "compact", !.rest = <<Compact>>,
                                        !.sess = sess]]
  /\ UNCHANGED <<sess, subs, bound, noted, shown, notices, handler, server, failures>>

MarkCompacting(w) ==
  /\ worker[w].pc = "save"
  /\ sess' = [worker[w].sess EXCEPT !.status = "compacting"]
  /\ worker' = [worker EXCEPT ![w].pc = "call"]
  /\ UNCHANGED <<subs, bound, noted, shown, notices, handler, server, commands, failures>>

\* The App Server takes the request, or it fails there, or only its response
\* is lost.
Answer(w) ==
  LET c == Head(worker[w].rest)
      after == CASE c.what = "set" -> [objective |-> IF c.objective = None THEN goal.objective ELSE c.objective,
                                       status |-> c.status]
                 [] c.what = "clear" -> NoGoal
                 [] OTHER -> goal
  IN /\ worker[w].pc = "call"
     /\ \/ /\ alive = "up" /\ (c.what = "set" /\ c.objective = None => goal # NoGoal)
           /\ goal' = after
           /\ lane' = IF after = goal THEN lane ELSE Append(lane, GoalEvent(after))
           /\ requests' = IF c.what = "compact" THEN Append(requests, [kind |-> "compact", sub |-> 0]) ELSE requests
           /\ \/ worker' = [worker EXCEPT ![w].pc = "answered", ![w].reply = after] /\ UNCHANGED failures
              \/ /\ failures < MaxFailures /\ failures' = failures + 1
                 /\ worker' = [worker EXCEPT ![w].pc = "failed"]
        \/ /\ alive # "up" \/ failures < MaxFailures \/ (c.what = "set" /\ c.objective = None /\ goal = NoGoal)
           /\ worker' = [worker EXCEPT ![w].pc = "failed"]
           /\ failures' = IF failures < MaxFailures THEN failures + 1 ELSE failures
           /\ UNCHANGED <<goal, lane, requests>>
     /\ UNCHANGED <<app, noted, shown, handler, running, alive, turns, commands>>

(* Mutant: a refused compaction leaves its status. *)
RestoreNothing(s, status) == s

\* RestoreSession: the status as it was, unless something runs or another
\* status took its place.
RestoreSession(s, status) ==
  IF HasActiveOperations(s) \/ s.status # "compacting" THEN s ELSE [s EXCEPT !.status = status]

RequestFailed(w) ==
  /\ worker[w].pc = "failed"
  /\ IF worker[w].kind = "compact"
     THEN /\ sess' = RestoreSession(sess, worker[w].sess.status)
          /\ notices' = Append(notices, "refused")
     ELSE UNCHANGED <<sess, notices>>
  /\ worker' = [worker EXCEPT ![w] = Idle]
  /\ UNCHANGED <<subs, bound, noted, shown, handler, server, commands, failures>>

NoteGoal(tr, g) == [tr EXCEPT !.goal = g]
ClearGoal(tr) == [tr EXCEPT !.goal = NoGoal, !.count = 0]
Noted(tr, g) == IF g = NoGoal THEN ClearGoal(tr) ELSE NoteGoal(tr, g)

\* RecordContext: the chat of the command, for the anchors to come.
RecordContext(tr) == [tr EXCEPT !.context = TRUE]

\* The card a command or an action ends with.
ResultCard(x) ==
  CASE x.kind = "propose" -> {Card("confirm", x.reply, x.goal.objective)}
    [] x.kind = "edit" /\ x.reply # NoGoal -> {Card("edit", x.reply, None)}
    [] x.kind \in {"status", "pause", "resume", "edit"} ->
         IF x.reply = NoGoal THEN {Card("edit", [NoGoal EXCEPT !.status = "active"], None)}
         ELSE {Card("goal", x.reply, None)}
    [] OTHER -> {}

\* ProposeObjective: an unfinished goal is kept until its replacement is
\* confirmed, a finished one is cleared first.
AfterGet(x) ==
  CASE x.kind # "propose" \/ x.reply.status \in {"active", "paused"} -> <<>>
    [] x.reply = NoGoal -> <<Set(x.goal.objective, "active")>>
    [] OTHER -> <<Clear, Set(x.goal.objective, "active")>>

TakeResponse(w) ==
  LET x == worker[w]
      c == Head(x.rest)
      rest == IF c.what = "get" THEN AfterGet(x) ELSE Tail(x.rest)
  IN /\ x.pc = "answered"
     /\ IF c.what = "compact"
        THEN UNCHANGED <<noted, shown>> /\ worker' = [worker EXCEPT ![w] = Idle]
        ELSE IF rest # <<>>
        THEN /\ noted' = Noted(noted, x.reply) /\ UNCHANGED shown
             /\ worker' = [worker EXCEPT ![w].pc = "call", ![w].rest = rest]
        ELSE /\ noted' = RecordContext(Noted(noted, x.reply))
             /\ shown' = shown \cup (IF c.what = "set" /\ x.kind = "propose" THEN {} ELSE ResultCard(x))
             /\ worker' = [worker EXCEPT ![w] = Idle]
     /\ UNCHANGED <<app, handler, server, commands, failures>>
-----------------------------------------------------------------------------
(* Notifications. *)

Next1 == Head(lane)
Handle(what) == handler.pc = "idle" /\ lane # <<>> /\ Next1.what = what
Took == lane' = Tail(lane) /\ UNCHANGED <<goal, running, alive, turns>>
Store(s, notice) == handler' = [Waiting EXCEPT !.pc = "save", !.sess = s, !.notice = notice]

\* BindStandaloneCompactTurn: does the turn belong to a compaction, and the
\* session with it bound.
Compacts(s, t) == Standalone(s, t) # {} \/ (~HasActiveOperations(s) /\ s.status = "compacting")
BindStandaloneCompactTurn(t) ==
  IF Standalone(sess, t) # {} THEN UNCHANGED handler
  ELSE Store([UpsertActiveOperation(sess, 0, t) EXCEPT !.status = "compacting"], None)

\* OnTurnStartedNotification: a pending submission, a compaction, a goal's
\* continuation, in this order.
TurnStarted ==
  LET t == Next1.turn
      pending == {o \in PendingOp(sess) : subs[o.sub].status = "running"}
  IN /\ Handle("started") /\ Took
     /\ CASE t \notin DOMAIN bound /\ pending # {} ->
               \E o \in pending : /\ bound' = [x \in DOMAIN bound \cup {t} |-> IF x = t THEN o.sub ELSE bound[x]]
                                  /\ sess' = BindSession(sess, o.sub, t) /\ UNCHANGED handler
          [] Compacts(sess, t) -> BindStandaloneCompactTurn(t) /\ UNCHANGED <<sess, bound>>
          [] noted.goal.status = "active" /\ ~HasActiveOperations(sess) ->
               handler' = [Waiting EXCEPT !.pc = "anchor", !.turn = t] /\ UNCHANGED <<sess, bound>>
          [] OTHER -> UNCHANGED <<sess, bound, handler>>
     /\ UNCHANGED <<subs, noted, shown, notices, worker, requests, commands, failures>>

\* SendContinuationAnchor: the card the turn's output will answer, numbered.
SendAnchor ==
  /\ handler.pc = "anchor"
  /\ noted' = [noted EXCEPT !.count = @ + 1]
  /\ \/ handler' = [handler EXCEPT !.pc = "bind"] /\ UNCHANGED failures
     \/ failures < MaxFailures /\ failures' = failures + 1 /\ handler' = Waiting
  /\ UNCHANGED <<app, shown, worker, server, commands>>

\* A submission of the goal's own, and its operation on the stored session.
BindGoalContinuationTurn ==
  LET t == handler.turn
      i == Len(subs) + 1
  IN /\ handler.pc = "bind" /\ handler' = Waiting
     /\ subs' = Append(subs, [kind |-> "goal", status |-> "running"])
     /\ sess' = BindSession(sess, i, t)
     /\ bound' = [x \in DOMAIN bound \cup {t} |-> IF x = t THEN i ELSE bound[x]]
     /\ UNCHANGED <<noted, shown, notices, worker, server, commands, failures>>

ItemStarted ==
  /\ Handle("item_started") /\ Took
  /\ IF Compacts(sess, Next1.turn) THEN BindStandaloneCompactTurn(Next1.turn) ELSE UNCHANGED handler
  /\ UNCHANGED <<app, noted, shown, worker, requests, commands, failures>>

\* Whether CompleteStandaloneCompactTurn and FailStandaloneCompactTurn act on
\* the session, and what they store.  Turn 0 is the empty turn id.
EndsCompaction(s, t) ==
  /\ \A o \in OpOfTurn(s, t) : o.sub = 0
  /\ t # 0 /\ OpOfTurn(s, t) = {} => ~HasActiveOperations(s)
  /\ s.status = "compacting" \/ HasActiveOperations(s)

CompactionEnded(s, t) ==
  LET found == {o \in s.ops : o.sub = 0}
      id == IF t # 0 \/ found = {} THEN t ELSE (CHOOSE o \in found : TRUE).turn
      left == RemoveActiveOperation(s, 0, id)
  IN [left EXCEPT !.status = IF left.queue # <<>> THEN "queued" ELSE "idle"]

CompleteStandaloneCompactItem ==
  /\ Handle("item_completed") /\ Took
  /\ IF EndsCompaction(sess, Next1.turn)
     THEN Store(CompactionEnded(sess, Next1.turn), "completed") ELSE UNCHANGED handler
  /\ UNCHANGED <<app, noted, shown, worker, requests, commands, failures>>

FailStandaloneCompactTurn ==
  /\ Handle("error") /\ Took
  /\ IF EndsCompaction(sess, Next1.turn)
     THEN Store(CompactionEnded(sess, Next1.turn), "failed") ELSE UNCHANGED handler
  /\ UNCHANGED <<app, noted, shown, worker, requests, commands, failures>>

\* SaveSession, then the notice.
SaveSession ==
  /\ handler.pc = "save"
  /\ sess' = handler.sess /\ handler' = Waiting
  /\ notices' = IF handler.notice = None THEN notices ELSE Append(notices, handler.notice)
  /\ UNCHANGED <<subs, bound, noted, shown, worker, server, commands, failures>>

\* FinishTurn: the turn's submission, or the one that waits for its turn, or
\* the compaction.
FinishTurn ==
  LET t == Next1.turn
      waiting == {o.sub : o \in {o \in PendingOp(sess) : subs[o.sub].status = "running"
                                                     /\ o.sub \notin {bound[x] : x \in DOMAIN bound}}}
  IN /\ (Handle("completed") \/ Handle("failed")) /\ Took
     /\ IF t \in DOMAIN bound
        THEN /\ UNCHANGED <<handler, bound>>
             /\ IF subs[bound[t]].status = "done" THEN UNCHANGED <<sess, subs, requests>>
                ELSE FinishSubmission(sess, bound[t], t)
        ELSE IF waiting # {}
        THEN \E i \in waiting : /\ FinishSubmission(BindSession(sess, i, t), i, t)
                                /\ bound' = [x \in DOMAIN bound \cup {t} |-> IF x = t THEN i ELSE bound[x]]
                                /\ UNCHANGED handler
        ELSE /\ UNCHANGED <<sess, subs, bound, requests>>
             /\ IF Standalone(sess, t) # {}
                THEN Store(CompactionEnded(sess, t), IF Next1.what = "failed" THEN "failed" ELSE "completed")
                ELSE UNCHANGED handler
     /\ UNCHANGED <<noted, shown, notices, worker, commands, failures>>

GoalNotified ==
  /\ Handle("goal") /\ Took
  /\ noted' = Noted(noted, Next1.goal)
  /\ UNCHANGED <<app, shown, worker, handler, requests, commands, failures>>

\* FailBackendActiveWork: submissions are failed first, the compaction last.
FailBackendActiveWork ==
  LET owned == {o \in sess.ops : o.sub # 0}
      left == [sess EXCEPT !.ops = @ \ owned]
      s == IF owned = {} THEN sess ELSE RefreshActiveStatus(left)
      standalone == {o \in sess.ops : o.sub = 0}
      t == IF standalone = {} THEN 0 ELSE (CHOOSE o \in standalone : TRUE).turn
  IN /\ alive = "dead" /\ alive' = "reported"
     /\ (DeathLast => lane = <<>> /\ handler.pc = "idle")
     /\ subs' = [k \in DOMAIN subs |-> IF \E o \in owned : o.sub = k THEN [subs[k] EXCEPT !.status = "done"] ELSE subs[k]]
     /\ IF (standalone # {} \/ sess.status = "compacting") /\ EndsCompaction(s, t)
        THEN sess' = CompactionEnded(s, t) /\ notices' = Append(notices, "failed")
        ELSE sess' = s /\ UNCHANGED notices
     /\ UNCHANGED <<bound, noted, shown, worker, handler, lane, goal, running, requests,
                    commands, turns, failures>>
-----------------------------------------------------------------------------
Next ==
  \/ EnqueueInput \/ RunTurn \/ EndTurn \/ Die
  \/ \E w \in Workers : \/ Command(w) \/ Press(w) \/ CompactCommand(w) \/ MarkCompacting(w)
                        \/ Answer(w) \/ RequestFailed(w) \/ TakeResponse(w)
  \/ TurnStarted \/ SendAnchor \/ BindGoalContinuationTurn \/ ItemStarted
  \/ CompleteStandaloneCompactItem \/ FailStandaloneCompactTurn \/ SaveSession
  \/ FinishTurn \/ GoalNotified \/ FailBackendActiveWork

Spec == Init /\ [][Next]_vars
-----------------------------------------------------------------------------
Quiet ==
  /\ alive # "dead" /\ running.turn = 0 /\ requests = <<>> /\ lane = <<>> /\ handler.pc = "idle"
  /\ \A w \in Workers : worker[w].pc = "idle"

(* When the App Server has run everything it was asked for and everything  *)
(* it reported is handled, nothing of it is left on the session: no active *)
(* operation and no "compacting", either of which would refuse the next    *)
(* compaction, a new thread and a switch for good.                         *)
ThreadSettles == Quiet => sess.ops = {} /\ sess.status \in {"idle", "queued"}
=============================================================================

----------------------------- MODULE ClaudeTasks -----------------------------
(***************************************************************************)
(* Background tasks of a Claude session (runtime/claude/service.go): the   *)
(* table BackgroundTasks that task_started, task_updated,                  *)
(* task_notification and background_tasks_changed maintain, the            *)
(* destination that is captured when a task starts, and the attribution of *)
(* a permission request of a subagent.  The CLI "does not guarantee        *)
(* snapshot/bookend ordering": after a task has started its frames come in *)
(* any order.                                                              *)
(***************************************************************************)
EXTENDS Integers, FiniteSets

CONSTANTS
  Tasks,      \* tasks of the CLI
  MaxTurns,   \* bound: turns
  MaxFrames   \* bound: snapshots and updates

VARIABLES
  turn,    \* CurrentTurnNumber's turn, 0 between turns
  last,    \* turns so far
  task,    \* BackgroundTasks: NoEntry or an entry
  cli,     \* what the CLI has done with a task: "no", "runs", "over"
  origin,  \* history: where a task was started
  told,    \* history: the destinations a task's end was announced to
  frames,  \* bound for the above
  agents   \* PendingBackgroundAgentCount is positive

vars == <<turn, last, task, cli, origin, told, frames, agents>>

\* A destination: the submission of a turn, the session's own chat, or none
Session == 0
Nowhere == -1
Places == {Nowhere, Session} \cup 1 .. MaxTurns
NoEntry == [known |-> FALSE, target |-> Nowhere, live |-> FALSE,
            notified |-> FALSE, bg |-> FALSE]

TypeOK ==
  /\ turn \in 0 .. MaxTurns /\ last \in 0 .. MaxTurns
  /\ task \in [Tasks -> [known : BOOLEAN, target : Places, live : BOOLEAN,
                         notified : BOOLEAN, bg : BOOLEAN]]
  /\ cli \in [Tasks -> {"no", "runs", "over"}]
  /\ origin \in [Tasks -> Places] /\ told \in [Tasks -> SUBSET (Places \X {0, 1})]
  /\ frames \in 0 .. MaxFrames /\ agents \in BOOLEAN

Init ==
  /\ turn = 0 /\ last = 0
  /\ task = [t \in Tasks |-> NoEntry] /\ cli = [t \in Tasks |-> "no"]
  /\ origin = [t \in Tasks |-> Nowhere] /\ told = [t \in Tasks |-> {}]
  /\ frames = 0 /\ agents = FALSE
-----------------------------------------------------------------------------
TurnStarts ==
  /\ turn = 0 /\ last < MaxTurns
  /\ turn' = last + 1 /\ last' = last + 1
  /\ UNCHANGED <<task, cli, origin, told, frames, agents>>

\* TurnDurationEvent and TurnCompleteEvent: the counts of the last turn are kept
HandleTurnDuration ==
  /\ turn # 0 /\ turn' = 0
  /\ agents' = \E t \in Tasks : cli[t] = "runs"
  /\ UNCHANGED <<last, task, cli, origin, told, frames>>

\* Mutant of Destination: a task without a turn goes to the running one
DestinationCurrent == IF last > 0 THEN last ELSE Session

\* recordBackgroundTaskStarted: the turn it started in, or the session itself
Destination == IF turn # 0 THEN turn ELSE Session

\* task_started; a resumed task starts again
TaskStarted(t) ==
  /\ cli[t] # "runs"
  /\ cli' = [cli EXCEPT ![t] = "runs"]
  /\ \E bg \in BOOLEAN :
       task' = [task EXCEPT ![t] = [known |-> TRUE, target |-> Destination,
                                    live |-> TRUE, notified |-> FALSE, bg |-> bg]]
  /\ origin' = [origin EXCEPT ![t] = IF turn # 0 THEN turn ELSE Session]
  /\ told' = [told EXCEPT ![t] = {}]
  /\ UNCHANGED <<turn, last, frames, agents>>

\* task_updated: the task was sent to the background
UpdateBackgroundTask(t) ==
  /\ cli[t] = "runs" /\ task[t].known /\ ~task[t].bg /\ frames < MaxFrames
  /\ frames' = frames + 1
  /\ task' = [task EXCEPT ![t].bg = TRUE]
  /\ UNCHANGED <<turn, last, cli, origin, told, agents>>

\* The CLI ends the task; its snapshot and its notification follow in any order
TaskEnds(t) ==
  /\ cli[t] = "runs"
  /\ cli' = [cli EXCEPT ![t] = "over"]
  /\ UNCHANGED <<turn, last, task, origin, told, frames, agents>>

\* task_notification, which the CLI may repeat
NotifyBackgroundTaskCompleted(t) ==
  /\ cli[t] = "over" /\ task[t].known
  /\ ~task[t].notified
  /\ \E bg \in BOOLEAN :
       /\ task[t].bg \/ bg
       /\ task' = [task EXCEPT ![t].notified = TRUE, ![t].bg = TRUE]
  /\ told' = IF task[t].target = Nowhere THEN told
             ELSE [told EXCEPT ![t] = @ \cup {<<task[t].target, Cardinality(@)>>}]
  /\ UNCHANGED <<turn, last, cli, origin, frames, agents>>

\* Mutant of Reconciled: what is not live is forgotten
ReconciledStrictly(t, live) ==
  IF t \in live
  THEN [task[t] EXCEPT !.known = TRUE, !.live = TRUE,
                       !.target = IF task[t].known THEN @ ELSE Nowhere]
  ELSE NoEntry

\* A live task without an entry gets one without a destination; an entry that is
\* not live stays until it was notified
Reconciled(t, live) ==
  IF t \in live
  THEN [task[t] EXCEPT !.known = TRUE, !.live = TRUE,
                       !.target = IF task[t].known THEN @ ELSE Nowhere]
  ELSE IF ~task[t].known \/ task[t].notified THEN NoEntry
       ELSE [task[t] EXCEPT !.live = FALSE]

\* background_tasks_changed: the full set of live tasks, possibly an old one
HandleBackgroundTasksChanged ==
  /\ frames < MaxFrames /\ frames' = frames + 1
  /\ \E live \in SUBSET {t \in Tasks : cli[t] # "no"} :
       /\ {t \in Tasks : cli[t] = "runs"} \subseteq live
       /\ task' = [t \in Tasks |-> Reconciled(t, live)]
       /\ agents' = (agents /\ live # {})
  /\ UNCHANGED <<turn, last, cli, origin, told>>
-----------------------------------------------------------------------------
Next ==
  \/ TurnStarts \/ HandleTurnDuration \/ HandleBackgroundTasksChanged
  \/ \E t \in Tasks : \/ TaskStarted(t) \/ UpdateBackgroundTask(t) \/ TaskEnds(t)
                      \/ NotifyBackgroundTaskCompleted(t)

Spec == Init /\ [][Next]_vars
-----------------------------------------------------------------------------
\* A task that runs, or whose end has not been announced, keeps the destination
\* it was started with through every order of snapshots, updates and turns:
\* backgroundTaskTargetForAgent and the notification go to the conversation that
\* produced it.
TargetKept ==
  \A t \in Tasks :
    (cli[t] = "runs" \/ (cli[t] = "over" /\ told[t] = {}))
       => task[t].known /\ task[t].target = origin[t]

\* The end of a background task is announced at most once per start, to the
\* turn or the session it started in.
AnnouncedOnce ==
  \A t \in Tasks : told[t] \subseteq {<<origin[t], 0>>}
=============================================================================

-------------------------- MODULE WorkspaceLifecycle --------------------------
(***************************************************************************)
(* Workspaces are machine-wide definitions of the configuration file;      *)
(* sessions, group bindings and the bot's profile refer to them by id from *)
(* the state file.  Chats switch, create and delete them concurrently      *)
(* (application/workspace/lifecycle.go, selection.go, configuration.go,    *)
(* adapter/config/workspace_lifecycle.go, workspaces.go,                   *)
(* state/workspace_lifecycle.go).                                          *)
(*                                                                         *)
(* Each chat has an actor, which runs its commands and its turns; two      *)
(* chats run beside each other.  A change is decided on a snapshot of the  *)
(* references and committed only when they still equal the snapshot.       *)
(***************************************************************************)
EXTENDS Naturals, Sequences, FiniteSets, FiniteSetsExt, SequencesExt

CONSTANTS
  Private,      \* private chats
  Groups,       \* group chats, each with the bot's binding
  Initial,      \* ids of the workspaces configured at first
  Fresh,        \* ids that may be created
  MaxInputs,    \* bound: messages enqueued
  MaxChanges,   \* bound: switches, creations and deletions asked for
  MaxFailures   \* bound: failed writes and crashes

VARIABLES
  config,     \* ids of the configured workspaces
  sessions,   \* the session of each chat
  selection,  \* the ":workspace" record of each private chat
  profile,    \* BotProfile.WorkspaceID
  binding,    \* AgentBinding.WorkspaceID of each group
  op,         \* the change a chat's actor carries out
  count       \* bounds

lifecycleVars == <<config, sessions, selection, profile, binding, op, count>>

Chats == Private \cup Groups
None == 0
NoChange == [pc |-> "idle", w |-> None, seen |-> <<>>, fallback |-> None, unbind |-> FALSE]
NewSession == [ws |-> None, thread |-> None, parked |-> {}, running |-> None, queue |-> <<>>]

\* LifecycleState: everything that refers to a workspace
References == <<sessions, selection, profile, binding>>

LifecycleInit ==
  /\ config = Initial
  /\ sessions = [c \in Chats |-> NewSession]
  /\ selection = [c \in Private |-> None] /\ profile = None
  /\ binding = [g \in Groups |-> None]
  /\ op = [c \in Chats |-> NoChange]
  /\ count = [inputs |-> 0, changes |-> 0, failures |-> 0]

Count(f) == count' = [count EXCEPT ![f] = @ + 1]
Default == Min(Initial)

FirstOf(candidates) ==
  LET set == SelectSeq(candidates, LAMBDA w : w # None)
  IN  IF set = <<>> THEN None ELSE Head(set)

\* SelectionService.Resolve: the chat's own selection, the bot's profile (in a
\* private chat), the session's workspace, the default
Resolve(c) ==
  FirstOf(IF c \in Private
          THEN <<selection[c], profile, sessions[c].ws, Default>>
          ELSE <<sessions[c].ws, Default>>)

\* the workspace of a submission: a group's is that of its binding
InputWorkspace(c) == IF c \in Groups THEN binding[c] ELSE Resolve(c)

HasWork(s) == s.running # None \/ s.queue # <<>>
SwitchBlocked(s) == HasWork(s)

ReferencesWorkspace(s, w) == s.ws = w \/ s.thread = w \/ w \in s.parked

\* conversation.SwitchSessionWorkspace, of a session without a turn
SwitchSessionWorkspace(s, w) ==
  [s EXCEPT !.ws = w,
            !.thread = IF s.running = None THEN None ELSE @,
            !.parked = IF s.running = None THEN {} ELSE @]

----------------------------------------------------------------------------
\* Turns

\* Enqueue: the submission carries the workspace it is to run in; the session
\* takes one only when it has none
Input(c) ==
  /\ op[c] = NoChange /\ count.inputs < MaxInputs /\ Count("inputs")
  /\ InputWorkspace(c) # None
  /\ sessions' = [sessions EXCEPT ![c].queue = Append(@, InputWorkspace(c)),
                                  ![c].ws = IF @ = None THEN InputWorkspace(c) ELSE @]
  /\ UNCHANGED <<config, selection, profile, binding, op>>

\* a submission starts: its thread is bound, in the workspace it carries, or
\* it ends when that workspace is not configured any more
StartTurn(c) ==
  LET s == sessions[c] IN
  /\ op[c] = NoChange /\ s.running = None /\ s.queue # <<>>
  /\ sessions' =
       [sessions EXCEPT ![c] =
          IF Head(s.queue) \in config
          THEN [s EXCEPT !.queue = Tail(@), !.running = Head(s.queue),
                         !.ws = Head(s.queue), !.thread = Head(s.queue)]
          ELSE [s EXCEPT !.queue = Tail(@)]]
  /\ UNCHANGED <<config, selection, profile, binding, op, count>>

FinishTurn(c) ==
  /\ sessions[c].running # None
  /\ sessions' = [sessions EXCEPT ![c].running = None]
  /\ UNCHANGED <<config, selection, profile, binding, op, count>>

\* a change of backend keeps the thread of the one it leaves
ParkThread(c) ==
  LET s == sessions[c] IN
  /\ op[c] = NoChange /\ ~ HasWork(s) /\ s.thread # None
  /\ sessions' = [sessions EXCEPT ![c].parked = @ \cup {s.thread}, ![c].thread = None]
  /\ UNCHANGED <<config, selection, profile, binding, op, count>>

----------------------------------------------------------------------------
\* Lifecycle.Switch

Change(c) == op[c] = NoChange /\ count.changes < MaxChanges /\ Count("changes")
Enter(c, o) == op' = [op EXCEPT ![c] = o]
Refuse(c) == Enter(c, NoChange) /\ UNCHANGED <<config, References, count>>

AskSwitch(c, w) ==
  /\ Change(c) /\ Enter(c, [NoChange EXCEPT !.pc = "switch", !.w = w])
  /\ UNCHANGED <<config, References>>

\* GroupService.Unbind
AskUnbind(g) ==
  /\ Change(g) /\ Enter(g, [NoChange EXCEPT !.pc = "switch", !.unbind = TRUE])
  /\ UNCHANGED <<config, References>>

\* CreateAndSwitch: the definition is kept when the switch fails
Create(c, w) ==
  /\ Change(c) /\ w \notin config
  /\ c \in Groups \/ ~ SwitchBlocked(sessions[c])
  /\ config' = config \cup {w}
  /\ Enter(c, [NoChange EXCEPT !.pc = "switch", !.w = w])
  /\ UNCHANGED References

BindingOnly(c) == c \in Groups /\ ~ op[c].unbind

\* the snapshot, and the refusal of a session that has work
SwitchRead(c) ==
  /\ op[c].pc = "switch"
  /\ IF (~ BindingOnly(c) /\ SwitchBlocked(sessions[c]))
        \/ (op[c].unbind /\ binding[c] = None)
     THEN Refuse(c)
     ELSE /\ Enter(c, [op[c] EXCEPT !.pc = IF op[c].unbind THEN "commit" ELSE "get",
                                   !.seen = References])
          /\ UNCHANGED <<config, References, count>>

\* Configuration.Repository.Get
SwitchGet(c) ==
  /\ op[c].pc = "get"
  /\ IF op[c].w \in config
     THEN /\ Enter(c, [op[c] EXCEPT !.pc = "commit"])
          /\ UNCHANGED <<config, References, count>>
     ELSE Refuse(c)

\* LifecycleChange of a switch: a group changes its binding, and its session
\* only to unbind; a private chat its session, its selection and the profile
Switched(c) ==
  LET w == op[c].w IN
  /\ sessions' = IF BindingOnly(c) THEN sessions
                 ELSE [sessions EXCEPT ![c] = SwitchSessionWorkspace(@, w)]
  /\ binding' = IF c \in Groups THEN [binding EXCEPT ![c] = w] ELSE binding
  /\ selection' = IF c \in Private THEN [selection EXCEPT ![c] = w] ELSE selection
  /\ profile' = IF c \in Private THEN w ELSE profile

\* Store.CommitWorkspace: nothing may have changed since the snapshot
CommitAny(c) == TRUE
CommitAllowed(c) == References = op[c].seen

SwitchCommit(c) ==
  /\ op[c].pc = "commit" /\ UNCHANGED config
  /\ IF CommitAllowed(c)
     THEN \/ Switched(c) /\ UNCHANGED count
             /\ Enter(c, IF c \in Private THEN [op[c] EXCEPT !.pc = "bind"] ELSE NoChange)
          \/ /\ count.failures < MaxFailures /\ Count("failures")   \* saveLocked failed
             /\ Enter(c, NoChange) /\ UNCHANGED References
     ELSE Refuse(c)

\* EffectService.Bind: BindingCandidate looks at the current state again, and
\* the thread is saved after the backend's answer
BindRead(c) ==
  /\ op[c].pc = "bind"
  /\ IF SwitchBlocked(sessions[c]) \/ sessions[c].ws # op[c].w
        \/ sessions[c].thread = op[c].w \/ op[c].w \notin config
     THEN Refuse(c)
     ELSE Enter(c, [op[c] EXCEPT !.pc = "bound"]) /\ UNCHANGED <<config, References, count>>

BindSave(c) ==
  /\ op[c].pc = "bound" /\ Enter(c, NoChange)
  /\ sessions' = [sessions EXCEPT ![c].ws = op[c].w, ![c].thread = op[c].w]
  /\ UNCHANGED <<config, selection, profile, binding, count>>

----------------------------------------------------------------------------
\* Lifecycle.Delete

AskDelete(c, w) ==
  /\ Change(c) /\ w \in config /\ Cardinality(config) > 1
  /\ Enter(c, [NoChange EXCEPT !.pc = "delete", !.w = w, !.fallback = Min(config \ {w})])
  /\ UNCHANGED <<config, References>>

\* deletion: the current workspace, one with work, and one a group is bound to stay
DeleteRefused(c, w) ==
  \/ w = Resolve(c)
  \/ \E d \in Chats : ReferencesWorkspace(sessions[d], w) /\ SwitchBlocked(sessions[d])
  \/ \E g \in Groups : binding[g] = w

DeleteRead(c) ==
  /\ op[c].pc = "delete"
  /\ IF DeleteRefused(c, op[c].w) THEN Refuse(c)
     ELSE /\ Enter(c, [op[c] EXCEPT !.pc = "remove", !.seen = References])
          /\ UNCHANGED <<config, References, count>>

\* a session that refers to the workspace moves to the fallback, or loses its thread
Cleaned(s, w, fallback) ==
  LET moved == CASE s.ws = w     -> SwitchSessionWorkspace(s, fallback)
                 [] s.ws # w /\ s.thread = w -> [s EXCEPT !.thread = None]
                 [] OTHER        -> s
  IN  [moved EXCEPT !.parked = @ \ {w}]

Removed(c) ==
  LET w == op[c].w
      moved(x) == IF x = w THEN op[c].fallback ELSE x
  IN  /\ sessions' = [d \in Chats |-> Cleaned(sessions[d], w, op[c].fallback)]
      /\ selection' = [d \in Private |-> moved(selection[d])]
      /\ profile' = moved(profile)
      /\ UNCHANGED binding

\* WorkspaceLifecycleRepository.Commit: under both locks, the state file first
DeleteAllowed(c) ==
  /\ {op[c].w, op[c].fallback} \subseteq config /\ Cardinality(config) > 1
  /\ CommitAllowed(c)

DeleteCommit(c) ==
  /\ op[c].pc = "remove"
  /\ IF DeleteAllowed(c)
     THEN \/ Removed(c) /\ config' = config \ {op[c].w} /\ Enter(c, NoChange) /\ UNCHANGED count
          \/ /\ count.failures < MaxFailures /\ Count("failures")   \* a write failed: restored
             /\ Enter(c, NoChange) /\ UNCHANGED <<config, References>>
     ELSE Refuse(c)

\* the process ends between the two files: the definition stays, unused
CrashBetweenFiles(c) ==
  /\ op[c].pc = "remove" /\ DeleteAllowed(c)
  /\ count.failures < MaxFailures /\ Count("failures")
  /\ Removed(c) /\ UNCHANGED config
  /\ op' = [d \in Chats |-> NoChange]

LifecycleNext ==
  \/ \E c \in Chats :
       \/ Input(c) \/ StartTurn(c) \/ FinishTurn(c) \/ ParkThread(c)
       \/ \E w \in Initial \cup Fresh : AskSwitch(c, w)
       \/ \E w \in Fresh : Create(c, w)
       \/ SwitchRead(c) \/ SwitchGet(c) \/ SwitchCommit(c) \/ BindRead(c) \/ BindSave(c)
       \/ \E w \in Initial \cup Fresh : AskDelete(c, w)
       \/ DeleteRead(c) \/ DeleteCommit(c) \/ CrashBetweenFiles(c)
  \/ \E g \in Groups : AskUnbind(g)

LifecycleSpec == LifecycleInit /\ [][LifecycleNext]_lifecycleVars

----------------------------------------------------------------------------
\* A definition is removed only while no session that refers to it has a turn
\* or a queue, and no group is bound to it, whatever the other chats did after
\* the deletion was validated (lifecycle.go, CommitWorkspace's Expected).
DeletionRespectsWork ==
  [][\A w \in config \ config' :
       /\ \A c \in Chats : HasWork(sessions[c]) => ~ ReferencesWorkspace(sessions[c], w)
       /\ \A g \in Groups : binding[g] # w]_lifecycleVars

\* No queued submission waits for a workspace that was removed: the deletion
\* is refused while a workspace has pending work (lifecycle.go:223).
QueuedWorkKeepsWorkspace ==
  \A c \in Chats : \A i \in DOMAIN sessions[c].queue : sessions[c].queue[i] \in config

\* No session, selection, profile or binding names a removed workspace
\* (state/workspace_lifecycle.go: "no removed target is used").
NoRemovedTargetUsed ==
  /\ profile \in config \cup {None}
  /\ \A c \in Chats : {sessions[c].ws, sessions[c].thread} \subseteq config \cup {None}
  /\ \A c \in Private : selection[c] \in config \cup {None}
  /\ \A g \in Groups : binding[g] \in config \cup {None}
=============================================================================

----------------------------- MODULE GroupBindings -----------------------------
(***************************************************************************)
(* The binding of a bot to a workspace in one group: messages that arrive  *)
(* before a workspace is chosen are stored in the binding, and enqueued    *)
(* once it is (application/routing/pending.go, configuration.go,           *)
(* application/workspace/lifecycle.go and effects.go,                      *)
(* runtime/binding_replay.go, effect_runner.go, effect_deduper.go).        *)
(*                                                                         *)
(* Who runs beside whom follows from the actor keys: messages of the group *)
(* and commands share the actor of the chat; an expanded forward runs in a *)
(* task of its own; a card's action runs on the actor of its session;      *)
(* a recall on an actor named after the bare chat id; the replay on one of *)
(* its own.  Only the store's revision lock makes an update atomic.        *)
(***************************************************************************)
EXTENDS Integers, Sequences, FiniteSets, SequencesExt

CONSTANTS
  Messages,      \* ordinary messages of the group, in the order they are sent
  MaxSelections, \* bound: workspaces chosen, unbound ones included
  MaxSettings,   \* bound: other settings changed in the binding
  MaxFailures,   \* bound: failed replies and enqueues
  MaxCrashes     \* bound: restarts of the process

VARIABLES
  binding,    \* the stored binding
  inbox,      \* messages not handled yet
  chat,       \* the chat's actor: a message or a command
  forward,    \* the task of an expanded forward
  card,       \* the action on a workspace card
  replays,    \* replays posted and not begun
  replay,     \* BindingReplay.Replay: step and head
  completed,  \* MemoryEffectDeduper.completed
  enqueued,   \* EnqueueSubmission's calls, in order
  count,      \* bounds
  stored,     \* history: messages stored, in order
  recalled,   \* history: messages recalled
  replayed    \* history: messages the replay enqueued, in order

vars == <<binding, inbox, chat, forward, card, replays, replay, completed,
          enqueued, count, stored, recalled, replayed>>

NoBinding == [exists |-> FALSE, active |-> FALSE, ws |-> FALSE, rev |-> 0, pending |-> <<>>]
Idle == [pc |-> "idle", m |-> 0, snap |-> NoBinding]

Init ==
  /\ binding = NoBinding /\ inbox = Messages
  /\ chat = Idle /\ forward = Idle /\ card = Idle
  /\ replays = 0 /\ replay = [pc |-> "idle", m |-> 0] /\ completed = {}
  /\ enqueued = <<>> /\ stored = <<>> /\ recalled = {} /\ replayed = <<>>
  /\ count = [selections |-> 0, settings |-> 0, failures |-> 0, crashes |-> 0]

Count(f) == count' = [count EXCEPT ![f] = @ + 1]
Fails == count.failures < MaxFailures /\ Count("failures")
Works == UNCHANGED count

BindingReady(b) == b.exists /\ b.active /\ b.ws

\* EnsureBinding: the record is created when there is none
Ensured(b) == [b EXCEPT !.exists = TRUE]

\* UpdateBinding on the latest record: a workspace makes it active
Updated(b) == [b EXCEPT !.exists = TRUE, !.active = @ \/ b.ws, !.rev = @ + 1]

\* PendingFromMessage keeps all a replay needs, MessageFromPending gives it back
Stored(b, m) == [b EXCEPT !.pending = Append(@, m)]
FirstStored(b) == Head(b.pending)
-----------------------------------------------------------------------------
(* A message: pendingGroupMessageGate.Handle, then the queue.              *)

\* Steps of a message; they run for the chat's actor and for the forward task
GateStep(p, q) ==
  \/ /\ p.pc = "gate"          \* Gate reads the binding and creates it if needed
     /\ binding' = Ensured(binding)
     /\ q = [p EXCEPT !.pc = IF BindingReady(binding') THEN "enqueue" ELSE "store"]
     /\ Works /\ UNCHANGED <<enqueued, stored>>
  \/ /\ p.pc = "store"         \* UpdateBinding appends to the latest record
     /\ binding' = Updated(Stored(binding, p.m))
     /\ stored' = Append(stored, p.m)
     /\ q = [p EXCEPT !.pc = "reply"]
     /\ Works /\ UNCHANGED enqueued
  \/ /\ p.pc = "reply"         \* the workspace card; a failure releases the claim
     /\ Works \/ Fails
     /\ q = Idle
     /\ UNCHANGED <<binding, enqueued, stored>>
  \/ /\ p.pc = "enqueue"
     /\ \/ Works /\ enqueued' = Append(enqueued, p.m)
        \/ Fails /\ UNCHANGED enqueued
     /\ q = Idle
     /\ UNCHANGED <<binding, stored>>

ChatBegin ==
  /\ chat.pc = "idle" /\ inbox # <<>>
  /\ chat' = [Idle EXCEPT !.pc = "gate", !.m = Head(inbox)]
  /\ inbox' = Tail(inbox)
  /\ UNCHANGED <<binding, forward, card, replays, replay, completed, enqueued,
                 count, stored, recalled, replayed>>

\* A merged forward leaves the actor while it is fetched
ForwardBegin ==
  /\ forward.pc = "idle" /\ chat.pc = "idle" /\ inbox # <<>>
  /\ forward' = [Idle EXCEPT !.pc = "gate", !.m = Head(inbox)]
  /\ inbox' = Tail(inbox)
  /\ UNCHANGED <<binding, chat, card, replays, replay, completed, enqueued,
                 count, stored, recalled, replayed>>

ChatStep ==
  /\ chat' \in {[chat EXCEPT !.pc = s] : s \in {"store", "reply", "enqueue"}} \cup {Idle}
  /\ GateStep(chat, chat')
  /\ UNCHANGED <<inbox, forward, card, replays, replay, completed, recalled, replayed>>

ForwardStep ==
  /\ forward' \in {[forward EXCEPT !.pc = s] : s \in {"store", "reply", "enqueue"}} \cup {Idle}
  /\ GateStep(forward, forward')
  /\ UNCHANGED <<inbox, chat, card, replays, replay, completed, recalled, replayed>>
-----------------------------------------------------------------------------
(* Choosing and releasing a workspace.                                     *)

Selecting == {"select", "unbind"}

\* Lifecycle.Switch reads the whole state; releasing needs a bound workspace
\* (and an idle session, which is left open here)
SelectBegin(p, q) ==
  /\ p.pc = "idle" /\ count.selections < MaxSelections
  /\ \E s \in Selecting :
       /\ s = "unbind" => binding.ws
       /\ q = [pc |-> s, m |-> 0, snap |-> Ensured(binding)]
  /\ binding' = Ensured(binding)
  /\ Count("selections")
  /\ UNCHANGED replays

\* Mutant of SelectCommit: what was stored since the caller's read is overwritten
CommitStale(p, q) ==
  /\ p.pc \in Selecting
  /\ q = Idle
  /\ binding' = [p.snap EXCEPT !.ws = p.pc = "select", !.active = p.pc = "select"]
  /\ replays' = replays + (IF p.snap.pending = <<>> THEN 0 ELSE 1)
  /\ Works

\* CommitWorkspace refuses when anything it read has changed; EffectService
\* posts the replay only for a record that holds messages
SelectCommit(p, q) ==
  /\ p.pc \in Selecting
  /\ q = Idle
  /\ IF binding = p.snap
     THEN /\ binding' = [binding EXCEPT !.ws = p.pc = "select",
                                        !.active = p.pc = "select", !.rev = @ + 1]
          /\ replays' = replays + (IF binding.pending = <<>> THEN 0 ELSE 1)
     ELSE UNCHANGED <<binding, replays>>
  /\ Works

SelectStates(p) ==
  {Idle} \cup [pc : Selecting, m : {0}, snap : {Ensured(binding)}]

\* completeBindingUse, completeBindingWorkspaceUnbind
CardStep ==
  /\ card' \in SelectStates(card)
  /\ SelectBegin(card, card') \/ SelectCommit(card, card')
  /\ UNCHANGED <<inbox, chat, forward, replay, completed, enqueued, stored,
                 recalled, replayed>>

\* OnboardingCommand: what the gate lets through before a workspace is chosen
PassesGate == Selecting

\* /workspace use on the chat's actor
CommandStep ==
  /\ chat.pc \in PassesGate \cup {"idle"}
  /\ chat' \in SelectStates(chat)
  /\ SelectBegin(chat, chat') \/ SelectCommit(chat, chat')
  /\ UNCHANGED <<inbox, forward, card, replay, completed, enqueued, stored,
                 recalled, replayed>>

\* ScopedConfigurationService.Set for a group
Configure ==
  /\ count.settings < MaxSettings
  /\ binding' = Updated(binding)
  /\ Count("settings")
  /\ UNCHANGED <<inbox, chat, forward, card, replays, replay, completed,
                 enqueued, stored, recalled, replayed>>

\* PendingService.Discard
Recall(m) ==
  /\ \E i \in DOMAIN stored : stored[i] = m
  /\ m \notin recalled
  /\ recalled' = recalled \cup {m}
  /\ binding' = [binding EXCEPT !.pending = SelectSeq(@, LAMBDA x : x # m), !.rev = @ + 1]
  /\ UNCHANGED <<inbox, chat, forward, card, replays, replay, completed,
                 enqueued, count, stored, replayed>>
-----------------------------------------------------------------------------
(* BindingReplay.Replay, one at a time.                                    *)

\* Next: the head of a ready binding
ReplayNext ==
  /\ \/ replay.pc = "idle" /\ replays > 0 /\ replays' = replays - 1
     \/ replay.pc = "next" /\ UNCHANGED replays
  /\ replay' = IF BindingReady(binding) /\ binding.pending # <<>>
               THEN [pc |-> "run", m |-> FirstStored(binding)]
               ELSE [pc |-> "idle", m |-> 0]
  /\ UNCHANGED <<binding, inbox, chat, forward, card, completed, enqueued,
                 count, stored, recalled, replayed>>

\* Runner.Run through the deduper: a failure keeps the head and ends the replay
ReplayRun ==
  /\ replay.pc = "run"
  /\ \/ /\ replay.m \in completed /\ Works
        /\ replay' = [replay EXCEPT !.pc = "ack"]
        /\ UNCHANGED <<completed, enqueued, replayed>>
     \/ /\ replay.m \notin completed /\ Works
        /\ enqueued' = Append(enqueued, replay.m)
        /\ replayed' = Append(replayed, replay.m)
        /\ completed' = completed \cup {replay.m}
        /\ replay' = [replay EXCEPT !.pc = "ack"]
     \/ /\ replay.m \notin completed /\ Fails
        /\ replay' = [pc |-> "idle", m |-> 0]
        /\ UNCHANGED <<completed, enqueued, replayed>>
  /\ UNCHANGED <<binding, inbox, chat, forward, card, replays, stored, recalled>>

\* Mutant of Acknowledged: whatever is the head by now goes
AcknowledgedBlindly(b, m) ==
  IF b.pending = <<>> THEN b ELSE [b EXCEPT !.pending = Tail(@)]

\* Acknowledge removes the head only if it is still the message enqueued
Acknowledged(b, m) ==
  IF b.pending # <<>> /\ Head(b.pending) = m THEN [b EXCEPT !.pending = Tail(@)] ELSE b

ReplayAck ==
  /\ replay.pc = "ack"
  /\ binding' = Updated(Acknowledged(binding, replay.m))
  /\ replay' = [replay EXCEPT !.pc = "next"]
  /\ UNCHANGED <<inbox, chat, forward, card, replays, completed, enqueued,
                 count, stored, recalled, replayed>>

\* The binding survives a restart, the deduper and the tasks do not
Crash ==
  /\ count.crashes < MaxCrashes /\ Count("crashes")
  /\ chat' = Idle /\ forward' = Idle /\ card' = Idle
  /\ replays' = 0 /\ replay' = [pc |-> "idle", m |-> 0] /\ completed' = {}
  /\ UNCHANGED <<binding, inbox, enqueued, stored, recalled, replayed>>

Next ==
  \/ ChatBegin \/ ForwardBegin \/ ChatStep \/ ForwardStep
  \/ CardStep \/ CommandStep \/ Configure
  \/ \E i \in DOMAIN Messages : Recall(Messages[i])
  \/ ReplayNext \/ ReplayRun \/ ReplayAck \/ Crash

Spec == Init /\ [][Next]_vars
-----------------------------------------------------------------------------
Times(s, m) == Cardinality({i \in DOMAIN s : s[i] = m})
Elements(s) == {s[i] : i \in DOMAIN s}

\* A stored message is enqueued, recalled or still stored: nothing the settings,
\* a recall, a failed enqueue or a restart does between the steps of a replay
\* loses one; without a restart the replay enqueues each once and in the order
\* they were stored.
StoredIsReplayed ==
  /\ Elements(stored) \subseteq
       Elements(replayed) \cup recalled \cup Elements(binding.pending)
  /\ count.crashes = 0 =>
       replayed = SelectSeq(stored, LAMBDA m : Times(replayed, m) = 1)

\* What the workspace card promises of a stored message ("it continues once a
\* workspace is configured"): nothing stays behind in a ready binding.
NothingLeftBehind ==
  (/\ BindingReady(binding) /\ chat.pc = "idle" /\ forward.pc = "idle"
   /\ card.pc = "idle" /\ replay.pc = "idle" /\ replays = 0
   /\ count.failures = 0 /\ count.crashes = 0) => binding.pending = <<>>
=============================================================================

----------------------------- MODULE GroupRouting -----------------------------
(***************************************************************************)
(* How the bots of one group decide which of them answers a message:       *)
(* the adapter's gate, the router of each bot, the primary assignment and  *)
(* its automatic initialisation (domain/routing, application/routing,      *)
(* application/inbound, runtime/inbound.go).                               *)
(*                                                                         *)
(* Every bot receives its own copies of the group's messages: reordered,   *)
(* repeated, or not at all.  Messages are numbered in the order the users  *)
(* send them.  The adapter's gate runs before the message waits for the    *)
(* actor of the chat, the router after it.  Each bot keeps its own record  *)
(* of the primary, so the group has no common truth.                       *)
(*                                                                         *)
(* Text is reduced to what the parsers tell apart.  A bot that answered a  *)
(* message has a link for it; binding and submission of the answer belong  *)
(* to GroupBindings and SubmissionQueue.                                   *)
(***************************************************************************)
EXTENDS Integers, Sequences, FiniteSets

CONSTANTS
  Bots,
  Messages,    \* sequence of [kind, to, root]: see Kinds
  CreatedAt,   \* creation time of each message as the event reports it; 0 is none
  Configured,  \* bots whose backend is chosen
  MaxCopies,   \* bound: deliveries of a message to a bot
  MaxUnknown,  \* bound: reads of the live bot identity that fail
  MaxErrors,   \* bound: RPCs and answers that fail
  DedupCap     \* InboundDeduper.MaxEntries

VARIABLES
  sent,      \* messages sent so far
  copies,    \* [bot -> [message -> deliveries]]
  members,   \* bots in the group
  queue,     \* [bot -> messages past the gate, waiting for the actor]
  primary,   \* [bot -> the stored record]
  init,      \* [bot -> [caller of Ensure -> its step]]
  run,       \* [bot -> [router or forward task -> its step and locals]]
  inflight,  \* [bot -> ids claimed]
  done,      \* [bot -> ids done, the oldest first]
  answered,  \* [bot -> [message -> answers]]
  applied,   \* history: [bot -> assignments that reached the record]
  faults     \* failures so far

vars == <<sent, copies, members, queue, primary, init, run, inflight, done,
          answered, applied, faults>>

\* assign: one bot mentioned, /primary on or the bare mention
\* control: such a text without exactly one mention;  all: @all
\* mention: ordinary text to one bot;  reply: in the chain of message root
\* forward: a merged forward;  plain: anything else
Kinds == {"assign", "control", "all", "mention", "reply", "forward", "plain"}

ASSUME MessagesAssumption ==
  Len(Messages) \in Nat /\ DOMAIN Messages = 1 .. Len(Messages)

M == DOMAIN Messages
Tasks == {"router", "forward"}
Callers == Tasks \cup {"added"}
NoRecord == [exists |-> FALSE, enabled |-> FALSE, msg |-> 0, at |-> 0]
Idle == [pc |-> "idle", m |-> 0, cur |-> NoRecord]

Init ==
  /\ sent = {} /\ members \in SUBSET Bots /\ members # {}
  /\ copies = [b \in Bots |-> [m \in M |-> 0]]
  /\ queue = [b \in Bots |-> <<>>]
  /\ primary = [b \in Bots |-> NoRecord]
  /\ init = [b \in Bots |-> [c \in Callers |-> "none"]]
  /\ run = [b \in Bots |-> [t \in Tasks |-> Idle]]
  /\ inflight = [b \in Bots |-> {}] /\ done = [b \in Bots |-> <<>>]
  /\ answered = [b \in Bots |-> [m \in M |-> 0]]
  /\ applied = [b \in Bots |-> {}]
  /\ faults = [unknown |-> 0, errors |-> 0]

-----------------------------------------------------------------------------
(* domain/routing: the policy.                                             *)

\* ParseGroupPrimaryAssignment
Assigns(m) == Messages[m].kind = "assign"

\* ParsePrimaryOnCommand, ParseEmptyBotMention
IsControl(m) == Messages[m].kind \in {"assign", "control"}

MentionedSelf(b, m) == Messages[m].kind \in {"assign", "mention"} /\ Messages[m].to = b
MentionedAny(m) == Messages[m].kind \in {"assign", "mention"}
InReplyChain(m) == Messages[m].kind = "reply"

\* GroupMessages.Facts: a link of this bot for the root of the chain
HasLocalLink(b, m) == InReplyChain(m) /\ answered[b][Messages[m].root] > 0

AcceptGroupMessage(b, m) ==
  \/ Messages[m].kind = "all"
  \/ MentionedSelf(b, m)
  \/ /\ ~MentionedAny(m)
     /\ IF InReplyChain(m) THEN HasLocalLink(b, m) ELSE primary[b].enabled

ProbeGroupPrimary(b, m) ==
  /\ ~primary[b].exists
  /\ MentionedSelf(b, m) \/ (~MentionedAny(m) /\ ~InReplyChain(m))

DeliverGroupMessage(b, m) ==
  IF IsControl(m) THEN Assigns(m)
  ELSE AcceptGroupMessage(b, m) \/ ProbeGroupPrimary(b, m)

\* Mutant of StaleAssignment: only the repeated message is recognised
StaleIfRepeated(r, m) == r.msg = m

StaleAssignment(r, m) ==
  \/ r.msg = m
  \/ CreatedAt[m] # 0 /\ r.at # 0 /\ CreatedAt[m] < r.at

WithPrimary(r, on, m) ==
  IF StaleAssignment(r, m) THEN r
  ELSE [exists |-> TRUE, enabled |-> on, msg |-> m, at |-> CreatedAt[m]]

\* routerDropsGroupMessage: @all passes for every bot
Drops(b, m) == Messages[m].kind # "all" /\ ~AcceptGroupMessage(b, m)
-----------------------------------------------------------------------------
(* The group and the event stream.                                         *)

Fails == faults.errors < MaxErrors /\ faults' = [faults EXCEPT !.errors = @ + 1]
Works == UNCHANGED faults

\* RefreshBotOpenID finds no identity
UnknownSelf == faults.unknown < MaxUnknown /\ faults' = [faults EXCEPT !.unknown = @ + 1]

Send ==
  /\ Cardinality(sent) < Len(Messages)
  /\ sent' = sent \cup {Cardinality(sent) + 1}
  /\ UNCHANGED <<copies, members, queue, primary, init, run, inflight, done,
                 answered, applied, faults>>

\* convertMessage asks the policy; a message that passes waits for the actor
Deliver(b, m) ==
  /\ m \in sent /\ b \in members /\ copies[b][m] < MaxCopies
  /\ copies' = [copies EXCEPT ![b][m] = @ + 1]
  /\ queue' = IF DeliverGroupMessage(b, m)
              THEN [queue EXCEPT ![b] = Append(@, m)] ELSE queue
  /\ UNCHANGED <<sent, members, primary, init, run, inflight, done, answered,
                 applied, faults>>

\* handleBotGroupAdded: initialisation beside the router
BotAdded(b) ==
  /\ b \notin members /\ init[b]["added"] = "none"
  /\ members' = members \cup {b}
  /\ init' = [init EXCEPT ![b]["added"] = "read"]
  /\ UNCHANGED <<sent, copies, queue, primary, run, inflight, done, answered,
                 applied, faults>>
-----------------------------------------------------------------------------
(* InitializationService.Ensure: an RPC between the check and the creation.*)

SetInit(b, c, step) == init' = [init EXCEPT ![b][c] = step]

EnsureRead(b, c) ==
  /\ init[b][c] = "read"
  /\ SetInit(b, c, IF primary[b].exists THEN "none" ELSE "count")
  /\ UNCHANGED <<primary, faults>>

\* BotCount; alone in the group the bot needs its identity
EnsureCount(b, c) ==
  /\ init[b][c] = "count"
  /\ \/ Works /\ SetInit(b, c, IF members = {b} THEN "on" ELSE "off")
     \/ Fails /\ SetInit(b, c, "none")
     \/ members = {b} /\ UnknownSelf /\ SetInit(b, c, "none")
  /\ UNCHANGED primary

\* Store.EnsureGroupPrimary: a record that exists by now wins
EnsureCreate(b, c) ==
  /\ init[b][c] \in {"on", "off"}
  /\ primary' = IF primary[b].exists THEN primary
                ELSE [primary EXCEPT ![b] = [NoRecord EXCEPT !.exists = TRUE,
                                              !.enabled = init[b][c] = "on"]]
  /\ SetInit(b, c, "none")
  /\ UNCHANGED faults

Ensure(b, c) ==
  /\ EnsureRead(b, c) \/ EnsureCount(b, c) \/ EnsureCreate(b, c)
  /\ UNCHANGED <<sent, copies, members, queue, run, inflight, done, answered, applied>>
-----------------------------------------------------------------------------
(* InboundDeduper.                                                         *)

Claimed(b, m) == m \in inflight[b] \/ \E i \in DOMAIN done[b] : done[b][i] = m

\* enforceCapLocked after an insertion: the nearest expiry goes
Capped(ids) == IF Len(ids) > DedupCap THEN Tail(ids) ELSE ids

MarkDone(b, m) ==
  /\ inflight' = [inflight EXCEPT ![b] = @ \ {m}]
  /\ done' = [done EXCEPT ![b] = Capped(Append(@, m))]

Release(b, m) == inflight' = [inflight EXCEPT ![b] = @ \ {m}] /\ UNCHANGED done

\* A retention that runs out: ten minutes, longer than a copy is on its way or
\* waits for the actor
Forget(b) ==
  /\ done[b] # <<>> /\ copies[b][Head(done[b])] = MaxCopies
  /\ \A i \in DOMAIN queue[b] : queue[b][i] # Head(done[b])
  /\ done' = [done EXCEPT ![b] = Tail(@)]
  /\ UNCHANGED <<sent, copies, members, queue, primary, init, run, inflight,
                 answered, applied, faults>>
-----------------------------------------------------------------------------
(* feishuEventRouter.handleMessage and inbound.Service.ProcessMessage.     *)

Goto(b, t, pc) == run' = [run EXCEPT ![b][t].pc = pc]
Return(b, t) == run' = [run EXCEPT ![b][t] = Idle]

\* The router marks its message done; the forward task has no claim
Handled(b, t) ==
  /\ Return(b, t)
  /\ IF t = "router" THEN MarkDone(b, run[b][t].m) ELSE UNCHANGED <<inflight, done>>

Failed(b, t) ==
  /\ Return(b, t)
  /\ IF t = "router" THEN Release(b, run[b][t].m) ELSE UNCHANGED <<inflight, done>>

\* Claim, then NormalizeGroupMessage: a control text without its bot ends here
RouterBegin(b) ==
  /\ run[b]["router"].pc = "idle" /\ queue[b] # <<>>
  /\ queue' = [queue EXCEPT ![b] = Tail(@)]
  /\ LET m == Head(queue[b]) IN
       IF Claimed(b, m) THEN UNCHANGED <<run, init, inflight, done>>
       ELSE IF IsControl(m) /\ ~Assigns(m)
            THEN MarkDone(b, m) /\ UNCHANGED <<run, init>>
            ELSE /\ inflight' = [inflight EXCEPT ![b] = @ \cup {m}]
                 /\ run' = [run EXCEPT ![b]["router"] = [Idle EXCEPT !.pc = "sync", !.m = m]]
                 /\ SetInit(b, "router", "read")
                 /\ UNCHANGED done
  /\ UNCHANGED <<sent, copies, members, primary, answered, applied, faults>>

Stands(b, t, pc) == run[b][t].pc = pc /\ init[b][t] = "none"

\* syncGroupPrimaryAssignment up to the read of SetPrimary
SyncPrimary(b, t) ==
  /\ Stands(b, t, "sync")
  /\ LET m == run[b][t].m IN
       IF ~Assigns(m) THEN Goto(b, t, "drop") /\ Works /\ UNCHANGED <<inflight, done>>
       ELSE \/ UnknownSelf /\ Handled(b, t)
            \/ /\ Works
               /\ CASE StaleAssignment(primary[b], m) -> Handled(b, t)
                    [] Messages[m].to = b -> Goto(b, t, "drop") /\ UNCHANGED <<inflight, done>>
                    [] OTHER ->
                         /\ run' = [run EXCEPT ![b][t] = [@ EXCEPT !.pc = "off", !.cur = primary[b]]]
                         /\ UNCHANGED <<inflight, done>>
  /\ UNCHANGED <<sent, copies, members, queue, primary, init, answered, applied>>

\* Service.SetPrimary: WithPrimary of the record read before, then the save
SetPrimary(b, t, on) ==
  LET m == run[b][t].m IN
    /\ primary' = IF StaleAssignment(run[b][t].cur, m) THEN primary
                  ELSE [primary EXCEPT ![b] = WithPrimary(run[b][t].cur, on, m)]
    /\ applied' = [applied EXCEPT ![b] = @ \cup {m}]

SaveOff(b, t) ==
  /\ Stands(b, t, "off")
  /\ SetPrimary(b, t, FALSE) /\ Handled(b, t)
  /\ UNCHANGED <<sent, copies, members, queue, init, answered, faults>>

\* DropsGroupMessage; a merged forward is fetched by a task of its own, which
\* runs ProcessMessage again
DropOrForward(b, t) ==
  /\ Stands(b, t, "drop")
  /\ LET m == run[b][t].m IN
       IF Drops(b, m) THEN Handled(b, t) /\ UNCHANGED init
       ELSE IF Messages[m].kind = "forward" /\ t = "router"
       THEN /\ run[b]["forward"].pc = "idle"
            /\ run' = [run EXCEPT ![b] = [router |-> Idle,
                         forward |-> [Idle EXCEPT !.pc = "sync", !.m = m]]]
            /\ SetInit(b, "forward", "read")
            /\ MarkDone(b, m)
       ELSE Goto(b, t, "route") /\ UNCHANGED <<init, inflight, done>>
  /\ UNCHANGED <<sent, copies, members, queue, primary, answered, applied, faults>>

\* A bot without a backend offers the choice instead of running the command;
\* the primary command initialises once more, the rest becomes an answer
Route(b, t) ==
  /\ Stands(b, t, "route")
  /\ LET m == run[b][t].m IN
       \/ /\ b \notin Configured /\ Works /\ Handled(b, t)
          /\ UNCHANGED <<init, answered>>
       \/ /\ b \in Configured /\ Assigns(m) /\ Works
          /\ Goto(b, t, "command") /\ SetInit(b, t, "read")
          /\ UNCHANGED <<answered, inflight, done>>
       \/ /\ b \in Configured /\ ~Assigns(m) /\ Works /\ Handled(b, t)
          /\ answered' = [answered EXCEPT ![b][m] = @ + 1]
          /\ UNCHANGED init
       \/ /\ Fails /\ Failed(b, t)
          /\ UNCHANGED <<init, answered>>
  /\ UNCHANGED <<sent, copies, members, queue, primary, applied>>

\* commandPrimary: without its identity the bot refuses
Command(b, t) ==
  /\ Stands(b, t, "command")
  /\ \/ /\ Works
        /\ run' = [run EXCEPT ![b][t] = [@ EXCEPT !.pc = "on", !.cur = primary[b]]]
        /\ UNCHANGED <<inflight, done>>
     \/ UnknownSelf /\ Failed(b, t)
  /\ UNCHANGED <<sent, copies, members, queue, primary, init, answered, applied>>

\* setPrimaryForMessage: the answer may fail after the save
SaveOn(b, t) ==
  /\ Stands(b, t, "on")
  /\ SetPrimary(b, t, TRUE)
  /\ \/ Works /\ Handled(b, t)
     \/ Fails /\ Failed(b, t)
  /\ UNCHANGED <<sent, copies, members, queue, init, answered>>

TaskStep(b, t) ==
  SyncPrimary(b, t) \/ SaveOff(b, t) \/ DropOrForward(b, t) \/ Route(b, t)
    \/ Command(b, t) \/ SaveOn(b, t)

Next ==
  \/ Send
  \/ \E b \in Bots : \/ \E m \in M : Deliver(b, m)
                     \/ BotAdded(b) \/ Forget(b) \/ RouterBegin(b)
                     \/ \E c \in Callers : Ensure(b, c)
                     \/ \E t \in Tasks : TaskStep(b, t)

Spec == Init /\ [][Next]_vars
-----------------------------------------------------------------------------
\* The newest assignment a bot took decides whether it is primary, whatever the
\* order in which the copies arrived and however the automatic initialisation
\* ran beside them.
NewestWins ==
  \A b \in Bots : applied[b] # {} =>
    LET newest == CHOOSE m \in applied[b] : \A n \in applied[b] : n <= m
    IN  primary[b].exists /\ primary[b].enabled = (Messages[newest].to = b)

\* A bot answers a message at most once, also when copies of it arrive while a
\* merged forward is still being fetched.
AnsweredOnce == \A b \in Bots, m \in M : answered[b][m] <= 1
=============================================================================

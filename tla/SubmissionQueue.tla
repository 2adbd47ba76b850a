---------------------------- MODULE SubmissionQueue ----------------------------
(***************************************************************************)
(* The path of a user's input through one Codex frontend: it is enqueued   *)
(* on a session (application/submission/queue.go), started as a turn of    *)
(* the App Server, and finished by the turn's completion                   *)
(* (application/turn/service.go).                                          *)
(*                                                                         *)
(* Processes.  Chat is the goroutine that handles ordinary chat messages:  *)
(* InboundMessage.SessionKey is empty for them, so SessionActorKey puts    *)
(* them on the actor of the chat, not on the actor of the session they     *)
(* change.  Events is the goroutine that dispatches App Server             *)
(* notifications on the actor of the session that owns the thread.  The    *)
(* process named after session s is the goroutine that holds the actor of  *)
(* s for anything else: an input that does carry a session key (a          *)
(* forwarded message, the answer to a question) or a StartNextSubmission   *)
(* that RunSessionAsync posted.                                            *)
(*                                                                         *)
(* A step of the model is one access to the locked state store, or several *)
(* with no visible effect in between.  SaveSession replaces the whole      *)
(* record by the snapshot the process loaded earlier; UpdateSession,       *)
(* QueueSubmission and DequeueSubmission change the stored record in       *)
(* place.  Threads: each session has one thread, sess[s].thread says       *)
(* whether the record names it.  Turn 0 stands for the empty turn id.      *)
(***************************************************************************)
EXTENDS Integers, Sequences, SequencesExt, FiniteSetsExt

CONSTANTS
  Sessions,        \* session keys of one chat
  Serial,          \* the sessions form one serial group (a group chat)
  MaxSubs,         \* bound: inputs received
  MaxFailures,     \* bound: RPCs that fail or time out
  ChatInputs,      \* ordinary messages arrive
  Reconciles,      \* thread/read may report a completion before its notification
  ActorInputs      \* inputs that carry a session key arrive

ASSUME QueueAssumption ==
  /\ Serial \in BOOLEAN /\ Reconciles \in BOOLEAN
  /\ ChatInputs \in BOOLEAN /\ ActorInputs \in BOOLEAN
  /\ MaxSubs \in Nat /\ MaxFailures \in Nat
  /\ {"chat", "events", "none"} \cap Sessions = {}

Chat == "chat"
Events == "events"
None == "none"
Procs == {Chat, Events} \cup Sessions
Subs == 1 .. MaxSubs

VARIABLES
  sess,      \* state.Store sessions: queue, active operations, thread known
  sub,       \* state.Store submissions
  starts,    \* runtime.SubmissionStarts
  actor,     \* runtime.SessionActors: the process that holds session s
  wake,      \* StartNextSubmissionAsync tasks posted on session s
  pending,   \* turnbinding.Tracker.Pending, by thread (= session)
  bindings,  \* turnbinding.Tracker.Bindings, by turn
  loc,       \* per process: program counter and local variables
  inputs,    \* inputs received
  created,   \* submissions created
  failures,  \* RPC failures and timeouts so far
  inbox,     \* turn/start requests the App Server has not answered
  resp,      \* response that has reached process p: 0 none, -1 error, turn
  turns,     \* App Server: every turn it started, in order
  wire,      \* notifications in flight or queued in the RPC client
  outcome,   \* history: turn that finished submission i, StartFailed or NoTurn
  panicked   \* FinishTurn dereferenced a deleted submission

store == <<sess, sub>>
tracker == <<pending, bindings>>
server == <<inbox, turns, wire>>
vars == <<sess, sub, starts, actor, wake, pending, bindings, loc, inputs,
          created, failures, inbox, resp, turns, wire, outcome, panicked>>

NoTurn == 0
Failed == -1          \* an error response, and the outcome of a failed start
NoSub == 0
-----------------------------------------------------------------------------
(* Session records (domain/conversation).                                  *)

EmptySession == [queue |-> <<>>, ops |-> <<>>, thread |-> FALSE]
Idle == [pc |-> "idle", key |-> None, snap |-> EmptySession, sub |-> NoSub,
         turn |-> NoTurn, hold |-> None, start |-> FALSE, blocked |-> FALSE]

\* Mutant of HasInFlightSubmission: an operation counts once it has its turn
HasBoundSubmission(sr) == \E k \in DOMAIN sr.ops : sr.ops[k].turn # NoTurn

HasInFlightSubmission(sr) == sr.ops # <<>>

\* The entries of sequence q at the positions in K, in their order
Entries(q, K) ==
  LET nth(n) == CHOOSE k \in K : Cardinality({j \in K : j <= k}) = n
  IN  [n \in 1 .. Cardinality(K) |-> q[nth(n)]]

\* activeOperationMatches
Matches(op, i, t) == op.sub = i \/ (t # NoTurn /\ op.turn = t)

UpsertActiveOperation(sr, i, t) ==
  [sr EXCEPT !.ops =
     IF \E k \in DOMAIN @ : Matches(@[k], i, t)
     THEN [k \in DOMAIN @ |->
             IF Matches(@[k], i, t)
             THEN [sub |-> i, turn |-> IF t = NoTurn THEN @[k].turn ELSE t]
             ELSE @[k]]
     ELSE Append(@, [sub |-> i, turn |-> t])]

RemoveActiveOperation(sr, i, t) ==
  [sr EXCEPT !.ops = Entries(@, {k \in DOMAIN @ : ~Matches(@[k], i, t)})]

\* FindPendingSubmissionOperationByThread: the first operation without a turn
PendingOperation(sr) ==
  LET unbound == {k \in DOMAIN sr.ops : sr.ops[k].turn = NoTurn}
  IN  IF unbound = {} THEN NoSub ELSE sr.ops[Min(unbound)].sub

Exists(i) == i # NoSub /\ sub[i].exists

\* SaveSession, UpsertSession: the stored record becomes the given snapshot.
SaveSession(s, sr) == sess' = [sess EXCEPT ![s] = sr]

\* MarkSubmissionRunning: an empty turn id keeps the one the record has; a
\* submission that is gone is left alone.
MarkSubmissionRunning(i, t) ==
  sub' = IF Exists(i)
         THEN [sub EXCEPT ![i].running = TRUE,
                          ![i].turn = IF t = NoTurn THEN @ ELSE t]
         ELSE sub
-----------------------------------------------------------------------------
(* turnbinding.Tracker.                                                    *)

NotePendingTurnBinding(s, i) ==
  pending' = [pending EXCEPT ![s] = IF Contains(@, i) THEN @ ELSE Append(@, i)]

Without(q, i) == Entries(q, {k \in DOMAIN q : q[k] # i})

ClearPendingTurnBinding(s, i) == pending' = [pending EXCEPT ![s] = Without(@, i)]

BindTurnSubmission(t, i) ==
  bindings' = [u \in DOMAIN bindings \cup {t} |-> IF u = t THEN i ELSE bindings[u]]

ClearTurnBinding(t) ==
  bindings' = [u \in DOMAIN bindings \ {t} |-> bindings[u]]
-----------------------------------------------------------------------------
(* CleanupSubmissionRuntimeState: the submission and its bindings go.     *)

CleanupSubmissionRuntimeState(s, i) ==
  /\ sub' = [sub EXCEPT ![i].exists = FALSE, ![i].finalized = TRUE]
  /\ ClearTurnBinding(sub[i].turn)
  /\ ClearPendingTurnBinding(s, i)
-----------------------------------------------------------------------------
(* Queue order (application/submission).                                   *)

\* hasSerialBindingWorkAhead, for session s as the record sr describes it
HasSerialBindingWorkAhead(s, sr) ==
  Serial /\ \E c \in Sessions \ {s} :
    \/ HasInFlightSubmission(sess[c])
    \/ /\ sess[c].queue # <<>>
       /\ sr.queue = <<>> \/ Head(sess[c].queue) < Head(sr.queue)

\* NextQueuedSessionKey over the session records ss
NextQueuedSessionKey(ss, s) ==
  LET lane == IF Serial THEN Sessions ELSE {s}
      ready == {c \in lane : ss[c].queue # <<>>}
  IN  IF ready = {} \/ \E c \in lane : HasInFlightSubmission(ss[c])
      THEN None
      ELSE CHOOSE c \in ready : \A d \in ready :
             Head(ss[c].queue) <= Head(ss[d].queue)

Wake(w, s) == IF s = None THEN w ELSE [w EXCEPT ![s] = @ + 1]
-----------------------------------------------------------------------------
(* Control of a process.                                                   *)

At(p, label) == loc[p].pc = label
Goto(p, label) == loc' = [loc EXCEPT ![p].pc = label]

\* Mutant of Acquire: the session's lock is not taken
AcquireNothing(p, s) == UNCHANGED actor

\* SessionActors.Run: acquire for the process that runs on session s
Acquire(p, s) == actor[s] = None /\ actor' = [actor EXCEPT ![s] = p]

\* The task of process p returns and releases the actor it holds.
Return(p) ==
  /\ loc' = [loc EXCEPT ![p] = Idle]
  /\ actor' = IF loc[p].hold = None THEN actor
              ELSE [actor EXCEPT ![loc[p].hold] = None]

Init ==
  /\ sess = [s \in Sessions |-> EmptySession]
  /\ sub = [i \in Subs |-> [exists |-> FALSE, running |-> FALSE,
                            finalized |-> FALSE, turn |-> NoTurn]]
  /\ starts = [s \in Sessions |-> [running |-> FALSE, pending |-> FALSE]]
  /\ actor = [s \in Sessions |-> None]
  /\ wake = [s \in Sessions |-> 0]
  /\ pending = [s \in Sessions |-> <<>>]
  /\ bindings = [t \in {} |-> NoSub]
  /\ loc = [p \in Procs |-> Idle]
  /\ inputs = 0 /\ created = 0 /\ failures = 0
  /\ inbox = {} /\ turns = <<>> /\ wire = <<>>
  /\ resp = [p \in Procs |-> NoTurn]
  /\ outcome = [i \in Subs |-> NoTurn]
  /\ panicked = FALSE
-----------------------------------------------------------------------------
(* EnqueueSubmission.                                                      *)

\* HandleFeishuMessage: an ordinary message for session s, on the chat's actor
ReceiveMessage(s) ==
  /\ ChatInputs /\ inputs < MaxSubs /\ At(Chat, "idle")
  /\ inputs' = inputs + 1
  /\ loc' = [loc EXCEPT ![Chat].pc = "load", ![Chat].key = s]
  /\ UNCHANGED <<store, starts, actor, wake, tracker, created, failures,
                 server, resp, outcome, panicked>>

\* ForwardProcessor, asyncinput.Dispatch: an input on the session's own actor
ReceiveSessionInput(s) ==
  /\ ActorInputs /\ inputs < MaxSubs /\ At(s, "idle") /\ Acquire(s, s)
  /\ inputs' = inputs + 1
  /\ loc' = [loc EXCEPT ![s].pc = "load", ![s].key = s, ![s].hold = s]
  /\ UNCHANGED <<store, starts, wake, tracker, created, failures, server,
                 resp, outcome, panicked>>

\* The dispatcher has handled turn t's final output, which the App Server sends
\* before the completion: SawFinal.
SawFinal(t) ==
  /\ \A k \in DOMAIN wire : ~(wire[k].turn = t /\ wire[k].kind = "started")
  /\ ~(At(Events, "started") /\ loc[Events].turn = t)
  /\ ~(At(Events, "bind") /\ loc[Events].turn = t)

EnqueueLoad(p) ==
  /\ At(p, "load")
  /\ loc' = [loc EXCEPT ![p].snap = sess[loc[p].key], ![p].pc = "save"]
  /\ UNCHANGED <<store, starts, actor, wake, tracker, inputs, created,
                 failures, server, resp, outcome, panicked>>
\* Mutant of EnqueueReconcile: the final output alone finishes the turn
EnqueueReconcileUnread(p) ==
  /\ Reconciles /\ At(p, "load") /\ sess[loc[p].key].ops # <<>>
  /\ LET t == Last(sess[loc[p].key].ops).turn IN
       /\ t # NoTurn /\ SawFinal(t)
       /\ loc' = [loc EXCEPT ![p].pc = "find", ![p].turn = t]
  /\ UNCHANGED <<store, starts, actor, wake, tracker, inputs, created,
                 failures, server, resp, outcome, panicked>>

\* ReconcileCompletedTurnFromFinalOutput: the foreground turn has shown its
\* final output and thread/read reports it complete, so it is finished here.
EnqueueReconcile(p) ==
  /\ Reconciles /\ At(p, "load")
  /\ LET ops == sess[loc[p].key].ops IN
       /\ ops # <<>>
       /\ LET t == Last(ops).turn IN
            /\ t # NoTurn /\ turns[t].done /\ SawFinal(t)
            /\ loc' = [loc EXCEPT ![p].pc = "find", ![p].turn = t]
  /\ UNCHANGED <<store, starts, actor, wake, tracker, inputs, created,
                 failures, server, resp, outcome, panicked>>

EnqueueSave(p) ==
  /\ At(p, "save")
  /\ LET s == loc[p].key
         blocked == HasSerialBindingWorkAhead(s, loc[p].snap)
     IN  /\ SaveSession(s, loc[p].snap)
         /\ loc' = [loc EXCEPT ![p].pc = "queue", ![p].blocked = blocked,
                      ![p].start =
                         ~blocked /\ ~HasInFlightSubmission(loc[p].snap)]
  /\ UNCHANGED <<sub, starts, actor, wake, tracker, inputs, created,
                 failures, server, resp, outcome, panicked>>
\* Mutant of EnqueueQueue: the new submission goes to the head of the queue
EnqueueAtHead(p) ==
  /\ At(p, "queue")
  /\ LET s == loc[p].key  i == created + 1 IN
       /\ created' = i
       /\ sub' = [sub EXCEPT ![i].exists = TRUE]
       /\ sess' = [sess EXCEPT ![s].queue = <<i>> \o @]
       /\ IF loc[p].start
          THEN Goto(p, "begin") /\ UNCHANGED <<actor, wake>>
          ELSE /\ Return(p)
               /\ wake' = IF loc[p].blocked THEN Wake(wake, s) ELSE wake
  /\ UNCHANGED <<starts, tracker, inputs, failures, server, resp, outcome,
                 panicked>>

\* CreateSubmission, QueueSubmission, then the start or the posted retry
EnqueueQueue(p) ==
  /\ At(p, "queue")
  /\ LET s == loc[p].key  i == created + 1 IN
       /\ created' = i
       /\ sub' = [sub EXCEPT ![i].exists = TRUE]
       /\ sess' = [sess EXCEPT ![s].queue = Append(@, i)]
       /\ IF loc[p].start
          THEN Goto(p, "begin") /\ UNCHANGED <<actor, wake>>
          ELSE /\ Return(p)
               /\ wake' = IF loc[p].blocked THEN Wake(wake, s) ELSE wake
  /\ UNCHANGED <<starts, tracker, inputs, failures, server, resp, outcome,
                 panicked>>
-----------------------------------------------------------------------------
(* StartNextSubmission.                                                    *)

\* RunSessionAsync(s, StartNextSubmissionAsync(s)): the task runs on the actor
\* of s and starts whichever session is next in the lane.
StartNextSubmissionAsync(s) ==
  /\ wake[s] > 0 /\ At(s, "idle")
  /\ wake' = [wake EXCEPT ![s] = @ - 1]
  /\ LET next == NextQueuedSessionKey(sess, s) IN
       IF next = None
       THEN actor[s] = None /\ UNCHANGED <<actor, loc>>
       ELSE /\ Acquire(s, s)
            /\ loc' = [loc EXCEPT ![s].pc = "begin", ![s].key = next,
                                  ![s].hold = s]
  /\ UNCHANGED <<store, starts, tracker, inputs, created, failures, server,
                 resp, outcome, panicked>>
\* Mutant of StartBegin: a start in progress does not keep others out
StartBeginAlways(p) ==
  /\ At(p, "begin")
  /\ starts' = [starts EXCEPT ![loc[p].key].running = TRUE]
  /\ Goto(p, "check")
  /\ UNCHANGED <<store, actor, wake, tracker, inputs, created, failures, server,
                 resp, outcome, panicked>>

\* SubmissionStarts.TryBegin
StartBegin(p) ==
  /\ At(p, "begin")
  /\ LET s == loc[p].key IN
       IF starts[s].running
       THEN starts' = [starts EXCEPT ![s].pending = TRUE] /\ Return(p)
       ELSE /\ starts' = [starts EXCEPT ![s].running = TRUE]
            /\ Goto(p, "check") /\ UNCHANGED actor
  /\ UNCHANGED <<store, wake, tracker, inputs, created, failures, server,
                 resp, outcome, panicked>>

StartCheck(p) ==
  /\ At(p, "check")
  /\ LET s == loc[p].key IN
       Goto(p, IF HasInFlightSubmission(sess[s])
                    \/ HasSerialBindingWorkAhead(s, sess[s])
               THEN "end" ELSE "dequeue")
  /\ UNCHANGED <<store, starts, actor, wake, tracker, inputs, created,
                 failures, server, resp, outcome, panicked>>

\* DequeueSubmission and the snapshot the rest of the start works on; a queue
\* entry whose submission is gone is skipped.
StartDequeue(p) ==
  /\ At(p, "dequeue")
  /\ LET s == loc[p].key  q == sess[s].queue IN
       IF q = <<>>
       THEN Goto(p, "end") /\ UNCHANGED sess
       ELSE LET rest == [sess[s] EXCEPT !.queue = Tail(q)] IN
            /\ sess' = [sess EXCEPT ![s] = rest]
            /\ IF Exists(Head(q))
               THEN loc' = [loc EXCEPT ![p].pc = "thread",
                              ![p].sub = Head(q), ![p].snap = rest]
               ELSE Goto(p, IF ~HasInFlightSubmission(rest)
                                 /\ rest.queue # <<>>
                            THEN "check" ELSE "end")
  /\ UNCHANGED <<sub, starts, actor, wake, tracker, inputs, created,
                 failures, server, resp, outcome, panicked>>

\* thread/start if the session has no thread, then the operation is recorded
StartThread(p) ==
  /\ At(p, "thread")
  /\ LET s == loc[p].key  i == loc[p].sub
         snap == [UpsertActiveOperation(loc[p].snap, i, NoTurn)
                    EXCEPT !.thread = TRUE]
     IN  IF Exists(i)
         THEN /\ NotePendingTurnBinding(s, i)
              /\ SaveSession(s, snap)
              /\ loc' = [loc EXCEPT ![p].pc = "mark", ![p].snap = snap]
         ELSE Goto(p, "end") /\ UNCHANGED <<sess, pending>>
  /\ UNCHANGED <<sub, starts, actor, wake, bindings, inputs, created,
                 failures, server, resp, outcome, panicked>>

\* MarkSubmissionRunning and the turn/start request
StartMark(p) ==
  /\ At(p, "mark")
  /\ LET s == loc[p].key  i == loc[p].sub IN
       IF Exists(i)
       THEN /\ MarkSubmissionRunning(i, NoTurn)
            /\ inbox' = inbox \cup {[key |-> s, sub |-> i, proc |-> p]}
            /\ Goto(p, "rpc") /\ UNCHANGED pending
       ELSE /\ ClearPendingTurnBinding(s, i)
            /\ Goto(p, "end") /\ UNCHANGED <<sub, inbox>>
  /\ UNCHANGED <<sess, starts, actor, wake, bindings, inputs, created,
                 failures, resp, turns, wire, outcome, panicked>>

\* HandleSubmissionStartFailure
HandleSubmissionStartFailure(p) ==
  LET s == loc[p].key  i == loc[p].sub IN
  \E keepThread \in BOOLEAN :
    LET rec == RemoveActiveOperation(sess[s], i, NoTurn)
        ss == [sess EXCEPT ![s] =
                 [rec EXCEPT !.thread = @ /\ keepThread]]
    IN  /\ sess' = ss
        /\ CleanupSubmissionRuntimeState(s, i)
        /\ outcome' = IF Exists(i) THEN [outcome EXCEPT ![i] = Failed]
                      ELSE outcome
        /\ wake' = Wake(wake, NextQueuedSessionKey(ss, s))
        /\ Goto(p, "end")

ThreadStartFails(p) ==
  /\ At(p, "thread") /\ ~loc[p].snap.thread /\ failures < MaxFailures
  /\ failures' = failures + 1
  /\ HandleSubmissionStartFailure(p)
  /\ UNCHANGED <<starts, actor, inputs, created, server, resp, panicked>>

TurnStartFails(p) ==
  /\ At(p, "rpc") /\ resp[p] = Failed
  /\ resp' = [resp EXCEPT ![p] = NoTurn]
  /\ HandleSubmissionStartFailure(p)
  /\ UNCHANGED <<starts, actor, inputs, created, failures, server, panicked>>
\* Mutant of TurnStartTimesOut: a timed-out start is put back to be retried
TurnStartRetried(p) ==
  /\ At(p, "rpc") /\ resp[p] = NoTurn /\ failures < MaxFailures
  /\ failures' = failures + 1
  /\ inbox' = {IF c.proc = p THEN [c EXCEPT !.proc = None] ELSE c : c \in inbox}
  /\ LET s == loc[p].key  i == loc[p].sub IN
       /\ sess' = [sess EXCEPT ![s] =
            [RemoveActiveOperation(@, i, NoTurn) EXCEPT !.queue = <<i>> \o @]]
       /\ wake' = Wake(wake, s)
  /\ Goto(p, "end")
  /\ UNCHANGED <<sub, starts, actor, tracker, inputs, created, resp, turns,
                 wire, outcome, panicked>>

\* The 30 s deadline of turn/start: the submission keeps its pending binding
\* and waits for the delayed turn/started.
TurnStartTimesOut(p) ==
  /\ At(p, "rpc") /\ resp[p] = NoTurn /\ failures < MaxFailures
  /\ failures' = failures + 1
  /\ inbox' = {IF c.proc = p THEN [c EXCEPT !.proc = None] ELSE c : c \in inbox}
  /\ Goto(p, "end")
  /\ UNCHANGED <<store, starts, actor, wake, tracker, inputs, created, resp,
                 turns, wire, outcome, panicked>>
\* Mutant of StartBind: an error response is taken for a turn
StartBindUnchecked(p) ==
  /\ At(p, "rpc") /\ resp[p] # NoTurn
  /\ LET s == loc[p].key  i == loc[p].sub  t == resp[p] IN
       /\ BindTurnSubmission(t, i)
       /\ ClearPendingTurnBinding(s, i)
       /\ loc' = [loc EXCEPT ![p].pc = "activate", ![p].turn = t,
                    ![p].snap = UpsertActiveOperation(@, i, t)]
  /\ resp' = [resp EXCEPT ![p] = NoTurn]
  /\ UNCHANGED <<store, starts, actor, wake, inputs, created, failures,
                 server, outcome, panicked>>

\* The response: bind the turn, drop the pending binding
StartBind(p) ==
  /\ At(p, "rpc") /\ resp[p] \notin {NoTurn, Failed}
  /\ LET s == loc[p].key  i == loc[p].sub  t == resp[p] IN
       /\ BindTurnSubmission(t, i)
       /\ ClearPendingTurnBinding(s, i)
       /\ loc' = [loc EXCEPT ![p].pc = "activate", ![p].turn = t,
                    ![p].snap = UpsertActiveOperation(@, i, t)]
  /\ resp' = [resp EXCEPT ![p] = NoTurn]
  /\ UNCHANGED <<store, starts, actor, wake, inputs, created, failures,
                 server, outcome, panicked>>

\* SaveSession of the snapshot loaded before the RPCs, MarkSubmissionRunning
StartActivate(p) ==
  /\ At(p, "activate")
  /\ LET i == loc[p].sub IN
       /\ SaveSession(loc[p].key, loc[p].snap)
       /\ MarkSubmissionRunning(i, loc[p].turn)
  /\ Goto(p, "end")
  /\ UNCHANGED <<starts, actor, wake, tracker, inputs, created, failures,
                 server, resp, outcome, panicked>>
\* Mutant of StartEnd: FinishStart keeps the entry of a coalesced start
StartEndKeeps(p) ==
  /\ At(p, "end")
  /\ Return(p)
  /\ UNCHANGED <<store, starts, wake, tracker, inputs, created, failures,
                 server, resp, outcome, panicked>>

\* The deferred FinishStart: a start requested meanwhile is posted
StartEnd(p) ==
  /\ At(p, "end")
  /\ LET s == loc[p].key IN
       /\ starts' = [starts EXCEPT ![s] = [running |-> FALSE, pending |-> FALSE]]
       /\ wake' = IF starts[s].pending THEN Wake(wake, s) ELSE wake
  /\ Return(p)
  /\ UNCHANGED <<store, tracker, inputs, created, failures, server, resp,
                 outcome, panicked>>
-----------------------------------------------------------------------------
(* Notifications (application/turn).                                       *)

\* dispatchBackendEvent: the actor is the one of the session whose record
\* names the thread, or the shared backend scope if none does.
DispatchEvent ==
  /\ wire # <<>> /\ At(Events, "idle")
  /\ LET e == Head(wire)
         known == sess[e.key].thread
     IN  /\ IF known THEN Acquire(Events, e.key) ELSE UNCHANGED actor
         /\ loc' = [loc EXCEPT ![Events] =
              [Idle EXCEPT !.pc = IF e.kind = "started" THEN "started" ELSE "find",
                           !.key = e.key, !.turn = e.turn,
                           !.hold = IF known THEN e.key ELSE None]]
  /\ wire' = Tail(wire)
  /\ UNCHANGED <<store, starts, wake, tracker, inputs, created, failures,
                 inbox, resp, turns, outcome, panicked>>

\* PendingSubmissionForThread: the first pending binding still worth binding
LivePending(s) ==
  Entries(pending[s], {k \in DOMAIN pending[s] :
                         Exists(pending[s][k]) /\ ~sub[pending[s][k]].finalized})

\* OnTurnStartedNotification: bind the pending submission, else the session's
\* unbound operation, unless the turn is already an operation of the session.
TurnStarted ==
  /\ At(Events, "started")
  /\ LET s == loc[Events].key  t == loc[Events].turn
         live == LivePending(s)
         op == PendingOperation(sess[s])
         i == IF live # <<>> THEN live[1]
              ELSE IF (\E k \in DOMAIN sess[s].ops : sess[s].ops[k].turn = t)
                        \/ ~Exists(op) THEN NoSub
              ELSE op
     IN  IF i = NoSub
         THEN pending' = [pending EXCEPT ![s] = live] /\ Return(Events)
              /\ UNCHANGED bindings
         ELSE /\ BindTurnSubmission(t, i)
              /\ pending' = [pending EXCEPT ![s] = Without(live, i)]
              /\ loc' = [loc EXCEPT ![Events].pc = "bind", ![Events].sub = i,
                           ![Events].snap =
                              [UpsertActiveOperation(sess[s], i, t)
                                 EXCEPT !.thread = TRUE]]
              /\ UNCHANGED actor
  /\ UNCHANGED <<store, starts, wake, inputs, created, failures, server, resp,
                 outcome, panicked>>

\* SaveSession and MarkSubmissionRunning of the binding
BindTurn(p) ==
  /\ At(p, "bind") \/ At(p, "bindThenFinish")
  /\ LET i == loc[p].sub IN
       /\ SaveSession(loc[p].key, loc[p].snap)
       /\ MarkSubmissionRunning(i, loc[p].turn)
       /\ IF At(p, "bind") \/ ~Exists(i)
          THEN Return(p)
          ELSE Goto(p, "finalize") /\ UNCHANGED actor
  /\ UNCHANGED <<starts, wake, tracker, inputs, created, failures, server,
                 resp, outcome, panicked>>
\* Mutant of FindSubmissionByTurn: any active operation will do
FindActiveSubmission(t) ==
  LET found == {i \in Subs : Exists(i) /\ \E s \in Sessions :
                  \E op \in ToSet(sess[s].ops) : op.sub = i}
  IN  IF found = {} THEN NoSub ELSE Max(found)

\* SubmissionLookupService.FindSubmissionByTurn: by binding, else by operation
FindSubmissionByTurn(t) ==
  IF t \in DOMAIN bindings /\ Exists(bindings[t]) THEN bindings[t]
  ELSE LET found == {i \in Subs : Exists(i) /\ \E s \in Sessions :
                       [sub |-> i, turn |-> t] \in ToSet(sess[s].ops)}
       IN  IF found = {} THEN NoSub ELSE Max(found)

\* After FinishTurn: Events is done, an enqueue reloads its session.
FinishReturn(p) ==
  IF p = Events THEN Return(p)
  ELSE /\ loc' = [loc EXCEPT ![p].pc = "save", ![p].snap = sess[loc[p].key],
                             ![p].sub = NoSub, ![p].turn = NoTurn]
       /\ UNCHANGED actor

\* FinishTurn, lookup: the submission of the turn, or the pending one of the
\* thread if its operation has no turn yet; a finalized one is left alone.
FinishFind(p) ==
  /\ At(p, "find")
  /\ LET s == loc[p].key  t == loc[p].turn
         i == FindSubmissionByTurn(t)
         live == LivePending(s)
         j == IF live = <<>> THEN NoSub ELSE live[1]
     IN  CASE i # NoSub /\ ~sub[i].finalized ->
                /\ loc' = [loc EXCEPT ![p].pc = "finalize", ![p].sub = i]
                /\ UNCHANGED <<actor, tracker>>
           [] i # NoSub /\ sub[i].finalized ->
                FinishReturn(p) /\ UNCHANGED tracker
           [] i = NoSub /\ j # NoSub /\ sub[j].turn = NoTurn
                        /\ PendingOperation(sess[s]) = j ->
                /\ BindTurnSubmission(t, j)
                /\ pending' = [pending EXCEPT ![s] = Without(live, j)]
                /\ loc' = [loc EXCEPT ![p].pc = "bindThenFinish", ![p].sub = j,
                             ![p].snap = [UpsertActiveOperation(sess[s], j, t)
                                            EXCEPT !.thread = TRUE]]
                /\ UNCHANGED actor
           [] OTHER ->
                /\ FinishReturn(p)
                /\ pending' = [pending EXCEPT ![s] = live] /\ UNCHANGED bindings
  /\ UNCHANGED <<store, starts, wake, inputs, created, failures, server, resp,
                 outcome, panicked>>

\* FinishTurn, after the stream has been flushed: finalize the submission,
\* remove its operation, finalize steer inputs of the thread.  The submission
\* is re-read after it has been finalized; its id is then used unchecked.
FinishFinalize(p) ==
  /\ At(p, "finalize")
  /\ LET s == loc[p].key  i == loc[p].sub  t == loc[p].turn
         rec == RemoveActiveOperation(sess[s], i, t)
         steered == {op.sub : op \in {o \in ToSet(rec.ops) : o.turn # t}}
                      \cap {j \in Subs : Exists(j) /\ ~sub[j].finalized}
         done == steered \cup {i}
     IN  IF ~Exists(i)
         THEN panicked' = TRUE /\ UNCHANGED <<store, loc, outcome>>
         ELSE /\ sub' = [j \in Subs |-> IF j \in done
                           THEN [sub[j] EXCEPT !.finalized = TRUE,
                                               !.running = FALSE]
                           ELSE sub[j]]
              /\ outcome' = [j \in Subs |-> IF j \in done THEN t ELSE outcome[j]]
              /\ sess' = [sess EXCEPT ![s] =
                   [rec EXCEPT !.ops =
                      Entries(@, {k \in DOMAIN @ : @[k].sub \notin steered})]]
              /\ Goto(p, "next") /\ UNCHANGED panicked
  /\ UNCHANGED <<starts, actor, wake, tracker, inputs, created, failures,
                 server, resp>>
\* Mutant of FinishNext: the next start is not posted
FinishSilently(p) ==
  /\ At(p, "next")
  /\ LET s == loc[p].key  i == loc[p].sub IN
       /\ CleanupSubmissionRuntimeState(s, i)
  /\ FinishReturn(p)
  /\ UNCHANGED <<sess, starts, wake, inputs, created, failures, server, resp,
                 outcome, panicked>>

\* FinishTurn: post the next start of the lane, CleanupSubmissionRuntimeState
FinishNext(p) ==
  /\ At(p, "next")
  /\ LET s == loc[p].key  i == loc[p].sub IN
       /\ wake' = Wake(wake, NextQueuedSessionKey(sess, s))
       /\ CleanupSubmissionRuntimeState(s, i)
  /\ UNCHANGED sess
  /\ FinishReturn(p)
  /\ UNCHANGED <<starts, inputs, created, failures, server, resp, outcome,
                 panicked>>
-----------------------------------------------------------------------------
(* The App Server, as the code uses it.                                    *)

Answer(c, r) == resp' = IF c.proc = None THEN resp
                        ELSE [resp EXCEPT ![c.proc] = r]

ServerStartsTurn(c) ==
  /\ c \in inbox
  /\ inbox' = inbox \ {c}
  /\ turns' = Append(turns, [key |-> c.key, sub |-> c.sub, done |-> FALSE])
  /\ wire' = Append(wire, [kind |-> "started", key |-> c.key,
                           turn |-> Len(turns) + 1])
  /\ Answer(c, Len(turns) + 1)
  /\ UNCHANGED <<store, starts, actor, wake, tracker, loc, inputs, created,
                 failures, outcome, panicked>>

ServerRejects(c) ==
  /\ c \in inbox /\ c.proc # None /\ failures < MaxFailures
  /\ failures' = failures + 1
  /\ inbox' = inbox \ {c}
  /\ Answer(c, Failed)
  /\ UNCHANGED <<store, starts, actor, wake, tracker, loc, inputs, created,
                 turns, wire, outcome, panicked>>

ServerCompletesTurn(t) ==
  /\ ~turns[t].done
  /\ turns' = [turns EXCEPT ![t].done = TRUE]
  /\ wire' = Append(wire, [kind |-> "completed", key |-> turns[t].key, turn |-> t])
  /\ UNCHANGED <<store, starts, actor, wake, tracker, loc, inputs, created,
                 failures, inbox, resp, outcome, panicked>>
-----------------------------------------------------------------------------
Step(p) ==
  \/ EnqueueLoad(p) \/ EnqueueReconcile(p) \/ EnqueueSave(p) \/ EnqueueQueue(p)
  \/ StartBegin(p) \/ StartCheck(p) \/ StartDequeue(p) \/ StartThread(p)
  \/ ThreadStartFails(p) \/ StartMark(p) \/ TurnStartFails(p)
  \/ TurnStartTimesOut(p) \/ StartBind(p) \/ StartActivate(p) \/ StartEnd(p)
  \/ BindTurn(p) \/ FinishFind(p) \/ FinishFinalize(p) \/ FinishNext(p)

\* A panic ends the process.
Next ==
  /\ ~panicked
  /\ \/ \E s \in Sessions : ReceiveMessage(s) \/ ReceiveSessionInput(s)
                              \/ StartNextSubmissionAsync(s)
     \/ \E p \in Procs : Step(p)
     \/ DispatchEvent \/ TurnStarted
     \/ \E c \in inbox : ServerStartsTurn(c) \/ ServerRejects(c)
     \/ \E t \in DOMAIN turns : ServerCompletesTurn(t)

Spec == Init /\ [][Next]_vars

\* Fairness: goroutines that can run do run; a goroutine that waits for a
\* session's mutex gets it although others take it in between (sync.Mutex hands
\* the lock to a waiter after 1 ms); the App Server answers and completes.
FairSpec ==
  /\ Spec
  /\ \A p \in Procs : WF_vars(Step(p))
  /\ \A s \in Sessions : SF_vars(StartNextSubmissionAsync(s))
  /\ SF_vars(DispatchEvent) /\ WF_vars(TurnStarted)
  /\ WF_vars(\E c \in inbox : ServerStartsTurn(c) \/ ServerRejects(c))
  /\ WF_vars(\E t \in DOMAIN turns : ServerCompletesTurn(t))
-----------------------------------------------------------------------------
(* Properties.                                                             *)

\* Types; a binding always names a turn the App Server started, and no
\* submission is created without an input.
TypeOK ==
  /\ \A s \in Sessions :
       /\ sess[s].queue \in Seq(Subs) /\ sess[s].thread \in BOOLEAN
       /\ sess[s].ops \in Seq([sub : Subs, turn : Nat])
       /\ actor[s] \in Procs \cup {None} /\ wake[s] \in Nat
       /\ pending[s] \in Seq(Subs)
  /\ \A t \in DOMAIN bindings : t \in DOMAIN turns /\ bindings[t] \in Subs
  /\ created \in 0 .. MaxSubs /\ created <= inputs
  /\ failures \in 0 .. MaxFailures

\* An input becomes at most one turn: neither the timeout of turn/start nor a
\* snapshot written back over the queue starts a dequeued submission again
\* (StartNextSubmissionWithFailureNotice, SaveSession).
StartedOnce ==
  \A t, u \in DOMAIN turns : turns[t].sub = turns[u].sub => t = u

Lane(s) == IF Serial THEN Sessions ELSE {s}

\* The App Server never runs two turns of one session at a time, nor of two
\* sessions of one serial group (hasSerialBindingWorkAhead,
\* HasInFlightSubmission).
OneTurnAtATime ==
  \A t, u \in DOMAIN turns :
    t # u /\ ~turns[t].done /\ ~turns[u].done
      => turns[u].key \notin Lane(turns[t].key)

\* The inputs of a session become turns in the order they were queued, also
\* when starts fail, time out or are coalesced.
ArrivalOrder ==
  \A t, u \in DOMAIN turns :
    t < u /\ turns[t].key = turns[u].key => turns[t].sub < turns[u].sub

\* FinishTurn finishes a submission by its own turn: a completion that arrives
\* late, after thread/read has already settled its turn, does not finish the
\* submission that is pending on the same thread (CanBindCompletion).
OwnCompletion ==
  \A i \in Subs : outcome[i] > 0 => turns[outcome[i]].sub = i

\* FinishTurn finishes a submission only after the App Server has completed the
\* turn: the final output alone is no terminal state.
NoEarlyFinish ==
  \A i \in Subs : outcome[i] > 0 => turns[outcome[i]].done

Quiescent ==
  /\ \A p \in Procs : At(p, "idle")
  /\ \A s \in Sessions : wake[s] = 0
  /\ wire = <<>> /\ inbox = {} /\ \A t \in DOMAIN turns : turns[t].done

\* When no process runs and no start, request or event is left, every queue is
\* empty, no operation keeps a session busy, and every submission has an
\* outcome: no queued input waits for a start nobody will make.
NothingStranded ==
  Quiescent => /\ \A s \in Sessions : sess[s].queue = <<>> /\ sess[s].ops = <<>>
               /\ \A i \in 1 .. created : outcome[i] # NoTurn

\* FinishTurn never works on a submission another FinishTurn has already cleaned
\* up: it re-reads the submission and uses it unchecked.
NoPanic == ~panicked

InStart(p) == loc[p].pc \in {"check", "dequeue", "thread", "mark", "rpc",
                             "activate", "end"}

\* SubmissionStarts admits one start per session at a time, whatever actors the
\* starters hold: the posted start of another session of the group, the chat
\* goroutine and the session's own goroutine exclude each other.
StartExclusive ==
  \A p, q \in Procs :
    p # q /\ InStart(p) /\ InStart(q) => loc[p].key # loc[q].key

\* Every submission that is created gets an outcome (FinishTurn or
\* HandleSubmissionStartFailure), given that the App Server answers and
\* completes its turns.
EveryInputFinishes ==
  \A i \in Subs : (created >= i) ~> (outcome[i] # NoTurn)
=============================================================================

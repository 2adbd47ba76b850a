---------------------------- MODULE CodexClient ----------------------------
(***************************************************************************)
(* The stdio JSON-RPC client of the Codex App Server                       *)
(* (internal/codexrpc/client.go).                                          *)
(*                                                                         *)
(* Goroutines and the state they share:                                    *)
(*   - the owner runs Start (initialize, then initialized) and later Close;*)
(*   - every use of Call / Notify / Reply is a thread of its own, or the   *)
(*     dispatcher itself when a callback makes it;                         *)
(*   - readLoop reads the server's stdout, answers pending calls and puts  *)
(*     notifications and server requests on the bounded event queue;       *)
(*   - dispatchEvents takes events off the queue and runs the callbacks;   *)
(*   - waitLoop waits for the process.                                     *)
(* Sections guarded by one mutex, and single select statements, are one    *)
(* step; everything between them interleaves.                              *)
(***************************************************************************)
EXTENDS Naturals, Sequences, FiniteSets

CONSTANTS
  RPCs,          \* uses of Call: a request that waits for its response
  Sends,         \* uses of Notify / Reply / ReplyError: written, no response
  InitRPC,       \* the "initialize" call that Start makes
  InitSend,      \* the "initialized" notification that Start sends
  CallbackRPCs,  \* the calls that are made from inside an event callback
  NoCall,        \* "the running callback makes no call"
  QueueCap,      \* capacity of eventCh (256 in the code)
  MaxEvents      \* bound: events the server emits

ASSUME ClientAssumption ==
  /\ InitRPC \in RPCs /\ InitSend \in Sends
  /\ RPCs \cap Sends = {}
  /\ CallbackRPCs \subseteq RPCs \ {InitRPC}
  /\ NoCall \notin RPCs \cup Sends
  /\ QueueCap \in Nat \ {0}
  /\ MaxEvents \in Nat

Calls == RPCs \cup Sends
Closers == {"owner", "reader"}

(* An event is its position in the server's output; 0 is the event that    *)
(* readLoop queues for the end of the stream (clientEvent{err: err}).      *)
ErrEvent == 0
Events == 1..MaxEvents
Messages == [kind : {"event"}, n : Events] \cup [kind : {"response"}, call : RPCs]

VARIABLES
  server,        \* the app-server process: "up" or "exited"
  waited,        \* cmd.Wait has returned (and closed the stdout pipe)
  emitted,       \* number of events the server has written so far
  requested,     \* calls the server has received and not yet answered
  wire,          \* unread contents of the stdout pipe
  pending,       \* keys of Client.pending
  reply,         \* the buffered channel of each call
  call,          \* program counter of each Call / Notify
  writeMu,       \* holder of writeMu while it writes
  closing,       \* Client.closing
  transportErr,  \* Client.transportErr # nil
  errorOnce,     \* progress of errorOnce.Do in emitTransportError
  eventStop,     \* eventStop has been closed
  eventCh,       \* the bounded event queue
  reader,        \* program counter of readLoop
  closer,        \* progress of Close, per goroutine that runs it
  owner,         \* program counter of Start and of the later Close
  dispatcher,    \* program counter of dispatchEvents
  held,          \* event the dispatcher has received and not yet handed on
  nested,        \* call that the running callback waits for
  dispatched     \* last event given to onNotification / onRequest

serverVars == <<server, waited, emitted, requested>>
callVars   == <<pending, reply, call, writeMu>>
stateVars  == <<closing, transportErr, errorOnce, eventStop>>
readVars   == <<wire, reader>>
dispVars   == <<dispatcher, held, nested, dispatched>>
ownVars    == <<owner, closer>>
vars == <<serverVars, callVars, stateVars, readVars, dispVars, ownVars, eventCh>>

Finished(c) == call[c] \in {"ok", "error"}

Init ==
  /\ server = "up" /\ waited = FALSE /\ emitted = 0 /\ requested = {}
  /\ wire = <<>> /\ reader = "read"
  /\ pending = {} /\ reply = [c \in RPCs |-> "empty"]
  /\ call = [c \in Calls |-> "idle"] /\ writeMu = NoCall
  /\ closing = FALSE /\ transportErr = FALSE
  /\ errorOnce = "idle" /\ eventStop = FALSE /\ eventCh = <<>>
  /\ closer = [t \in Closers |-> "none"] /\ owner = "starting"
  /\ dispatcher = "select" /\ held = ErrEvent /\ nested = NoCall
  /\ dispatched = 0

-----------------------------------------------------------------------------
(* Effects used by several goroutines.                                     *)

\* Mutant of FailPending: the map is walked but not swapped for an empty one.
FailPendingKeepsMap ==
  /\ pending' = pending
  /\ reply' = [c \in RPCs |-> IF c \in pending THEN "error" ELSE reply[c]]

\* failPending: the pending map is swapped for an empty one under pendingMu
\* and an error is put into every channel that still has room.
FailPending ==
  /\ pending' = {}
  /\ reply' = [c \in RPCs |->
                 IF c \in pending /\ reply[c] = "empty" THEN "error" ELSE reply[c]]

\* Call: the channel is registered before anything is written.  Notify and
\* Reply register nothing.
BeginCall(c) ==
  /\ call[c] = "idle"
  /\ call' = [call EXCEPT ![c] = "registered"]
  /\ pending' = pending \cup ({c} \cap RPCs)
  /\ UNCHANGED <<reply, writeMu>>

-----------------------------------------------------------------------------
(* Call, Notify, Reply, send.                                              *)

\* Any goroutine may use the client once Start has returned.
StartCall(c) ==
  /\ owner \notin {"starting", "initialize", "initialized"}
  /\ c \in Calls \ (CallbackRPCs \cup {InitRPC, InitSend})
  /\ BeginCall(c)
  /\ UNCHANGED <<serverVars, stateVars, readVars, dispVars, ownVars, eventCh>>

\* Mutant of SendCheck: send writes without looking at closing/transportErr.
SendCheckBlind(c) ==
  /\ call[c] = "registered" /\ writeMu = NoCall
  /\ call' = [call EXCEPT ![c] = "writing"] /\ writeMu' = c
  /\ UNCHANGED <<pending, reply>>
  /\ UNCHANGED <<serverVars, stateVars, readVars, dispVars, ownVars, eventCh>>

\* send: take writeMu, read closing and transportErr.
SendCheck(c) ==
  /\ call[c] = "registered" /\ writeMu = NoCall
  /\ IF closing \/ transportErr
     THEN call' = [call EXCEPT ![c] = "cleanup"] /\ UNCHANGED writeMu
     ELSE call' = [call EXCEPT ![c] = "writing"] /\ writeMu' = c
  /\ UNCHANGED <<pending, reply>>
  /\ UNCHANGED <<serverVars, stateVars, readVars, dispVars, ownVars, eventCh>>

\* The write reaches the server: a Call waits, a Notify is done.
SendWrite(c) ==
  /\ call[c] = "writing" /\ server = "up"
  /\ call' = [call EXCEPT ![c] = IF c \in RPCs THEN "waiting" ELSE "ok"]
  /\ requested' = requested \cup ({c} \cap RPCs)
  /\ writeMu' = NoCall
  /\ UNCHANGED <<server, waited, emitted, pending, reply>>
  /\ UNCHANGED <<stateVars, readVars, dispVars, ownVars, eventCh>>

\* The write fails (the process is gone, or Close has closed stdin); the
\* caller enters emitTransportError with writeMu still held.
SendFails(c) ==
  /\ call[c] = "writing" /\ server = "exited"
  /\ call' = [call EXCEPT ![c] = "emit"]
  /\ UNCHANGED <<pending, reply, writeMu>>
  /\ UNCHANGED <<serverVars, stateVars, readVars, dispVars, ownVars, eventCh>>

SendEmitted(c) ==
  /\ call[c] = "emit" /\ errorOnce = "done"
  /\ call' = [call EXCEPT ![c] = "cleanup"]
  /\ writeMu' = NoCall
  /\ UNCHANGED <<pending, reply>>
  /\ UNCHANGED <<serverVars, stateVars, readVars, dispVars, ownVars, eventCh>>

\* send returned an error: Call removes its own entry and returns it.
CallCleanup(c) ==
  /\ call[c] = "cleanup"
  /\ call' = [call EXCEPT ![c] = "error"]
  /\ pending' = pending \ {c}
  /\ UNCHANGED <<reply, writeMu>>
  /\ UNCHANGED <<serverVars, stateVars, readVars, dispVars, ownVars, eventCh>>

\* The select of Call takes the response ...
CallReceive(c) ==
  /\ call[c] = "waiting" /\ reply[c] # "empty"
  /\ call' = [call EXCEPT ![c] = reply[c]]
  /\ reply' = [reply EXCEPT ![c] = "empty"]
  /\ UNCHANGED <<pending, writeMu>>
  /\ UNCHANGED <<serverVars, stateVars, readVars, dispVars, ownVars, eventCh>>

\* ... or the caller's context ends first.
CallTimeout(c) ==
  /\ call[c] = "waiting" /\ c \in RPCs
  /\ call' = [call EXCEPT ![c] = "error"]
  /\ pending' = pending \ {c}
  /\ UNCHANGED <<reply, writeMu>>
  /\ UNCHANGED <<serverVars, stateVars, readVars, dispVars, ownVars, eventCh>>

-----------------------------------------------------------------------------
(* emitTransportError: the body of errorOnce.Do.  A goroutine asks for it  *)
(* by being at "emit" and goes on when it is "done".                       *)

Emitting ==
  \/ reader = "emit"
  \/ dispatcher = "emit"
  \/ \E c \in Calls : call[c] = "emit"

EmitBegin ==
  /\ errorOnce = "idle" /\ Emitting
  /\ errorOnce' = "failPending" /\ transportErr' = TRUE
  /\ UNCHANGED <<closing, eventStop>>
  /\ UNCHANGED <<serverVars, callVars, readVars, dispVars, ownVars, eventCh>>

EmitFailPending ==
  /\ errorOnce = "failPending"
  /\ errorOnce' = "report"
  /\ FailPending
  /\ UNCHANGED <<closing, transportErr, eventStop, call, writeMu>>
  /\ UNCHANGED <<serverVars, readVars, dispVars, ownVars, eventCh>>

\* onError(err) is called.
EmitReport ==
  /\ errorOnce = "report"
  /\ errorOnce' = "done"
  /\ UNCHANGED <<closing, transportErr, eventStop>>
  /\ UNCHANGED <<serverVars, callVars, readVars, dispVars, ownVars, eventCh>>

-----------------------------------------------------------------------------
(* Close, run by the owner or by the reader after an overflow.             *)

CloseFlag(t) ==
  /\ closer[t] = "flag"
  /\ closer' = [closer EXCEPT ![t] = "stop"]
  /\ closing' = TRUE
  /\ UNCHANGED <<transportErr, errorOnce, eventStop, owner>>
  /\ UNCHANGED <<serverVars, callVars, readVars, dispVars, eventCh>>

CloseStop(t) ==
  /\ closer[t] = "stop"
  /\ closer' = [closer EXCEPT ![t] = "failPending"]
  /\ eventStop' = TRUE
  /\ UNCHANGED <<transportErr, errorOnce, closing, owner>>
  /\ UNCHANGED <<serverVars, callVars, readVars, dispVars, eventCh>>

CloseFailPending(t) ==
  /\ closer[t] = "failPending"
  /\ closer' = [closer EXCEPT ![t] = "kill"]
  /\ FailPending
  /\ UNCHANGED <<call, writeMu, owner>>
  /\ UNCHANGED <<serverVars, stateVars, readVars, dispVars, eventCh>>

\* stdin is closed and the process killed.
CloseKill(t) ==
  /\ closer[t] = "kill"
  /\ closer' = [closer EXCEPT ![t] = "done"]
  /\ server' = "exited"
  /\ owner'  = IF t = "owner" THEN "closed" ELSE owner
  /\ reader' = IF t = "reader" THEN "read" ELSE reader
  /\ UNCHANGED <<waited, emitted, requested, wire, callVars, stateVars, dispVars, eventCh>>

-----------------------------------------------------------------------------
(* Start, and the owner's Close.                                           *)

OwnerInitialize ==
  /\ owner = "starting"
  /\ owner' = "initialize"
  /\ BeginCall(InitRPC)
  /\ UNCHANGED <<closer, serverVars, stateVars, readVars, dispVars, eventCh>>

OwnerInitialized ==
  /\ owner = "initialize" /\ call[InitRPC] = "ok"
  /\ owner' = "initialized"
  /\ BeginCall(InitSend)
  /\ UNCHANGED <<closer, serverVars, stateVars, readVars, dispVars, eventCh>>

OwnerReady ==
  /\ owner = "initialized" /\ call[InitSend] = "ok"
  /\ owner' = "ready"
  /\ UNCHANGED <<closer, serverVars, callVars, stateVars, readVars, dispVars, eventCh>>

\* The deferred Close of a failed Start, or a Close of the running client.
OwnerClose ==
  /\ \/ owner = "initialize" /\ call[InitRPC] = "error"
     \/ owner = "initialized" /\ call[InitSend] = "error"
     \/ owner = "ready"
  /\ owner' = "closing"
  /\ closer' = [closer EXCEPT !["owner"] = "flag"]
  /\ UNCHANGED <<serverVars, callVars, stateVars, readVars, dispVars, eventCh>>

-----------------------------------------------------------------------------
(* readLoop, handleIncoming, enqueueEvent.                                 *)

\* Mutant of EnqueueEvent: off by one at the capacity.
EnqueueEventPastCap(e, next) ==
  \/ eventStop /\ reader' = next /\ UNCHANGED eventCh
  \/ /\ Len(eventCh) <= QueueCap
     /\ eventCh' = Append(eventCh, e) /\ reader' = next
  \/ ~eventStop /\ Len(eventCh) > QueueCap /\ reader' = "emit" /\ UNCHANGED eventCh

\* The select of enqueueEvent; with eventStop closed and room in the queue
\* either ready case may be taken.  Overflow leaves the event out, enters
\* emitTransportError and closes the client.
EnqueueEvent(e, next) ==
  \/ /\ eventStop
     /\ reader' = next /\ UNCHANGED eventCh
  \/ /\ Len(eventCh) < QueueCap
     /\ eventCh' = Append(eventCh, e) /\ reader' = next
  \/ /\ ~eventStop /\ Len(eventCh) >= QueueCap
     /\ reader' = "emit" /\ UNCHANGED eventCh

ReadEvent ==
  /\ reader = "read" /\ wire # <<>> /\ Head(wire).kind = "event"
  /\ wire' = Tail(wire)
  /\ EnqueueEvent(Head(wire).n, "read")
  /\ UNCHANGED <<serverVars, callVars, stateVars, dispVars, ownVars>>

\* A response removes its entry and fills the channel; one that nobody waits
\* for any more is dropped.
ReadResponse ==
  /\ reader = "read" /\ wire # <<>> /\ Head(wire).kind = "response"
  /\ LET c == Head(wire).call IN
       /\ reply' = IF c \in pending THEN [reply EXCEPT ![c] = "ok"] ELSE reply
       /\ pending' = pending \ {c}
  /\ wire' = Tail(wire)
  /\ UNCHANGED <<call, writeMu, reader, serverVars, stateVars, dispVars, ownVars, eventCh>>

\* After emitTransportError the overflow path closes the client.
ReaderOverflowClose ==
  /\ reader = "emit" /\ errorOnce = "done"
  /\ reader' = "closing"
  /\ closer' = [closer EXCEPT !["reader"] = "flag"]
  /\ UNCHANGED <<wire, owner, serverVars, callVars, stateVars, dispVars, eventCh>>

\* Mutant of ReadEOF: every end of stream is taken for a deliberate Close.
ReadEOFSilent ==
  /\ reader = "read" /\ wire = <<>> /\ server = "exited"
  /\ reader' = "stopped"
  /\ UNCHANGED <<wire, serverVars, callVars, stateVars, dispVars, ownVars, eventCh>>

\* scanner.Scan returned false.
ReadEOF ==
  /\ reader = "read" /\ wire = <<>> /\ server = "exited"
  /\ reader' = IF closing THEN "stopped" ELSE "eof"
  /\ UNCHANGED <<wire, serverVars, callVars, stateVars, dispVars, ownVars, eventCh>>

EOFSetError ==
  /\ reader = "eof"
  /\ reader' = "eofFail" /\ transportErr' = TRUE
  /\ UNCHANGED <<wire, closing, errorOnce, eventStop>>
  /\ UNCHANGED <<serverVars, callVars, dispVars, ownVars, eventCh>>

\* Mutant of EOFFailPending: the calls are left for the error event to release.
EOFKeepPending ==
  /\ reader = "eofFail"
  /\ reader' = "eofEnqueue"
  /\ UNCHANGED <<wire, callVars, serverVars, stateVars, dispVars, ownVars, eventCh>>

EOFFailPending ==
  /\ reader = "eofFail"
  /\ reader' = "eofEnqueue"
  /\ FailPending
  /\ UNCHANGED <<wire, call, writeMu, serverVars, stateVars, dispVars, ownVars, eventCh>>

EOFEnqueue ==
  /\ reader = "eofEnqueue"
  /\ EnqueueEvent(ErrEvent, "stopped")
  /\ UNCHANGED <<wire, serverVars, callVars, stateVars, dispVars, ownVars>>

-----------------------------------------------------------------------------
(* dispatchEvents.                                                         *)

\* The outer select; both cases may be ready.
DispatchStop ==
  /\ dispatcher = "select" /\ eventStop
  /\ dispatcher' = "stopped"
  /\ UNCHANGED <<held, nested, dispatched, serverVars, callVars, stateVars, readVars, ownVars, eventCh>>

DispatchTake ==
  /\ dispatcher = "select" /\ eventCh # <<>>
  /\ held' = Head(eventCh) /\ eventCh' = Tail(eventCh)
  /\ dispatcher' = "check"
  /\ UNCHANGED <<nested, dispatched, serverVars, callVars, stateVars, readVars, ownVars>>

\* Mutant of DispatchHandle: without the second look at eventStop.
DispatchHandleUnchecked ==
  /\ dispatcher = "check"
  /\ IF held = ErrEvent
     THEN dispatcher' = "emit" /\ UNCHANGED dispatched
     ELSE dispatcher' = "callback" /\ dispatched' = held
  /\ UNCHANGED <<held, nested, serverVars, callVars, stateVars, readVars, ownVars, eventCh>>

\* The inner select looks at eventStop again, then the event is handled.
DispatchHandle ==
  /\ dispatcher = "check"
  /\ IF eventStop
     THEN dispatcher' = "stopped" /\ UNCHANGED dispatched
     ELSE IF held = ErrEvent
     THEN dispatcher' = "emit" /\ UNCHANGED dispatched
     ELSE dispatcher' = "callback" /\ dispatched' = held
  /\ UNCHANGED <<held, nested, serverVars, callVars, stateVars, readVars, ownVars, eventCh>>

\* A callback may use the client and wait for the answer.
CallbackCall(c) ==
  /\ dispatcher = "callback" /\ nested = NoCall
  /\ nested' = c
  /\ BeginCall(c)
  /\ UNCHANGED <<dispatcher, held, dispatched, serverVars, stateVars, readVars, ownVars, eventCh>>

CallbackReturn ==
  /\ dispatcher = "callback"
  /\ nested # NoCall => Finished(nested)
  /\ dispatcher' = "select" /\ nested' = NoCall
  /\ UNCHANGED <<held, dispatched, serverVars, callVars, stateVars, readVars, ownVars, eventCh>>

DispatchEmitted ==
  /\ dispatcher = "emit" /\ errorOnce = "done"
  /\ dispatcher' = "stopped"
  /\ UNCHANGED <<held, nested, dispatched, serverVars, callVars, stateVars, readVars, ownVars, eventCh>>

-----------------------------------------------------------------------------
(* The app-server process and waitLoop.                                    *)

ServerEvent ==
  /\ server = "up" /\ emitted < MaxEvents
  /\ emitted' = emitted + 1
  /\ wire' = Append(wire, [kind |-> "event", n |-> emitted + 1])
  /\ UNCHANGED <<server, waited, requested, reader, callVars, stateVars, dispVars, ownVars, eventCh>>

ServerRespond(c) ==
  /\ server = "up" /\ c \in requested
  /\ requested' = requested \ {c}
  /\ wire' = Append(wire, [kind |-> "response", call |-> c])
  /\ UNCHANGED <<server, waited, emitted, reader, callVars, stateVars, dispVars, ownVars, eventCh>>

ServerExit ==
  /\ server = "up"
  /\ server' = "exited"
  /\ UNCHANGED <<waited, emitted, requested, readVars, callVars, stateVars, dispVars, ownVars, eventCh>>

\* cmd.Wait closes the stdout pipe as soon as the process is gone, so what
\* the reader has not buffered by then is lost.
WaitLoop ==
  /\ server = "exited" /\ ~waited
  /\ waited' = TRUE
  /\ \E k \in 0..Len(wire) : wire' = SubSeq(wire, 1, k)
  /\ UNCHANGED <<server, emitted, requested, reader, callVars, stateVars, dispVars, ownVars, eventCh>>

-----------------------------------------------------------------------------
Caller(c) ==
  \/ StartCall(c) \/ SendCheck(c) \/ SendWrite(c) \/ SendFails(c)
  \/ SendEmitted(c) \/ CallCleanup(c)

CallerOutcome(c) == CallReceive(c) \/ CallTimeout(c)

Closer(t) == CloseFlag(t) \/ CloseStop(t) \/ CloseFailPending(t) \/ CloseKill(t)

Owner == OwnerInitialize \/ OwnerInitialized \/ OwnerReady \/ OwnerClose

Reader ==
  \/ ReadEvent \/ ReadResponse \/ ReaderOverflowClose
  \/ ReadEOF \/ EOFSetError \/ EOFFailPending \/ EOFEnqueue

Emit == EmitBegin \/ EmitFailPending \/ EmitReport

Dispatcher ==
  \/ DispatchStop \/ DispatchTake \/ DispatchHandle
  \/ CallbackReturn \/ DispatchEmitted

Server == ServerEvent \/ ServerExit \/ \E c \in RPCs : ServerRespond(c)

Next ==
  \/ \E c \in Calls : Caller(c)
  \/ \E c \in RPCs : CallerOutcome(c)
  \/ \E c \in CallbackRPCs : CallbackCall(c)
  \/ \E t \in Closers : Closer(t)
  \/ Owner \/ Reader \/ Emit \/ Dispatcher \/ Server \/ WaitLoop

Spec == Init /\ [][Next]_vars

\* Every goroutine that can run eventually runs.  Nothing is assumed of the
\* server (it may never answer and never exit), of a caller's deadline, of a
\* write into a pipe nobody drains, or of anyone choosing to use the client.
Fairness ==
  /\ \A c \in Calls : /\ WF_vars(SendCheck(c)) /\ WF_vars(SendFails(c))
                      /\ WF_vars(SendEmitted(c)) /\ WF_vars(CallCleanup(c))
  /\ \A c \in RPCs : WF_vars(CallReceive(c))
  /\ \A t \in Closers : WF_vars(Closer(t))
  /\ WF_vars(Reader) /\ WF_vars(Emit) /\ WF_vars(Dispatcher) /\ WF_vars(WaitLoop)

FairSpec == Spec /\ Fairness

-----------------------------------------------------------------------------
(* Properties.                                                             *)

\* Type correctness; in particular the event queue never exceeds its capacity
\* (make(chan clientEvent, 256)).
TypeOK ==
  /\ server \in {"up", "exited"} /\ waited \in BOOLEAN
  /\ emitted \in 0..MaxEvents /\ requested \subseteq RPCs
  /\ wire \in Seq(Messages)
  /\ pending \subseteq RPCs
  /\ reply \in [RPCs -> {"empty", "ok", "error"}]
  /\ call \in [Calls -> {"idle", "registered", "writing", "emit", "cleanup",
                         "waiting", "ok", "error"}]
  /\ writeMu \in Calls \cup {NoCall}
  /\ closing \in BOOLEAN /\ transportErr \in BOOLEAN /\ eventStop \in BOOLEAN
  /\ errorOnce \in {"idle", "failPending", "report", "done"}
  /\ eventCh \in Seq(Events \cup {ErrEvent}) /\ Len(eventCh) <= QueueCap
  /\ reader \in {"read", "emit", "closing", "eof", "eofFail", "eofEnqueue", "stopped"}
  /\ closer \in [Closers -> {"none", "flag", "stop", "failPending", "kill", "done"}]
  /\ owner \in {"starting", "initialize", "initialized", "ready", "closing", "closed"}
  /\ dispatcher \in {"select", "check", "callback", "emit", "stopped"}
  /\ held \in Events \cup {ErrEvent}
  /\ nested \in CallbackRPCs \cup {NoCall}
  /\ dispatched \in 0..MaxEvents

\* The places after which a failPending has run for a failure that send can
\* see: emitTransportError, Close, or the end of readLoop.
Drained ==
  \/ errorOnce \in {"report", "done"}
  \/ \E t \in Closers : closer[t] \in {"kill", "done"}
  \/ reader = "eofEnqueue"
  \/ reader = "stopped" /\ ~closing

\* Once a failure has drained the pending calls, a call that waits has its
\* answer in its channel: registering before send's check of closing and
\* transportErr leaves no gap in which a call is missed by failPending and
\* still goes on to wait for a response that nobody will deliver.
NoOrphanedCall ==
  Drained => \A c \in RPCs : call[c] = "waiting" => reply[c] # "empty"

\* handleIncoming sends on a call's channel without a default case; the reader
\* would stall if the one-element buffer were already full.  A registered call
\* always has room, whatever failPending and late responses do.
ReplyNeverBlocks ==
  \A c \in pending : reply[c] = "empty"

\* The inductive strengthening of the two properties above.  A failure that
\* has drained the map is visible to send (ErrorVisible), so no later call gets
\* past the check; a live call that has left the map has its answer (Answered).
ErrorVisible ==
  /\ errorOnce # "idle" => transportErr
  /\ \A t \in Closers : closer[t] \in {"stop", "failPending", "kill", "done"} => closing
  /\ reader \in {"eofFail", "eofEnqueue"} => transportErr
  /\ reader = "stopped" => closing \/ transportErr

Answered ==
  /\ \A c \in RPCs : call[c] \in {"registered", "writing", "waiting"} /\ c \notin pending
                        => reply[c] # "empty"
  /\ \A c \in RPCs : call[c] = "idle" => c \notin pending /\ reply[c] = "empty"

NoLateEntry ==
  Drained => \A c \in RPCs : call[c] \in {"writing", "waiting"} => c \notin pending

CallInv == TypeOK /\ ErrorVisible /\ Answered /\ NoLateEntry /\ ReplyNeverBlocks

\* Callbacks run in wire order and none is skipped (the comment on
\* dispatchEvents): the event that starts a callback is the successor of the
\* previous one, across overflow, EOF, Close and pipe truncation.
WireOrder ==
  [][dispatched' # dispatched => dispatched' = dispatched + 1]_vars

\* The inductive strengthening of WireOrder.  Until Close has closed eventStop
\* the numbers go on without a gap from the running callback to the event in
\* the dispatcher's hand (LastTaken), through the queue (LastQueued), and through what
\* the reader has not read yet.  Only an overflow leaves an event out, and then
\* the reader reads nothing more before its own Close has closed eventStop.
Event(n) == [kind |-> "event", n |-> n]

LastTaken == IF dispatcher = "check" /\ held # ErrEvent THEN held ELSE dispatched
LastQueued == LastTaken + Len(eventCh)

\* The events of s are the successors of b, in order and none left out;
\* responses may stand between them.
InOrder(s, b) ==
  /\ \A j \in DOMAIN s : s[j].kind = "event" =>
       s[j].n > b /\ \A n \in (b + 1)..s[j].n : \E i \in 1..j : s[i] = Event(n)
  /\ \A i, j \in DOMAIN s :
       i < j /\ s[i].kind = "event" /\ s[j].kind = "event" => s[i].n < s[j].n

\* What a running server has written is read, queued, in hand or handled.
AllEmitted(s, b, n) ==
  /\ b <= n /\ \A m \in (b + 1)..n : \E i \in DOMAIN s : s[i] = Event(m)
  /\ \A i \in DOMAIN s : s[i].kind = "event" => s[i].n <= n

HeldNext == dispatcher = "check" /\ held # ErrEvent => held = dispatched + 1

QueueNext ==
  \A i \in DOMAIN eventCh :
    \/ eventCh[i] = LastTaken + i
    \/ eventCh[i] = ErrEvent /\ i = Len(eventCh) /\ reader = "stopped"

WireNext ==
  reader = "read" =>
    /\ InOrder(wire, LastQueued)
    /\ server = "up" => AllEmitted(wire, LastQueued, emitted)

ReaderClosed == \A t \in Closers : closer[t] \in {"failPending", "kill", "done"} => eventStop

OrderInv == ReaderClosed /\ (~eventStop => HeldNext /\ QueueNext /\ WireNext)

\* A dead app-server is reported: onError runs unless someone closes the
\* client first.  A callback that waits for a response must not keep the
\* dispatcher from the error event.
FailureReported ==
  (server = "exited") ~> (errorOnce = "done" \/ closing)

\* No call is left waiting by a dead process, with no help from its deadline.
CallsReleased ==
  \A c \in Calls : (server = "exited" /\ call[c] # "idle") ~> Finished(c)

\* docs/codex-app-server-state-machine-audit.md: at EOF the transport failure
\* is reported after the events already received have been handled.
EOFReportedAfterEvents ==
  [][errorOnce = "report" /\ errorOnce' = "done" /\ ~closing
       /\ reader \in {"eofEnqueue", "stopped"}
     => /\ \A i \in DOMAIN eventCh : eventCh[i] = ErrEvent
        /\ dispatcher # "check"]_vars

=============================================================================

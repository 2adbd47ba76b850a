---------------------------- MODULE ClaudeSession ----------------------------
(***************************************************************************)
(* One process of the Claude CLI and the Session that drives it            *)
(* (claudecli/session.go, protocol.go).                                    *)
(*                                                                         *)
(* Goroutines: the reader (readLoop), the waiter (waitLoop), one per       *)
(* control request of the CLI (answerControlRequest), one per control      *)
(* request of ours (sendControlRequestAndWait), Stop, and callers of       *)
(* SendMessage, SendSteerInput and Interrupt, whose bodies run under mu.   *)
(* The CLI itself is external.  Turn numbers are those of the code; a      *)
(* user message of the wire is the number of its turn, or Steer.           *)
(***************************************************************************)
EXTENDS Integers, Sequences, FiniteSets, SequencesExt

CONSTANTS
  Ctls,          \* control requests we send (initialize, set_model, ...)
  Asks,          \* control requests the CLI sends (can_use_tool)
  MaxTurns,      \* bound: SendMessage calls
  MaxSteers,     \* bound: SendSteerInput calls
  Chatter,       \* the kinds of frame the CLI sends besides its results
  MaxChatter,    \* bound: how many of those
  EventBuffer    \* EventBufferSize

VARIABLES
  life,     \* started, stopped, done, closed (events), waited (waitDone)
  table,    \* number, current, pending, turns; per turn its tool and text
  cli,      \* external: alive, messages not read, current round, chatter
  stdout,   \* frames the CLI has written and the reader has not read
  pipe,     \* our end of stdout: "open", or "closed" by cmd.Wait
  reader,   \* pc of readLoop and the events it is about to emit
  events,   \* the channel
  rlock,    \* goroutines inside emit, between its check of done and its send
  ctl,      \* our control requests: pc and response slot
  ask,      \* the CLI's: pc of the goroutine, entry in interactive, withdrawn
  stopper,  \* pc of Stop
  hist      \* history: delivered and dropped completions, late steers

vars == <<life, table, cli, stdout, pipe, reader, events, rlock, ctl, ask,
          stopper, hist>>

Turns == 1 .. MaxTurns
NoTurn == 0
Steer == -1               \* a user message that belongs to no turn of ours
Reader == "reader"

\* parseWireMessage: the types of frame, and one it cannot parse.  "long" is a
\* line beyond the scanner's buffer, which ReadLine reports as an error.
AllChatter == {"system", "start", "text", "tool", "toolResult", "bad", "long"}

ASSUME ClaudeAssumption == MaxTurns \in Nat /\ Chatter \subseteq AllChatter

Frame(kind, of) == [kind |-> kind, of |-> of]

\* An event of turn t; a completion also says whose message the CLI answered.
Event(kind, t) == [kind |-> kind, turn |-> t, of |-> t]
NoEvent == Event("none", NoTurn)

TypeOK ==
  /\ life \in [started : BOOLEAN, stopped : BOOLEAN, done : BOOLEAN,
               closed : BOOLEAN, waited : BOOLEAN]
  /\ table.number \in 0 .. MaxTurns /\ table.current \in 0 .. MaxTurns
  /\ table.turns \subseteq Turns /\ ToSet(table.pending) \subseteq table.turns
  /\ table.current \in table.turns \cup {NoTurn}
  /\ table.tool \in [Turns -> {"none", "started", "completed"}]
  /\ table.seen \subseteq Turns
  /\ cli.alive \in BOOLEAN /\ cli.stdin \in BOOLEAN
  /\ cli.round \in Turns \cup {NoTurn, Steer} /\ cli.chatter \in 0 .. MaxChatter
  /\ pipe \in {"open", "closed"}
  /\ reader.pc \in {"new", "loop", "enter", "emit", "close", "mark", "lock", "gone"}
  /\ Len(events) <= EventBuffer
  /\ rlock \subseteq {Reader} \cup Asks
  /\ ctl \in [Ctls -> [pc : {"new", "write", "wait", "ok", "error"},
                       slot : {"empty", "success", "error"}]]
  /\ ask \in [Asks -> [pc : {"idle", "wait", "enter", "emit", "check", "write",
                             "release"},
                       open : BOOLEAN, withdrawn : BOOLEAN,
                       failed : {"handler", "write"},
                       handlers : 0 .. 1, spawned : 0 .. MaxChatter]]
  /\ stopper \in {"new", "wait", "close", "mark", "lock", "end"}

Init ==
  /\ life = [started |-> FALSE, stopped |-> FALSE, done |-> FALSE,
             closed |-> FALSE, waited |-> FALSE]
  /\ table = [number |-> 0, current |-> NoTurn, pending |-> <<>>, turns |-> {},
              tool |-> [t \in Turns |-> "none"], seen |-> {}]
  /\ cli = [alive |-> FALSE, inbox |-> <<>>, round |-> NoTurn, chatter |-> 0,
            asked |-> {}, stdin |-> FALSE]
  /\ stdout = <<>> /\ pipe = "open" /\ events = <<>> /\ rlock = {}
  /\ reader = [pc |-> "new", out |-> NoEvent]
  /\ ctl = [c \in Ctls |-> [pc |-> "new", slot |-> "empty"]]
  /\ ask = [q \in Asks |-> [pc |-> "idle", open |-> FALSE, withdrawn |-> FALSE,
                            failed |-> "write", handlers |-> 0, spawned |-> 0]]
  /\ stopper = "new"
  /\ hist = [ended |-> {}, dropped |-> {}, foreign |-> {}, steers |-> 0,
             steerRound |-> FALSE]
-----------------------------------------------------------------------------
(* Start, SendMessage, SendSteerInput, Interrupt.                          *)

\* Start, with the goroutines it spawns; the start of the process may fail,
\* which leaves the session as it was.
Start ==
  /\ ~life.started
  /\ life' = [life EXCEPT !.started = TRUE]
  /\ cli' = [cli EXCEPT !.alive = TRUE, !.stdin = TRUE]
  /\ reader' = [reader EXCEPT !.pc = "loop"]
  /\ UNCHANGED <<table, stdout, pipe, events, rlock, ctl, ask, stopper, hist>>

Usable == life.started /\ ~life.stopped

\* ndjsonWriter.Write: the frame reaches the CLI while it reads its stdin; a
\* dead process makes the write fail.
CanWrite == cli.alive /\ cli.stdin

\* Mutant of RegisterTurn: a queued turn becomes current at once
RegisterTurnCurrent(tab) ==
  LET t == tab.number + 1 IN
    [tab EXCEPT !.number = t, !.turns = @ \cup {t}, !.current = t]

\* SendMessage's bookkeeping: the turn is current, or waits for its turn
RegisterTurn(tab) ==
  LET t == tab.number + 1 IN
    [tab EXCEPT !.number = t, !.turns = @ \cup {t},
                !.current = IF @ = NoTurn THEN t ELSE @,
                !.pending = IF tab.current = NoTurn THEN @ ELSE Append(@, t)]

\* SendMessage: the turn is registered before the write, and stays registered
\* when the write fails.
SendMessage ==
  /\ Usable /\ table.number < MaxTurns
  /\ table' = RegisterTurn(table)
  /\ cli' = IF CanWrite THEN [cli EXCEPT !.inbox = Append(@, table'.number)]
            ELSE cli
  /\ UNCHANGED <<life, stdout, pipe, reader, events, rlock, ctl, ask, stopper,
                 hist>>

\* SendSteerInput: no turn of its own
SendSteerInput ==
  /\ Usable /\ hist.steers < MaxSteers
  /\ table.current # NoTurn /\ CanWrite
  /\ cli' = [cli EXCEPT !.inbox = Append(@, Steer)]
  /\ hist' = [hist EXCEPT !.steers = @ + 1]
  /\ UNCHANGED <<life, table, stdout, pipe, reader, events, rlock, ctl, ask,
                 stopper>>
-----------------------------------------------------------------------------
(* emit and closeEvents.                                                   *)

\* emit: eventsMu.RLock and the check of done; TRUE iff p goes on to the send
EmitEnter(p) == rlock' = IF life.done THEN rlock ELSE rlock \cup {p}

\* Mutant of EmitSend: a full channel drops its oldest event
EmitSendOver(p, e) ==
  /\ p \in rlock /\ rlock' = rlock \ {p}
  /\ events' = IF Len(events) < EventBuffer THEN Append(events, e)
               ELSE Append(Tail(events), e)
  /\ hist' = hist

\* emit's second select: a full channel drops the event, and so may a session
\* that is done by now.
EmitSend(p, e) ==
  /\ p \in rlock /\ rlock' = rlock \ {p}
  /\ \/ /\ Len(events) < EventBuffer
        /\ events' = Append(events, e) /\ hist' = hist
     \/ /\ Len(events) >= EventBuffer \/ life.done
        /\ events' = events
        /\ hist' = IF e.kind = "complete"
                   THEN [hist EXCEPT !.dropped = @ \cup {e.turn}] ELSE hist

\* Mutant of CloseChannel: the channel is closed under a sender
CloseChannelNow == life' = [life EXCEPT !.closed = TRUE]

\* closeEvents: eventsMu.Lock waits for the senders, then the channel is closed
CloseChannel == rlock = {} /\ life' = [life EXCEPT !.closed = TRUE]

\* closeEvents in three steps, once for both its callers: closeDone, which
\* cancels the context of the interactive handlers; stopped; the channel.
CloseEvents(pc, next) ==
  \/ pc = "close" /\ life' = [life EXCEPT !.done = TRUE] /\ next = "mark"
  \/ pc = "mark" /\ life' = [life EXCEPT !.stopped = TRUE] /\ next = "lock"
  \/ /\ pc = "lock" /\ next = "gone"
     /\ IF life.closed THEN life' = life ELSE CloseChannel
-----------------------------------------------------------------------------
(* handleLine: what a frame does to the turn table, and the event it       *)
(* causes.                                                                 *)

Silent(tab) == [tab |-> tab, out |-> NoEvent]
Report(tab, e) == [tab |-> tab, out |-> e]

\* handleSystemMessage: init, background tasks and turn durations are events
HandleSystem == Report(table, Event("system", NoTurn))

\* handleStreamMessage: message_start makes the next pending turn current when
\* none is, and reports its start
HandleStart ==
  LET tab == IF table.current = NoTurn /\ table.pending # <<>>
             THEN [table EXCEPT !.current = Head(table.pending),
                                !.pending = Tail(@)]
             ELSE table
  IN  IF tab.current = NoTurn THEN Silent(tab)
      ELSE Report(tab, Event("started", tab.current))

\* handleAssistantMessage: a text or thinking block of the current turn
\* (markAssistantBlockSeen reports a block once)
HandleText ==
  IF table.current \in table.turns \ table.seen
  THEN Report([table EXCEPT !.seen = @ \cup {table.current}],
              Event("text", table.current))
  ELSE Silent(table)

\* startToolFromAssistant
HandleTool ==
  IF table.current \in table.turns /\ table.tool[table.current] = "none"
  THEN Report([table EXCEPT !.tool[table.current] = "started"],
              Event("tool", table.current))
  ELSE Silent(table)

\* completeToolFromResult: the tool may belong to any turn still in the table
HandleToolResult ==
  LET running == {t \in table.turns : table.tool[t] = "started"} IN
    IF running = {} THEN Silent(table)
    ELSE LET t == CHOOSE u \in running : TRUE IN
         Report([table EXCEPT !.tool[t] = "completed"], Event("toolDone", t))

\* handleResultMessage: the current turn leaves the table, the next pending
\* turn begins
NextTurn(tab) ==
  [tab EXCEPT !.turns = @ \ {tab.current},
              !.current = IF tab.pending = <<>> THEN NoTurn ELSE Head(tab.pending),
              !.pending = IF @ = <<>> THEN @ ELSE Tail(@)]

Completion(t, of) == [Event("complete", t) EXCEPT !.of = of]

HandleResult(of) ==
  IF table.current = NoTurn THEN Silent(table)
  ELSE Report(NextTurn(table), Completion(table.current, of))

\* emitError names the current turn
ErrorEvent == Event("error", table.current)

\* handleLine, for the frames that are no control messages
HandleLine(f) ==
  CASE f.kind = "system" -> HandleSystem
    [] f.kind = "start" -> HandleStart
    [] f.kind = "text" -> HandleText
    [] f.kind = "tool" -> HandleTool
    [] f.kind = "toolResult" -> HandleToolResult
    [] f.kind = "result" -> HandleResult(f.of)
    [] f.kind = "bad" -> Report(table, ErrorEvent)
-----------------------------------------------------------------------------
(* readLoop.                                                               *)

Reading == reader.pc = "loop" /\ ~life.done /\ pipe = "open" /\ stdout # <<>>
NextFrame == Head(stdout)
Controls == {"ask", "cancel", "response"}

ReadTurnFrame ==
  /\ Reading /\ NextFrame.kind \notin Controls \cup {"long"}
  /\ LET r == HandleLine(NextFrame) IN
       /\ table' = r.tab
       /\ reader' = IF r.out = NoEvent THEN reader
                    ELSE [pc |-> "enter", out |-> r.out]
  /\ stdout' = Tail(stdout)
  /\ UNCHANGED <<life, cli, pipe, events, rlock, ctl, ask, stopper, hist>>

\* handleControlRequest: the request is answered on a goroutine of its own
ReadControlRequest ==
  /\ Reading /\ NextFrame.kind = "ask"
  /\ ask' = [ask EXCEPT ![NextFrame.of].spawned = @ + 1]
  /\ stdout' = Tail(stdout)
  /\ UNCHANGED <<life, table, cli, pipe, reader, events, rlock, ctl, stopper,
                 hist>>

\* handleControlCancelRequest: the context of the handler is canceled
HandleControlCancel(q) ==
  ask' = IF ask[q].open THEN [ask EXCEPT ![q].withdrawn = TRUE] ELSE ask

ReadControlCancel ==
  /\ Reading /\ NextFrame.kind = "cancel"
  /\ HandleControlCancel(NextFrame.of)
  /\ stdout' = Tail(stdout)
  /\ UNCHANGED <<life, table, cli, pipe, reader, events, rlock, ctl, stopper,
                 hist>>

\* handleControlResponse: the slot of a registered request, unless it is full
HandleControlResponse(c, outcome) ==
  ctl' = IF ctl[c].pc \in {"write", "wait"} /\ ctl[c].slot = "empty"
         THEN [ctl EXCEPT ![c].slot = outcome] ELSE ctl

ReadControlResponse ==
  /\ Reading /\ NextFrame.kind = "response"
  /\ \E outcome \in {"success", "error"} :
       HandleControlResponse(NextFrame.of, outcome)
  /\ stdout' = Tail(stdout)
  /\ UNCHANGED <<life, table, cli, pipe, reader, events, rlock, ask, stopper,
                 hist>>

\* ReadLine fails: the pipe has ended, was closed by the waiter, or holds a line
\* beyond the scanner's buffer.  The failure is an event unless the session is
\* stopped (emitProcessExit, emitError), and ends the loop.
ReadFails ==
  /\ reader.pc = "loop" /\ ~life.done
  /\ \/ pipe = "closed"
     \/ stdout = <<>> /\ ~cli.alive
     \/ stdout # <<>> /\ NextFrame.kind = "long"
  /\ reader' = IF life.stopped THEN [pc |-> "close", out |-> NoEvent]
               ELSE [pc |-> "enter", out |-> Event("exit", table.current)]
  /\ UNCHANGED <<life, table, cli, stdout, pipe, events, rlock, ctl, ask,
                 stopper, hist>>

\* readLoop's check of done
ReaderDone ==
  /\ reader.pc = "loop" /\ life.done
  /\ reader' = [reader EXCEPT !.pc = "close"]
  /\ UNCHANGED <<life, table, cli, stdout, pipe, events, rlock, ctl, ask,
                 stopper, hist>>

AfterEmit == IF reader.out.kind = "exit" THEN "close" ELSE "loop"

ReaderEmitEnter ==
  /\ reader.pc = "enter" /\ EmitEnter(Reader)
  /\ reader' = IF Reader \in rlock' THEN [reader EXCEPT !.pc = "emit"]
               ELSE [pc |-> AfterEmit, out |-> NoEvent]
  /\ UNCHANGED <<life, table, cli, stdout, pipe, events, ctl, ask, stopper,
                 hist>>

ReaderEmitSend ==
  /\ reader.pc = "emit" /\ EmitSend(Reader, reader.out)
  /\ reader' = [pc |-> AfterEmit, out |-> NoEvent]
  /\ UNCHANGED <<life, table, cli, stdout, pipe, ctl, ask, stopper>>

\* readLoop's deferred closeEvents
ReaderClose ==
  /\ \E next \in {"mark", "lock", "gone"} :
       CloseEvents(reader.pc, next) /\ reader' = [reader EXCEPT !.pc = next]
  /\ UNCHANGED <<table, cli, stdout, pipe, events, rlock, ctl, ask, stopper,
                 hist>>

\* waitLoop: cmd.Wait returns once the process is gone and closes our end of
\* its stdout, with whatever was not read
WaitLoop ==
  /\ life.started /\ ~cli.alive /\ ~life.waited
  /\ life' = [life EXCEPT !.waited = TRUE]
  /\ pipe' = "closed" /\ stdout' = <<>>
  /\ UNCHANGED <<table, cli, reader, events, rlock, ctl, ask, stopper, hist>>
-----------------------------------------------------------------------------
(* Stop.                                                                   *)

\* Stop's guard under mu: a session that is stopped already is left alone
StopBegin ==
  /\ stopper = "new" /\ life.started
  /\ IF life.stopped
     THEN stopper' = "end" /\ UNCHANGED <<life, cli>>
     ELSE /\ stopper' = "wait"
          /\ life' = [life EXCEPT !.stopped = TRUE, !.done = TRUE]
          /\ cli' = [cli EXCEPT !.stdin = FALSE]
  /\ UNCHANGED <<table, stdout, pipe, reader, events, rlock, ctl, ask, hist>>

\* Stop's waits: the process exits by itself, or is killed
StopWait ==
  /\ stopper = "wait"
  /\ cli' = [cli EXCEPT !.alive = FALSE]
  /\ stopper' = "close"
  /\ UNCHANGED <<life, table, stdout, pipe, reader, events, rlock, ctl, ask,
                 hist>>

StopClose ==
  /\ \E next \in {"mark", "lock", "gone"} :
       /\ CloseEvents(stopper, next)
       /\ stopper' = IF next = "gone" THEN "end" ELSE next
  /\ UNCHANGED <<table, cli, stdout, pipe, reader, events, rlock, ctl, ask,
                 hist>>
-----------------------------------------------------------------------------
(* sendControlRequestAndWait: Initialize, SetModel, SetEffort,             *)
(* SetPermissionMode.                                                      *)

\* the request is registered under mu, and refused when the session is stopped
CtlRegister(c) ==
  /\ ctl[c].pc = "new" /\ life.started
  /\ ctl' = [ctl EXCEPT ![c].pc = IF life.stopped THEN "error" ELSE "write"]
  /\ UNCHANGED <<life, table, cli, stdout, pipe, reader, events, rlock, ask,
                 stopper, hist>>

\* the write, outside mu
CtlWrite(c) ==
  /\ ctl[c].pc = "write"
  /\ IF CanWrite
     THEN /\ cli' = [cli EXCEPT !.asked = @ \cup {c}]
          /\ ctl' = [ctl EXCEPT ![c].pc = "wait"]
     ELSE cli' = cli /\ ctl' = [ctl EXCEPT ![c].pc = "error"]
  /\ UNCHANGED <<life, table, stdout, pipe, reader, events, rlock, ask,
                 stopper, hist>>

\* Mutant of CtlReleased: the waiter only looks at its response
CtlResponded(c) == ctl[c].slot # "empty"

\* What ends the wait: the response, the end of the session or of the process.
\* The deadline of the caller's context is left out.
CtlReleased(c) == ctl[c].slot # "empty" \/ life.done \/ life.waited

CtlReturn(c) ==
  /\ ctl[c].pc = "wait" /\ CtlReleased(c)
  /\ \/ /\ ctl[c].slot # "empty"
        /\ ctl' = [ctl EXCEPT ![c].pc =
                     IF ctl[c].slot = "success" THEN "ok" ELSE "error"]
     \/ /\ life.done \/ life.waited
        /\ ctl' = [ctl EXCEPT ![c].pc = "error"]
  /\ UNCHANGED <<life, table, cli, stdout, pipe, reader, events, rlock, ask,
                 stopper, hist>>
-----------------------------------------------------------------------------
(* answerControlRequest.                                                   *)

\* Mutant of RegisterInteractive: a replayed request gets a second handler
RegisterAgain(q) ==
  ask' = [ask EXCEPT ![q].spawned = @ - 1, ![q].open = TRUE,
                     ![q].withdrawn = FALSE, ![q].pc = "wait",
                     ![q].handlers = @ + 1]

\* registerInteractive: the frame of a request that is being answered is a
\* replay and is dropped
RegisterInteractive(q) ==
  ask' = IF ask[q].open THEN [ask EXCEPT ![q].spawned = @ - 1]
         ELSE [ask EXCEPT ![q].spawned = @ - 1, ![q].open = TRUE,
                          ![q].withdrawn = FALSE, ![q].pc = "wait",
                          ![q].handlers = @ + 1]

AskRegister(q) ==
  /\ ask[q].spawned > 0
  /\ RegisterInteractive(q)
  /\ UNCHANGED <<life, table, cli, stdout, pipe, reader, events, rlock, ctl,
                 stopper, hist>>

\* The context of the handler is canceled: by the CLI or with the session
HandlerReleased(q) == ask[q].withdrawn \/ life.done

\* buildAskUserQuestionResponse, buildExitPlanModeResponse,
\* buildPermissionResponse: the handler returns the user's answer, or, released,
\* a denial; a failing permission handler is also reported (emitError)
AskReturn(q) ==
  /\ ask[q].pc = "wait"
  /\ \/ ask' = [ask EXCEPT ![q].pc = "check"]             \* the user answers
     \/ /\ HandlerReleased(q)
        /\ \/ ask' = [ask EXCEPT ![q].pc = "check"]
           \/ ask' = [ask EXCEPT ![q].pc = "enter", ![q].failed = "handler"]
  /\ UNCHANGED <<life, table, cli, stdout, pipe, reader, events, rlock, ctl,
                 stopper, hist>>

\* The user's answer is a choice of the environment, the rest is the code's.
AskReleasedReturn(q) == HandlerReleased(q) /\ AskReturn(q)

\* A withdrawn request, and a stopped session, get no response.
AskCheck(q) ==
  /\ ask[q].pc = "check"
  /\ ask' = [ask EXCEPT ![q].pc = IF ask[q].withdrawn \/ life.stopped
                                  THEN "release" ELSE "write"]
  /\ UNCHANGED <<life, table, cli, stdout, pipe, reader, events, rlock, ctl,
                 stopper, hist>>

\* writeControlResponse
AskWrite(q) ==
  /\ ask[q].pc = "write"
  /\ ask' = IF CanWrite THEN [ask EXCEPT ![q].pc = "release"]
            ELSE [ask EXCEPT ![q].pc = "enter", ![q].failed = "write"]
  /\ UNCHANGED <<life, table, cli, stdout, pipe, reader, events, rlock, ctl,
                 stopper, hist>>

AfterAskEmit(q) == IF ask[q].failed = "handler" THEN "check" ELSE "release"

\* emitError of a handler goroutine
AskEmitEnter(q) ==
  /\ ask[q].pc = "enter" /\ EmitEnter(q)
  /\ ask' = [ask EXCEPT ![q].pc = IF q \in rlock' THEN "emit" ELSE AfterAskEmit(q)]
  /\ UNCHANGED <<life, table, cli, stdout, pipe, reader, events, ctl, stopper,
                 hist>>

AskEmitSend(q) ==
  /\ ask[q].pc = "emit" /\ EmitSend(q, ErrorEvent)
  /\ ask' = [ask EXCEPT ![q].pc = AfterAskEmit(q)]
  /\ UNCHANGED <<life, table, cli, stdout, pipe, reader, ctl, stopper>>

\* releaseInteractive
AskRelease(q) ==
  /\ ask[q].pc = "release"
  /\ ask' = [ask EXCEPT ![q].pc = "idle", ![q].open = FALSE, ![q].handlers = @ - 1]
  /\ UNCHANGED <<life, table, cli, stdout, pipe, reader, events, rlock, ctl,
                 stopper, hist>>
-----------------------------------------------------------------------------
(* The consumer of the events, and the CLI (external).                     *)

\* Events(): the runtime takes the next event
Consume ==
  /\ events # <<>>
  /\ events' = Tail(events)
  /\ LET e == Head(events) IN
       hist' = IF e.kind = "complete"
               THEN [hist EXCEPT !.ended = @ \cup {e.turn},
                                 !.foreign = IF e.of = e.turn THEN @
                                             ELSE @ \cup {e.turn}]
               ELSE hist
  /\ UNCHANGED <<life, table, cli, stdout, pipe, reader, rlock, ctl, ask,
                 stopper>>

\* external: the next message begins a round; a steer joins the round that runs,
\* or is a round of its own when the CLI finds it too late
CliReads ==
  /\ cli.alive /\ cli.inbox # <<>>
  /\ \/ /\ cli.round = NoTurn
        /\ cli' = [cli EXCEPT !.round = Head(cli.inbox), !.inbox = Tail(@)]
        /\ hist' = [hist EXCEPT !.steerRound = @ \/ Head(cli.inbox) = Steer]
     \/ /\ cli.round # NoTurn /\ Head(cli.inbox) = Steer
        /\ cli' = [cli EXCEPT !.inbox = Tail(@)] /\ hist' = hist
  /\ UNCHANGED <<life, table, stdout, pipe, reader, events, rlock, ctl, ask,
                 stopper>>

\* external: the round ends
CliResult ==
  /\ cli.alive /\ cli.round # NoTurn
  /\ stdout' = Append(stdout, Frame("result", cli.round))
  /\ cli' = [cli EXCEPT !.round = NoTurn]
  /\ UNCHANGED <<life, table, pipe, reader, events, rlock, ctl, ask, stopper,
                 hist>>

\* external: any other frame
CliChatter ==
  /\ cli.alive /\ cli.chatter < MaxChatter
  /\ \E f \in {Frame(k, NoTurn) : k \in Chatter}
              \cup {Frame(k, q) : k \in {"ask", "cancel"}, q \in Asks} :
       stdout' = Append(stdout, f)
  /\ cli' = [cli EXCEPT !.chatter = @ + 1]
  /\ UNCHANGED <<life, table, pipe, reader, events, rlock, ctl, ask, stopper,
                 hist>>

\* external: the response to one of our control requests
CliResponds(c) ==
  /\ cli.alive /\ c \in cli.asked
  /\ cli' = [cli EXCEPT !.asked = @ \ {c}]
  /\ stdout' = Append(stdout, Frame("response", c))
  /\ UNCHANGED <<life, table, pipe, reader, events, rlock, ctl, ask, stopper,
                 hist>>

\* external: the process exits, by itself or because its stdin was closed
CliExits ==
  /\ cli.alive
  /\ cli' = [cli EXCEPT !.alive = FALSE]
  /\ UNCHANGED <<life, table, stdout, pipe, reader, events, rlock, ctl, ask,
                 stopper, hist>>
-----------------------------------------------------------------------------
ReaderStep ==
  ReadTurnFrame \/ ReadControlRequest \/ ReadControlCancel
    \/ ReadControlResponse \/ ReadFails \/ ReaderDone \/ ReaderEmitEnter
    \/ ReaderEmitSend \/ ReaderClose

CtlStep(c) == CtlRegister(c) \/ CtlWrite(c) \/ CtlReturn(c)

AskStep(q) ==
  AskRegister(q) \/ AskReleasedReturn(q) \/ AskCheck(q) \/ AskWrite(q)
    \/ AskEmitEnter(q) \/ AskEmitSend(q) \/ AskRelease(q)

StopStep == StopBegin \/ StopWait \/ StopClose

Next ==
  \/ Start \/ SendMessage \/ SendSteerInput
  \/ ReaderStep \/ WaitLoop \/ StopStep \/ Consume
  \/ \E c \in Ctls : CtlStep(c) \/ CliResponds(c)
  \/ \E q \in Asks : AskStep(q) \/ AskReturn(q)
  \/ CliReads \/ CliResult \/ CliChatter \/ CliExits

\* The goroutines run, Stop's kill is effective, the runtime drains the events
\* and the CLI works on what it was sent.  Nobody has to call Stop or to answer.
Fairness ==
  /\ WF_vars(ReaderStep) /\ WF_vars(WaitLoop) /\ WF_vars(Consume)
  /\ WF_vars(StopWait \/ StopClose)
  /\ \A c \in Ctls : WF_vars(CtlWrite(c) \/ CtlReturn(c)) /\ WF_vars(CliResponds(c))
  /\ \A q \in Asks : WF_vars(AskStep(q))
  /\ WF_vars(CliReads) /\ WF_vars(CliResult)

Spec == Init /\ [][Next]_vars
FairSpec == Spec /\ Fairness
-----------------------------------------------------------------------------
(* Properties.                                                             *)

\* The channel is never closed between emit's check of done and its send, by
\* either of the two that close it: a send on a closed channel panics
\* (eventsMu in emit and closeEvents).
NoSendOnClosed == life.closed => rlock = {}

\* handleResultMessage gives a result to the current turn without a name on the
\* wire to compare.  It is the right turn as long as no steer has become a
\* round of its own.
OwnResult == hist.foreign # {} => hist.steerRound

\* Every turn that was accepted ends for the runtime: its completion is
\* consumed, was dropped at the limit of the buffer, or the channel is closed.
EveryTurnEnds ==
  \A t \in Turns :
    t \in table.turns ~> t \in hist.ended \cup hist.dropped \/ life.closed

\* Nothing outlives the session: once it is done, every caller of a control
\* request and every handler of a request of the CLI returns.
SessionReleases ==
  life.done ~> /\ \A c \in DOMAIN ctl : ctl[c].pc \notin {"write", "wait"}
               /\ \A q \in DOMAIN ask : ask[q].pc = "idle"

\* runtime/claude/service.go says of the end of the events that "the event loop
\* only exits when the CLI process is gone", and writeControlResponse of a
\* stopped session that "the CLI process is gone".  With the process killed by
\* whoever stops the session, a closed channel would lead to a dead process.
ClosedMeansGone == life.closed /\ stopper = "end" ~> ~cli.alive
=============================================================================

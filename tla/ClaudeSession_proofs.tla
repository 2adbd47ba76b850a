------------------------- MODULE ClaudeSession_proofs -------------------------
(***************************************************************************)
(* A session of the Claude CLI never sends on the closed event channel,    *)
(* and gives every result to the turn it answers as long as no steer has   *)
(* become a round of its own: for any number of turns, steers, control and *)
(* interactive requests, and any size of the event channel.                *)
(***************************************************************************)
EXTENDS ClaudeSession, SequenceTheorems, TLAPS

(* The inductive invariant.                                                *)

Names == Int \cup Asks \cup Ctls
Frames == [kind : AllChatter \cup {"result", "ask", "cancel", "response"},
           of : Names]
Notices == [kind : {"none", "system", "started", "text", "tool", "toolDone",
                    "complete", "error", "exit"},
            turn : Int, of : Names]

Pcs == {"new", "loop", "enter", "emit", "close", "mark", "lock", "gone"}

Tables == [number : 0 .. MaxTurns, current : Nat, pending : Seq(Nat),
           turns : SUBSET Turns, seen : SUBSET Turns,
           tool : [Turns -> {"none", "started", "completed"}]]

Types ==
  /\ life \in [started : BOOLEAN, stopped : BOOLEAN, done : BOOLEAN,
               closed : BOOLEAN, waited : BOOLEAN]
  /\ table \in Tables
  /\ cli \in [alive : BOOLEAN, inbox : Seq(Int), round : Int, chatter : Int,
              asked : SUBSET Ctls, stdin : BOOLEAN]
  /\ stdout \in Seq(Frames)
  /\ reader \in [pc : Pcs, out : Notices]
  /\ events \in Seq(Notices)
  /\ hist \in [ended : SUBSET Int, dropped : SUBSET Int, foreign : SUBSET Int,
               steers : Int, steerRound : BOOLEAN]

\* Whoever is about to close the channel has announced the end of the session.
Sealed ==
  /\ life.closed => life.done /\ rlock = {}
  /\ reader.pc \in {"mark", "lock"} => life.done
  /\ stopper \in {"wait", "close", "mark", "lock"} => life.done

\* The turns without a result: the current one and those that follow it.
Table ==
  /\ table.current <= table.number
  /\ IF table.current = NoTurn THEN table.pending = <<>>
     ELSE /\ Len(table.pending) = table.number - table.current
          /\ \A k \in DOMAIN table.pending : table.pending[k] = table.current + k
  /\ ~life.started => table.current = NoTurn

\* The message of turn t waits for the CLI, is its round, or has its result
\* written.
Waiting(t) == \E l \in DOMAIN cli.inbox : cli.inbox[l] = t
Answered(t) ==
  \E k \in DOMAIN stdout : stdout[k].kind = "result" /\ stdout[k].of = t
InFlight(t) == Waiting(t) \/ cli.round = t \/ Answered(t)

\* Messages and results keep the order of the turns.
Order ==
  /\ cli.round \in Turns \cup {NoTurn}
  /\ \A k \in DOMAIN stdout : stdout[k].kind = "result" =>
       /\ stdout[k].of \in Turns
       /\ cli.round # NoTurn => stdout[k].of < cli.round
       /\ \A l \in DOMAIN cli.inbox :
            cli.inbox[l] # Steer => stdout[k].of < cli.inbox[l]
       /\ \A j \in DOMAIN stdout :
            j < k /\ stdout[j].kind = "result" => stdout[j].of < stdout[k].of
  /\ \A l \in DOMAIN cli.inbox : cli.inbox[l] # Steer =>
       /\ cli.inbox[l] \in Turns /\ cli.round < cli.inbox[l]
       /\ \A j \in DOMAIN cli.inbox :
            j < l /\ cli.inbox[j] # Steer => cli.inbox[j] < cli.inbox[l]

\* What is in flight begins with the current turn and has no gap; it is every
\* turn of the table as long as the CLI reads what is written to it.
Window ==
  /\ \A t \in Turns : InFlight(t) =>
       /\ table.current # NoTurn /\ t \in table.current .. table.number
       /\ \A u \in Turns : u \in table.current .. t => InFlight(u)
  /\ CanWrite /\ table.current # NoTurn =>
       \A t \in Turns : t \in table.current .. table.number => InFlight(t)

\* Completions name the turn whose message the CLI answered.
Own(e) == e.kind = "complete" => e.of = e.turn
Matched ==
  /\ Own(reader.out) /\ \A k \in DOMAIN events : Own(events[k])
  /\ hist.foreign = {}

\* cmd.Wait throws away what the reader has not read, and nothing is read after.
Paired ==
  /\ pipe # "open" => ~cli.alive /\ life.started
  /\ ~hist.steerRound => /\ Order /\ Matched
                         /\ pipe = "open" => Window

SessionInv == Types /\ Sealed /\ Table /\ Paired

-----------------------------------------------------------------------------
(* Sequences.                                                              *)

\* What appending to a sequence changes.
LEMMA Appended ==
  ASSUME NEW S, NEW s \in Seq(S), NEW x \in S
  PROVE  /\ Append(s, x) \in Seq(S) /\ Len(s) \in Nat
         /\ DOMAIN s = 1 .. Len(s) /\ DOMAIN Append(s, x) = 1 .. Len(s) + 1
         /\ \A k \in 1 .. Len(s) : Append(s, x)[k] = s[k]
         /\ Append(s, x)[Len(s) + 1] = x
  BY AppendProperties, LenProperties

\* What taking the first element of a sequence changes.
LEMMA Taken ==
  ASSUME NEW S, NEW s \in Seq(S), s # <<>>
  PROVE  /\ Head(s) = s[1] /\ Head(s) \in S /\ Tail(s) \in Seq(S)
         /\ Len(s) \in Nat \ {0} /\ Len(Tail(s)) = Len(s) - 1
         /\ DOMAIN s = 1 .. Len(s) /\ DOMAIN Tail(s) = 1 .. Len(s) - 1
         /\ \A k \in 1 .. Len(s) - 1 : Tail(s)[k] = s[k + 1]
  BY HeadTailProperties, LenProperties, EmptySeq
-----------------------------------------------------------------------------
(* The channel.                                                            *)

\* A sender is registered only while the session is not done.
LEMMA SealedStep ==
  ASSUME Types, Sealed, Next
  PROVE  Sealed'
<1>0. /\ life \in [started : BOOLEAN, stopped : BOOLEAN, done : BOOLEAN,
                   closed : BOOLEAN, waited : BOOLEAN]
      /\ reader \in [pc : Pcs, out : Notices]
  BY DEF Types
<1> USE <1>0 DEF Sealed
<1>1. ASSUME NEW p, EmitEnter(p), UNCHANGED life
      PROVE  life.closed => life.done /\ rlock' = {}
  BY <1>1 DEF EmitEnter
<1>2. ASSUME NEW p, NEW e, EmitSend(p, e) PROVE rlock # {} /\ rlock' \subseteq rlock
  BY <1>2 DEF EmitSend
<1>3. ASSUME NEW pc, NEW next, CloseEvents(pc, next),
             pc \in {"mark", "lock"} => life.done, UNCHANGED rlock
      PROVE  /\ next \in {"mark", "lock", "gone"}
             /\ life'.closed => life'.done /\ rlock' = {}
             /\ life.done => life'.done
             /\ next \in {"mark", "lock"} => life'.done
  BY <1>3 DEF CloseEvents, CloseChannel
<1>4. CASE Start \/ SendMessage \/ SendSteerInput
  BY <1>4 DEF Start, SendMessage, SendSteerInput
<1>5. CASE ReadTurnFrame \/ ReadControlRequest \/ ReadControlCancel
             \/ ReadControlResponse \/ ReadFails \/ ReaderDone
  BY <1>5 DEF ReadTurnFrame, ReadControlRequest, ReadControlCancel,
     ReadControlResponse, ReadFails, ReaderDone, Reading
<1>6. CASE ReaderEmitEnter
  BY <1>1, <1>6 DEF ReaderEmitEnter, AfterEmit
<1>7. CASE ReaderEmitSend
  BY <1>2, <1>7 DEF ReaderEmitSend, AfterEmit
<1>8. CASE ReaderClose
  <2>1. PICK next \in {"mark", "lock", "gone"} :
          CloseEvents(reader.pc, next) /\ reader' = [reader EXCEPT !.pc = next]
    BY <1>8 DEF ReaderClose
  <2> QED BY <1>3, <1>8, <2>1 DEF ReaderClose
<1>9. CASE WaitLoop BY <1>9 DEF WaitLoop
<1>10. CASE StopBegin BY <1>10 DEF StopBegin
<1>11. CASE StopWait BY <1>11 DEF StopWait
<1>12. CASE StopClose
  <2>1. PICK next \in {"mark", "lock", "gone"} :
          /\ CloseEvents(stopper, next)
          /\ stopper' = IF next = "gone" THEN "end" ELSE next
    BY <1>12 DEF StopClose
  <2> QED BY <1>3, <1>12, <2>1 DEF StopClose
<1>13. ASSUME NEW c \in Ctls, CtlStep(c) \/ CliResponds(c) PROVE Sealed'
  BY <1>13 DEF CtlStep, CtlRegister, CtlWrite, CtlReturn, CliResponds
<1>14. ASSUME NEW q \in Asks,
              AskRegister(q) \/ AskReturn(q) \/ AskReleasedReturn(q) \/ AskCheck(q)
                \/ AskWrite(q) \/ AskRelease(q)
       PROVE  Sealed'
  BY <1>14 DEF AskRegister, AskReturn, AskReleasedReturn, AskCheck, AskWrite,
     AskRelease
<1>15. ASSUME NEW q \in Asks, AskEmitEnter(q) PROVE Sealed'
  BY <1>1, <1>15 DEF AskEmitEnter
<1>16. ASSUME NEW q \in Asks, AskEmitSend(q) PROVE Sealed'
  BY <1>2, <1>16 DEF AskEmitSend
<1>17. CASE Consume \/ CliReads \/ CliResult \/ CliChatter \/ CliExits
  BY <1>17 DEF Consume, CliReads, CliResult, CliChatter, CliExits
<1> QED
  BY <1>4, <1>5, <1>6, <1>7, <1>8, <1>9, <1>10, <1>11, <1>12, <1>13, <1>14,
     <1>15, <1>16, <1>17 DEF Next, ReaderStep, StopStep, AskStep

-----------------------------------------------------------------------------
(* What a frame does to the turn table.                                    *)

\* A frame that is no result makes no turn current that was not, ends none and
\* reports no completion.
LEMMA OtherFrames ==
  ASSUME Types, Table, NEW f \in Frames,
         f.kind \notin Controls \cup {"long", "result"}
  PROVE  LET r == HandleLine(f) IN
           /\ r.tab \in Tables
           /\ r.tab.number = table.number /\ r.tab.current = table.current
           /\ r.tab.pending = table.pending
           /\ r.out \in Notices /\ Own(r.out)
<1> USE DEF Tables
<1> DEFINE r == HandleLine(f)
           Quiet(x) == /\ x.tab \in Tables /\ x.tab.number = table.number
                       /\ x.tab.current = table.current
                       /\ x.tab.pending = table.pending
                       /\ x.out \in Notices /\ Own(x.out)
<1>1. table \in Tables BY DEF Types
<1>2. \A k \in {"none", "system", "started", "text", "tool", "toolDone", "error"} :
        \A t \in Int : Event(k, t) \in Notices /\ Own(Event(k, t))
  BY DEF Event, Notices, Names, Own
<1>3. NoEvent \in Notices /\ Own(NoEvent) BY <1>2 DEF NoEvent, NoTurn
<1>4. ASSUME NEW tab \in Tables, NEW e \in Notices, Own(e),
             tab.number = table.number, tab.current = table.current,
             tab.pending = table.pending
      PROVE  Quiet(Report(tab, e)) /\ Quiet(Silent(tab))
  BY <1>3, <1>4 DEF Report, Silent
<1>5. table.current \in Int BY <1>1
<1>6. Quiet(HandleSystem)
  <2>1. Event("system", NoTurn) \in Notices /\ Own(Event("system", NoTurn))
    BY <1>2 DEF NoTurn
  <2> HIDE DEF Quiet
  <2> QED BY <1>1, <1>4, <2>1 DEF HandleSystem
<1>7. Quiet(HandleStart)
  <2>1. table.current = NoTurn => table.pending = <<>> BY DEF Table
  <2>2. HandleStart = IF table.current = NoTurn THEN Silent(table)
                      ELSE Report(table, Event("started", table.current))
    BY <2>1 DEF HandleStart
  <2> HIDE DEF Quiet
  <2> QED BY <1>1, <1>2, <1>3, <1>4, <1>5, <2>2
<1>8. Quiet(HandleText)
  <2>1. CASE table.current \in table.turns \ table.seen
    <3> DEFINE tab == [table EXCEPT !.seen = @ \cup {table.current}]
    <3>1. /\ tab \in Tables /\ tab.number = table.number
          /\ tab.current = table.current /\ tab.pending = table.pending
      BY <1>1, <2>1
    <3>2. HandleText = Report(tab, Event("text", table.current))
      BY <2>1 DEF HandleText
    <3> HIDE DEF Quiet, tab
    <3> QED BY <1>2, <1>4, <1>5, <3>1, <3>2
  <2>2. CASE table.current \notin table.turns \ table.seen
    <3>1. HandleText = Silent(table) BY <2>2 DEF HandleText
    <3> HIDE DEF Quiet
    <3> QED BY <1>1, <1>3, <1>4, <3>1
  <2> QED BY <2>1, <2>2
<1>9. Quiet(HandleTool)
  <2>1. CASE table.current \in table.turns /\ table.tool[table.current] = "none"
    <3> DEFINE tab == [table EXCEPT !.tool[table.current] = "started"]
    <3>1. tab = [table EXCEPT !.tool = [table.tool EXCEPT ![table.current] = "started"]]
      BY <1>1
    <3>2. [table.tool EXCEPT ![table.current] = "started"]
            \in [Turns -> {"none", "started", "completed"}]
      BY <1>1
    <3>3. /\ tab \in Tables /\ tab.number = table.number
          /\ tab.current = table.current /\ tab.pending = table.pending
      BY <1>1, <3>1, <3>2
    <3>4. HandleTool = Report(tab, Event("tool", table.current))
      BY <2>1 DEF HandleTool
    <3> HIDE DEF Quiet, tab
    <3> QED BY <1>2, <1>4, <1>5, <3>3, <3>4
  <2>2. CASE ~(table.current \in table.turns /\ table.tool[table.current] = "none")
    <3>1. HandleTool = Silent(table) BY <2>2 DEF HandleTool
    <3> HIDE DEF Quiet
    <3> QED BY <1>1, <1>3, <1>4, <3>1
  <2> QED BY <2>1, <2>2
<1>10. Quiet(HandleToolResult)
  <2> DEFINE running == {u \in table.turns : table.tool[u] = "started"}
  <2>1. CASE running = {}
    <3>1. HandleToolResult = Silent(table) BY <2>1 DEF HandleToolResult
    <3> HIDE DEF Quiet
    <3> QED BY <1>1, <1>3, <1>4, <3>1
  <2>2. CASE running # {}
    <3>1. PICK t \in running :
            HandleToolResult = Report([table EXCEPT !.tool[t] = "completed"],
                                      Event("toolDone", t))
      <4> DEFINE t == CHOOSE u \in running : TRUE
      <4>1. t \in running BY <2>2
      <4>2. HandleToolResult = Report([table EXCEPT !.tool[t] = "completed"],
                                      Event("toolDone", t))
        BY <2>2, Zenon DEF HandleToolResult
      <4> HIDE DEF t
      <4> QED BY <4>1, <4>2
    <3> DEFINE tab == [table EXCEPT !.tool[t] = "completed"]
    <3>2. tab = [table EXCEPT !.tool = [table.tool EXCEPT ![t] = "completed"]]
      BY <1>1
    <3>3. [table.tool EXCEPT ![t] = "completed"]
            \in [Turns -> {"none", "started", "completed"}]
      BY <1>1
    <3>4. /\ tab \in Tables /\ tab.number = table.number
          /\ tab.current = table.current /\ tab.pending = table.pending
      BY <1>1, <3>2, <3>3
    <3>5. t \in Int BY <1>1 DEF Turns
    <3>6. Event("toolDone", t) \in Notices /\ Own(Event("toolDone", t))
      BY <1>2, <3>5
    <3> HIDE DEF Quiet, tab, running
    <3>7. HandleToolResult = Report(tab, Event("toolDone", t)) BY <3>1 DEF tab
    <3> QED BY <1>4, <3>4, <3>6, <3>7
  <2> QED BY <2>1, <2>2
<1>11. Quiet(Report(table, ErrorEvent))
  BY <1>1, <1>2, <1>4, <1>5 DEF ErrorEvent
<1>12. f.kind \in {"system", "start", "text", "tool", "toolResult", "bad"}
  BY DEF Frames, AllChatter, Controls
<1>13. \/ r = HandleSystem \/ r = HandleStart \/ r = HandleText \/ r = HandleTool
       \/ r = HandleToolResult \/ r = Report(table, ErrorEvent)
  BY <1>12 DEF HandleLine
<1>14. Quiet(r)
  BY <1>6, <1>7, <1>8, <1>9, <1>10, <1>11, <1>13
<1> QED BY <1>14

\* A result ends the current turn and is reported under its number; the turn
\* after it becomes current.
LEMMA ResultFrame ==
  ASSUME Types, Table, NEW of \in Names
  PROVE  LET r == HandleResult(of) IN
           /\ r.tab \in Tables /\ r.tab.number = table.number
           /\ r.out \in Notices
           /\ table.current = NoTurn => r.tab = table /\ Own(r.out)
           /\ table.current # NoTurn =>
                /\ r.out.kind = "complete" /\ r.out.turn = table.current
                /\ r.out.of = of
                /\ IF table.current = table.number
                   THEN r.tab.current = NoTurn /\ r.tab.pending = <<>>
                   ELSE /\ r.tab.current = table.current + 1
                        /\ Len(r.tab.pending) = table.number - r.tab.current
                        /\ \A k \in DOMAIN r.tab.pending :
                             r.tab.pending[k] = r.tab.current + k
<1>1. table \in Tables BY DEF Types
<1>2. table.current \in Nat /\ table.number \in Nat /\ table.pending \in Seq(Nat)
      /\ table.turns \subseteq Turns
  BY <1>1, ClaudeAssumption DEF Tables, ClaudeAssumption
<1>3. CASE table.current = NoTurn
  <2>1. HandleResult(of) = [tab |-> table, out |-> NoEvent]
    BY <1>3 DEF HandleResult, Silent
  <2>2. NoEvent \in Notices /\ Own(NoEvent)
    BY DEF NoEvent, Event, NoTurn, Notices, Names, Own
  <2> QED BY <1>1, <1>3, <2>1, <2>2
<1>4. CASE table.current # NoTurn
  <2> DEFINE c == Completion(table.current, of)
             p == table.pending
             n == NextTurn(table)
  <2>1. HandleResult(of) = [tab |-> n, out |-> c]
    BY <1>4 DEF HandleResult, Report
  <2>2. c \in Notices /\ c.kind = "complete" /\ c.turn = table.current /\ c.of = of
    BY <1>2 DEF Completion, Event, Notices, Names
  <2>3. /\ Len(p) = table.number - table.current
        /\ \A k \in DOMAIN p : p[k] = table.current + k
    BY <1>4 DEF Table
  <2>4. n = [table EXCEPT !.turns = @ \ {table.current},
                          !.current = IF p = <<>> THEN NoTurn ELSE Head(p),
                          !.pending = IF p = <<>> THEN p ELSE Tail(p)]
    BY DEF NextTurn
  <2>5. CASE p = <<>>
    <3>1. table.current = table.number BY <1>2, <2>3, <2>5
    <3>2. n.current = NoTurn /\ n.pending = <<>> /\ n.number = table.number
      BY <1>1, <2>4, <2>5 DEF Tables
    <3>3. n \in Tables
      <4>1. NoTurn \in Nat /\ table.turns \ {table.current} \in SUBSET Turns
        BY <1>2 DEF NoTurn
      <4>2. n = [table EXCEPT !.turns = table.turns \ {table.current},
                              !.current = NoTurn, !.pending = p]
        BY <1>1, <2>4, <2>5 DEF Tables
      <4> HIDE DEF n
      <4> QED BY <1>1, <1>2, <4>1, <4>2 DEF Tables
    <3> HIDE DEF c, n
    <3> QED BY <1>4, <2>1, <2>2, <3>1, <3>2, <3>3
  <2>6. CASE p # <<>>
    <3>1. /\ Head(p) = p[1] /\ Head(p) \in Nat /\ Tail(p) \in Seq(Nat)
          /\ Len(p) \in Nat \ {0} /\ Len(Tail(p)) = Len(p) - 1
          /\ DOMAIN p = 1 .. Len(p) /\ DOMAIN Tail(p) = 1 .. Len(p) - 1
          /\ \A k \in 1 .. Len(p) - 1 : Tail(p)[k] = p[k + 1]
      BY <1>2, <2>6, Taken
    <3>2. n.current = Head(p) /\ n.pending = Tail(p) /\ n.number = table.number
      BY <1>1, <2>4, <2>6 DEF Tables
    <3>3. n \in Tables BY <1>1, <2>4, <2>6, <3>1 DEF Tables
    <3>4. table.current # table.number /\ n.current = table.current + 1
      <4>1. p[1] = table.current + 1 BY <2>3, <3>1
      <4> HIDE DEF n, p
      <4> QED BY <1>2, <2>3, <3>1, <3>2, <4>1
    <3>5. Len(n.pending) = table.number - n.current
      BY <1>2, <2>3, <3>1, <3>2, <3>4
    <3>6. ASSUME NEW k \in DOMAIN n.pending
          PROVE  n.pending[k] = n.current + k
      <4>1. k \in 1 .. Len(p) - 1 /\ n.pending[k] = p[k + 1] BY <3>1, <3>2
      <4>2. k + 1 \in DOMAIN p BY <3>1, <4>1
      <4>3. p[k + 1] = table.current + (k + 1) BY <2>3, <4>2
      <4> HIDE DEF n, p
      <4>4. k \in Int BY <3>1, <4>1
      <4>5. table.current + (k + 1) = (table.current + 1) + k BY <1>2, <4>4
      <4> QED BY <3>4, <4>1, <4>3, <4>5
    <3> HIDE DEF c, n, p
    <3>7. HandleResult(of).tab = n /\ HandleResult(of).out = c BY <2>1
    <3>8. \A k \in DOMAIN n.pending : n.pending[k] = n.current + k BY <3>6
    <3> QED BY Zenon, <1>4, <2>2, <3>2, <3>3, <3>4, <3>5, <3>7, <3>8
  <2> QED BY <2>5, <2>6
<1> QED BY <1>3, <1>4

\* The frame the reader handles, and what it makes of the turn table.
LEMMA FrameRead ==
  ASSUME Types, Table, ReadTurnFrame
  PROVE  LET f == Head(stdout)  r == HandleLine(f) IN
           /\ pipe = "open" /\ stdout # <<>> /\ f \in Frames
           /\ stdout' = Tail(stdout) /\ table' = r.tab
           /\ table' \in Tables /\ table'.number = table.number
           /\ Table'
           /\ r.out \in Notices
           /\ reader' = IF r.out = NoEvent THEN reader
                        ELSE [pc |-> "enter", out |-> r.out]
           /\ f.kind # "result" => table'.current = table.current /\ Own(r.out)
           /\ f.kind = "result" =>
                /\ table.current = NoTurn =>
                     table'.current = NoTurn /\ Own(r.out)
                /\ table.current # NoTurn =>
                     /\ r.out.turn = table.current /\ r.out.of = f.of
                     /\ table'.current = IF table.current = table.number
                                         THEN NoTurn ELSE table.current + 1
<1> DEFINE f == Head(stdout)
           r == HandleLine(f)
<1>1. /\ pipe = "open" /\ stdout # <<>> /\ stdout' = Tail(stdout)
      /\ f.kind \notin Controls \cup {"long"}
      /\ table' = r.tab /\ UNCHANGED life
      /\ reader' = IF r.out = NoEvent THEN reader
                   ELSE [pc |-> "enter", out |-> r.out]
  BY DEF ReadTurnFrame, Reading, NextFrame
<1>2. f \in Frames BY <1>1, Taken DEF Types
<1>3. table \in Tables /\ table.number \in Nat /\ table.current \in Nat
  BY ClaudeAssumption DEF Types, Tables, ClaudeAssumption
<1>4. CASE f.kind # "result"
  <2>1. f.kind \notin Controls \cup {"long", "result"} BY <1>1, <1>4
  <2>2. /\ r.tab \in Tables /\ r.tab.number = table.number
        /\ r.tab.current = table.current /\ r.tab.pending = table.pending
        /\ r.out \in Notices /\ Own(r.out)
    BY <1>2, <2>1, OtherFrames
  <2> HIDE DEF r, f
  <2>3. Table' BY <1>1, <2>2 DEF Table
  <2>4. r.tab \in Tables /\ table' = r.tab BY <1>1, <2>2
  <2> QED BY Zenon, <1>1, <1>2, <1>4, <2>2, <2>3, <2>4 DEF r, f
<1>5. CASE f.kind = "result"
  <2>1. f.of \in Names BY <1>2 DEF Frames
  <2>2. r = HandleResult(f.of) BY <1>5 DEF HandleLine
  <2> DEFINE n == r.tab
  <2>3. /\ n \in Tables /\ n.number = table.number /\ r.out \in Notices
        /\ table.current = NoTurn => n = table /\ Own(r.out)
    BY <2>1, <2>2, ResultFrame
  <2>4. table.current # NoTurn =>
           r.out.kind = "complete" /\ r.out.turn = table.current /\ r.out.of = f.of
    BY <2>1, <2>2, ResultFrame
  <2>5. table.current # NoTurn =>
           IF table.current = table.number
           THEN n.current = NoTurn /\ n.pending = <<>>
           ELSE /\ n.current = table.current + 1
                /\ Len(n.pending) = table.number - n.current
                /\ \A k \in DOMAIN n.pending : n.pending[k] = n.current + k
    BY <2>1, <2>2, ResultFrame
  <2> HIDE DEF r, f, n
  <2>6. table' = n BY <1>1 DEF n
  <2>7. Table'
    <3>1. CASE table.current = NoTurn
      <4>1. table' = table BY <2>3, <2>6, <3>1
      <4> QED BY <1>1, <4>1 DEF Table
    <3>2. CASE table.current # NoTurn
      <4>1. life.started BY <3>2 DEF Table
      <4>2. n.current <= n.number
        BY <1>3, <2>3, <2>5, <3>2 DEF Table, NoTurn
      <4>3. IF n.current = NoTurn THEN n.pending = <<>>
            ELSE /\ Len(n.pending) = n.number - n.current
                 /\ \A k \in DOMAIN n.pending : n.pending[k] = n.current + k
        <5>1. CASE table.current = table.number
          BY <2>5, <3>2, <5>1
        <5>2. CASE table.current # table.number
          <6>1. n.current # NoTurn BY <1>3, <2>5, <3>2, <5>2 DEF NoTurn
          <6> QED BY <2>3, <2>5, <3>2, <5>2, <6>1
        <5> QED BY <5>1, <5>2
      <4> QED BY <1>1, <2>6, <4>1, <4>2, <4>3 DEF Table
    <3> QED BY <3>1, <3>2
  <2>8. table.current # NoTurn =>
          table'.current = IF table.current = table.number THEN NoTurn
                           ELSE table.current + 1
    BY <2>5, <2>6
  <2>9. table' \in Tables /\ table'.number = table.number /\ r.out \in Notices
    BY <2>3, <2>6
  <2>10. table.current = NoTurn => table'.current = NoTurn /\ Own(r.out)
    BY <2>3, <2>6
  <2> QED BY Zenon, <1>1, <1>2, <1>5, <2>4, <2>7, <2>8, <2>9, <2>10 DEF r, f
<1> QED BY <1>4, <1>5

-----------------------------------------------------------------------------
(* Types and the turn table.                                               *)

\* The turn that SendMessage registers comes after those of the table.
LEMMA Registered ==
  ASSUME Types, Table, table.number < MaxTurns, table' = RegisterTurn(table)
  PROVE  /\ table' \in Tables /\ table'.number = table.number + 1
         /\ table'.current = IF table.current = NoTurn THEN table.number + 1
                             ELSE table.current
         /\ table'.current # NoTurn /\ table'.current <= table'.number
         /\ Len(table'.pending) = table'.number - table'.current
         /\ \A k \in DOMAIN table'.pending :
              table'.pending[k] = table'.current + k
<1> DEFINE t == table.number + 1
           p == table.pending
<1>1. /\ table \in Tables /\ table.number \in Nat /\ table.current \in Nat
      /\ p \in Seq(Nat) /\ t \in Nat \ {0} /\ t \in 0 .. MaxTurns /\ t \in Turns
      /\ MaxTurns \in Nat /\ table.turns \subseteq Turns
  BY ClaudeAssumption DEF Types, Tables, ClaudeAssumption, Turns
<1>2. table' = [table EXCEPT !.number = t, !.turns = table.turns \cup {t},
                  !.current = IF table.current = NoTurn THEN t ELSE table.current,
                  !.pending = IF table.current = NoTurn THEN p ELSE Append(p, t)]
  BY <1>1 DEF RegisterTurn, Tables
<1>3. /\ Append(p, t) \in Seq(Nat) /\ Len(p) \in Nat
      /\ DOMAIN p = 1 .. Len(p) /\ DOMAIN Append(p, t) = 1 .. Len(p) + 1
      /\ \A k \in 1 .. Len(p) : Append(p, t)[k] = p[k]
      /\ Append(p, t)[Len(p) + 1] = t
  BY <1>1, Appended
<1>4. Len(Append(p, t)) = Len(p) + 1 BY <1>1, AppendProperties
<1> HIDE DEF t, p
<1>5. /\ table'.number = t
      /\ table'.current = IF table.current = NoTurn THEN t ELSE table.current
      /\ table'.pending = IF table.current = NoTurn THEN p ELSE Append(p, t)
  BY <1>1, <1>2 DEF Tables
<1>6. table' \in Tables
  <2> DEFINE With(us, c, q) == [table EXCEPT !.number = t, !.turns = us,
                                             !.current = c, !.pending = q]
  <2>1. ASSUME NEW us \in SUBSET Turns, NEW c \in Nat, NEW q \in Seq(Nat)
        PROVE  With(us, c, q) \in Tables
    BY <1>1 DEF Tables
  <2>2. table.turns \cup {t} \in SUBSET Turns BY <1>1
  <2>3. CASE table.current = NoTurn
    <3>1. table' = With(table.turns \cup {t}, t, p) BY <1>2, <2>3
    <3> HIDE DEF With
    <3> QED BY <1>1, <2>1, <2>2, <3>1
  <2>4. CASE table.current # NoTurn
    <3>1. table' = With(table.turns \cup {t}, table.current, Append(p, t))
      BY <1>2, <2>4
    <3> HIDE DEF With
    <3> QED BY <1>1, <1>3, <2>1, <2>2, <3>1
  <2> QED BY <2>3, <2>4
<1>7. t = table.number + 1 /\ p = table.pending BY DEF t, p
<1>8. CASE table.current = NoTurn
  <2>1. p = <<>> BY <1>7, <1>8 DEF Table
  <2>2. table'.pending = <<>> /\ table'.current = t BY <1>5, <1>8, <2>1
  <2>3. Len(table'.pending) = 0 /\ DOMAIN table'.pending = {} BY <2>2
  <2>4. t # NoTurn BY <1>1 DEF NoTurn
  <2>5. /\ table'.number = t /\ table'.current = t /\ t <= t
        /\ Len(table'.pending) = t - t
    BY <1>1, <1>5, <2>2, <2>3
  <2> HIDE DEF t
  <2> QED BY <1>6, <1>7, <1>8, <2>3, <2>4, <2>5
<1>9. CASE table.current # NoTurn
  <2>1. /\ Len(p) = table.number - table.current
        /\ \A k \in DOMAIN p : p[k] = table.current + k
        /\ table.current <= table.number
    BY <1>7, <1>9 DEF Table
  <2>2. table'.pending = Append(p, t) /\ table'.current = table.current
    BY <1>5, <1>9
  <2>3. ASSUME NEW k \in 1 .. Len(p) + 1
        PROVE  Append(p, t)[k] = table.current + k
    <3>1. CASE k = Len(p) + 1 BY <1>1, <1>3, <1>7, <2>1, <3>1
    <3>2. CASE k # Len(p) + 1
      <4>1. k \in 1 .. Len(p) BY <1>3, <3>2
      <4>2. p[k] = table.current + k BY <1>3, <2>1, <4>1
      <4> QED BY <1>3, <4>1, <4>2
    <3> QED BY <3>1, <3>2
  <2>4. \A k \in DOMAIN table'.pending : table'.pending[k] = table'.current + k
    BY <1>3, <2>2, <2>3
  <2>5. Len(table'.pending) = table'.number - table'.current
    BY <1>1, <1>4, <1>5, <1>7, <2>1, <2>2
  <2> QED BY <1>1, <1>5, <1>6, <1>7, <1>9, <2>1, <2>2, <2>4, <2>5
<1> QED BY <1>8, <1>9

\* Every step keeps the types and the order of the turn table.
LEMMA TypesStep ==
  ASSUME Types, Table, Next
  PROVE  Types' /\ Table'
<1> DEFINE Rest == /\ life' \in [started : BOOLEAN, stopped : BOOLEAN,
                                 done : BOOLEAN, closed : BOOLEAN,
                                 waited : BOOLEAN]
                   /\ cli' \in [alive : BOOLEAN, inbox : Seq(Int), round : Int,
                                chatter : Int, asked : SUBSET Ctls,
                                stdin : BOOLEAN]
                   /\ stdout' \in Seq(Frames)
                   /\ reader' \in [pc : Pcs, out : Notices]
                   /\ events' \in Seq(Notices)
                   /\ hist' \in [ended : SUBSET Int, dropped : SUBSET Int,
                                 foreign : SUBSET Int, steers : Int,
                                 steerRound : BOOLEAN]
<1>1. /\ life \in [started : BOOLEAN, stopped : BOOLEAN, done : BOOLEAN,
                   closed : BOOLEAN, waited : BOOLEAN]
      /\ cli \in [alive : BOOLEAN, inbox : Seq(Int), round : Int, chatter : Int,
                  asked : SUBSET Ctls, stdin : BOOLEAN]
      /\ stdout \in Seq(Frames)
      /\ reader \in [pc : Pcs, out : Notices]
      /\ events \in Seq(Notices)
      /\ hist \in [ended : SUBSET Int, dropped : SUBSET Int, foreign : SUBSET Int,
                   steers : Int, steerRound : BOOLEAN]
  BY DEF Types
<1> USE DEF Pcs
<1>2. table \in Tables /\ table.number \in Nat /\ table.current \in Nat
  BY ClaudeAssumption DEF Types, Tables, ClaudeAssumption
<1>3. ASSUME Rest, UNCHANGED table, life.started => life'.started
      PROVE  Types' /\ Table'
  BY <1>2, <1>3 DEF Types, Table
<1>4. /\ NoEvent \in Notices /\ ErrorEvent \in Notices
      /\ Event("exit", table.current) \in Notices
  BY <1>2 DEF NoEvent, ErrorEvent, Event, Notices, Names, NoTurn
<1>5. stdout # <<>> => Tail(stdout) \in Seq(Frames)
  BY <1>1, Taken
<1>6. ASSUME NEW p, NEW e \in Notices, EmitSend(p, e)
      PROVE  /\ events' \in Seq(Notices)
             /\ hist' \in [ended : SUBSET Int, dropped : SUBSET Int,
                           foreign : SUBSET Int, steers : Int,
                           steerRound : BOOLEAN]
  <2>1. Append(events, e) \in Seq(Notices) BY <1>1, Appended
  <2>2. e.turn \in Int BY DEF Notices
  <2>3. hist' = hist \/ hist' = [hist EXCEPT !.dropped = hist.dropped \cup {e.turn}]
    BY <1>6 DEF EmitSend
  <2>4. hist.dropped \cup {e.turn} \in SUBSET Int BY <1>1, <2>2
  <2>5. events' = events \/ events' = Append(events, e) BY <1>6 DEF EmitSend
  <2> QED BY <1>1, <2>1, <2>3, <2>4, <2>5
<1>7. ASSUME NEW f \in Frames PROVE Append(stdout, f) \in Seq(Frames)
  BY <1>1, Appended
<1>8. CASE Start
  <2>1. Rest BY <1>1, <1>8 DEF Start
  <2> QED BY <1>3, <1>8, <2>1 DEF Start
<1>9. CASE SendMessage
  <2>1. /\ table.number < MaxTurns /\ table' = RegisterTurn(table)
        /\ life.started /\ UNCHANGED <<life, stdout, reader, events, hist>>
        /\ cli' = IF CanWrite
                  THEN [cli EXCEPT !.inbox = Append(cli.inbox, table'.number)]
                  ELSE cli
    BY <1>9 DEF SendMessage, Usable
  <2>2. /\ table' \in Tables /\ table'.number = table.number + 1
        /\ table'.current # NoTurn /\ table'.current <= table'.number
        /\ Len(table'.pending) = table'.number - table'.current
        /\ \A k \in DOMAIN table'.pending :
              table'.pending[k] = table'.current + k
    BY <2>1, Registered
  <2>3. Table' BY <2>1, <2>2 DEF Table
  <2>4. Append(cli.inbox, table'.number) \in Seq(Int)
    BY <1>1, <1>2, <2>2, Appended
  <2>5. cli' \in [alive : BOOLEAN, inbox : Seq(Int), round : Int, chatter : Int,
                  asked : SUBSET Ctls, stdin : BOOLEAN]
    BY <1>1, <2>1, <2>4
  <2> QED BY <1>1, <2>1, <2>2, <2>3, <2>5 DEF Types
<1>10. CASE SendSteerInput
  <2>1. Append(cli.inbox, Steer) \in Seq(Int) BY <1>1, Appended DEF Steer
  <2>2. cli' \in [alive : BOOLEAN, inbox : Seq(Int), round : Int, chatter : Int,
                  asked : SUBSET Ctls, stdin : BOOLEAN]
    BY <1>1, <1>10, <2>1 DEF SendSteerInput
  <2>3. hist' \in [ended : SUBSET Int, dropped : SUBSET Int, foreign : SUBSET Int,
                   steers : Int, steerRound : BOOLEAN]
    <3>1. hist' = [hist EXCEPT !.steers = hist.steers + 1]
      BY <1>10 DEF SendSteerInput
    <3>2. hist.steers + 1 \in Int BY <1>1
    <3> QED BY <1>1, <3>1, <3>2
  <2>4. Rest BY <1>1, <1>10, <2>2, <2>3 DEF SendSteerInput
  <2> QED BY <1>3, <1>10, <2>4 DEF SendSteerInput
<1>11. CASE ReadTurnFrame
  <2>1. /\ stdout # <<>> /\ stdout' = Tail(stdout) /\ table' \in Tables /\ Table'
        /\ \E o \in Notices : reader' = IF o = NoEvent THEN reader
                                        ELSE [pc |-> "enter", out |-> o]
    BY <1>11, FrameRead
  <2>2. reader' \in [pc : Pcs, out : Notices] BY <1>1, <2>1
  <2>3. UNCHANGED <<life, cli, events, hist>> BY <1>11 DEF ReadTurnFrame
  <2> QED BY <1>1, <1>5, <2>1, <2>2, <2>3 DEF Types
<1>12. CASE ReadControlRequest \/ ReadControlCancel \/ ReadControlResponse
  <2>1. Rest
    BY <1>1, <1>5, <1>12
       DEF ReadControlRequest, ReadControlCancel, ReadControlResponse, Reading
  <2> QED
    BY <1>3, <1>12, <2>1
       DEF ReadControlRequest, ReadControlCancel, ReadControlResponse
<1>13. CASE ReadFails \/ ReaderDone
  <2>1. Rest BY <1>1, <1>4, <1>13 DEF ReadFails, ReaderDone
  <2> QED BY <1>3, <1>13, <2>1 DEF ReadFails, ReaderDone
<1>14. CASE ReaderEmitEnter
  <2>1. Rest BY <1>1, <1>4, <1>14 DEF ReaderEmitEnter, AfterEmit
  <2> QED BY <1>3, <1>14, <2>1 DEF ReaderEmitEnter
<1>15. CASE ReaderEmitSend
  <2>1. reader.out \in Notices BY <1>1
  <2>2. Rest BY <1>1, <1>4, <1>6, <1>15, <2>1 DEF ReaderEmitSend, AfterEmit
  <2> QED BY <1>3, <1>15, <2>2 DEF ReaderEmitSend
<1>16. ASSUME NEW pc, NEW next, CloseEvents(pc, next)
       PROVE  /\ life' \in [started : BOOLEAN, stopped : BOOLEAN, done : BOOLEAN,
                            closed : BOOLEAN, waited : BOOLEAN]
              /\ life'.started = life.started
  <2>1. \/ life' = life \/ life' = [life EXCEPT !.done = TRUE]
        \/ life' = [life EXCEPT !.stopped = TRUE]
        \/ life' = [life EXCEPT !.closed = TRUE]
    BY <1>16 DEF CloseEvents, CloseChannel
  <2>2. life \in [started : BOOLEAN, stopped : BOOLEAN, done : BOOLEAN,
                  closed : BOOLEAN, waited : BOOLEAN]
    BY <1>1
  <2> QED BY <2>1, <2>2
<1>17. CASE ReaderClose
  <2>1. PICK next \in {"mark", "lock", "gone"} :
          CloseEvents(reader.pc, next) /\ reader' = [reader EXCEPT !.pc = next]
    BY <1>17 DEF ReaderClose
  <2>2. Rest BY <1>1, <1>16, <1>17, <2>1 DEF ReaderClose
  <2> QED BY <1>3, <1>16, <1>17, <2>1, <2>2 DEF ReaderClose
<1>18. CASE WaitLoop
  <2>1. Rest BY <1>1, <1>18, EmptySeq DEF WaitLoop
  <2> QED BY <1>1, <1>3, <1>18, <2>1 DEF WaitLoop
<1>19. CASE StopBegin
  <2>1. Rest BY <1>1, <1>19 DEF StopBegin
  <2> QED BY <1>1, <1>3, <1>19, <2>1 DEF StopBegin
<1>20. CASE StopWait
  <2>1. Rest BY <1>1, <1>20 DEF StopWait
  <2> QED BY <1>3, <1>20, <2>1 DEF StopWait
<1>21. CASE StopClose
  <2>1. PICK next \in {"mark", "lock", "gone"} : CloseEvents(stopper, next)
    BY <1>21 DEF StopClose
  <2>2. Rest BY <1>1, <1>16, <1>21, <2>1 DEF StopClose
  <2> QED BY <1>3, <1>16, <1>21, <2>1, <2>2 DEF StopClose
<1>22. ASSUME NEW c \in Ctls, CtlStep(c) PROVE Types' /\ Table'
  <2>1. /\ cli' = cli \/ cli' = [cli EXCEPT !.asked = cli.asked \cup {c}]
        /\ UNCHANGED <<life, stdout, reader, events, hist>>
    BY <1>22 DEF CtlStep, CtlRegister, CtlWrite, CtlReturn
  <2>2. cli.asked \cup {c} \in SUBSET Ctls BY <1>1
  <2>3. Rest BY <1>1, <2>1, <2>2
  <2> QED BY <1>3, <1>22, <2>3 DEF CtlStep, CtlRegister, CtlWrite, CtlReturn
<1>23. ASSUME NEW c \in Ctls, CliResponds(c) PROVE Types' /\ Table'
  <2>1. Frame("response", c) \in Frames BY DEF Frame, Frames, Names
  <2>2. Rest BY <1>1, <1>7, <1>23, <2>1 DEF CliResponds
  <2> QED BY <1>3, <1>23, <2>2 DEF CliResponds
<1>24. ASSUME NEW q \in Asks,
              AskRegister(q) \/ AskReturn(q) \/ AskReleasedReturn(q) \/ AskCheck(q)
                \/ AskWrite(q) \/ AskRelease(q) \/ AskEmitEnter(q)
       PROVE  Types' /\ Table'
  <2> USE DEF AskRegister, AskReturn, AskReleasedReturn, AskCheck, AskWrite,
              AskRelease, AskEmitEnter
  <2>1. Rest BY <1>1, <1>24
  <2> QED BY <1>3, <1>24, <2>1
<1>25. ASSUME NEW q \in Asks, AskEmitSend(q) PROVE Types' /\ Table'
  <2>1. Rest BY <1>1, <1>4, <1>6, <1>25 DEF AskEmitSend
  <2> QED BY <1>3, <1>25, <2>1 DEF AskEmitSend
<1>26. CASE Consume
  <2> DEFINE e == Head(events)
  <2>1. /\ events # <<>> /\ events' = Tail(events)
        /\ UNCHANGED <<life, table, cli, stdout, reader>>
        /\ hist' = IF e.kind = "complete"
                   THEN [hist EXCEPT !.ended = hist.ended \cup {e.turn},
                                     !.foreign = IF e.of = e.turn THEN hist.foreign
                                                 ELSE hist.foreign \cup {e.turn}]
                   ELSE hist
    BY <1>26 DEF Consume
  <2>2. e \in Notices /\ Tail(events) \in Seq(Notices) BY <1>1, <2>1, Taken
  <2>3. e.turn \in Int BY <2>2 DEF Notices
  <2> HIDE DEF e
  <2>4. Rest BY <1>1, <2>1, <2>2, <2>3
  <2> QED BY <1>3, <2>1, <2>4
<1>27. CASE CliReads
  <2>1. cli.inbox # <<>> BY <1>27 DEF CliReads
  <2>2. Head(cli.inbox) \in Int /\ Tail(cli.inbox) \in Seq(Int)
    BY <1>1, <2>1, Taken
  <2>3. Rest BY <1>1, <1>27, <2>2 DEF CliReads
  <2> QED BY <1>3, <1>27, <2>3 DEF CliReads
<1>28. CASE CliResult
  <2>1. Frame("result", cli.round) \in Frames BY <1>1 DEF Frame, Frames, Names
  <2>2. /\ cli' = [cli EXCEPT !.round = NoTurn] /\ NoTurn \in Int
        /\ stdout' = Append(stdout, Frame("result", cli.round))
        /\ UNCHANGED <<life, table, reader, events, hist>>
    BY <1>28 DEF CliResult, NoTurn
  <2>3. stdout' \in Seq(Frames) BY <1>7, <2>1, <2>2
  <2>4. Rest BY <1>1, <2>2, <2>3
  <2> QED BY <1>3, <2>2, <2>4
<1>29. CASE CliChatter
  <2>4. stdout' \in Seq(Frames)
    <3>1. PICK f \in {Frame(k, NoTurn) : k \in Chatter}
                     \cup {Frame(k, q) : k \in {"ask", "cancel"}, q \in Asks} :
            stdout' = Append(stdout, f)
      BY <1>29 DEF CliChatter
    <3>2. f \in Frames
      BY ClaudeAssumption DEF ClaudeAssumption, Frame, Frames, Names, NoTurn
    <3> QED BY <1>7, <3>1, <3>2
  <2>3. /\ cli' = [cli EXCEPT !.chatter = cli.chatter + 1]
        /\ UNCHANGED <<life, table, reader, events, hist>>
    BY <1>29 DEF CliChatter
  <2>5. cli.chatter + 1 \in Int BY <1>1
  <2>6. cli' \in [alive : BOOLEAN, inbox : Seq(Int), round : Int, chatter : Int,
                  asked : SUBSET Ctls, stdin : BOOLEAN]
    BY <1>1, <2>3, <2>5
  <2>7. Rest BY <1>1, <2>3, <2>4, <2>6
  <2> QED BY <1>3, <2>3, <2>7
<1>30. CASE CliExits
  <2>1. Rest BY <1>1, <1>30 DEF CliExits
  <2> QED BY <1>3, <1>30, <2>1 DEF CliExits
<1> QED
  BY <1>8, <1>9, <1>10, <1>11, <1>12, <1>13, <1>14, <1>15, <1>17, <1>18, <1>19,
     <1>20, <1>21, <1>22, <1>23, <1>24, <1>25, <1>26, <1>27, <1>28, <1>29, <1>30
     DEF Next, ReaderStep, StopStep, AskStep

-----------------------------------------------------------------------------
(* Messages and results.                                                   *)

\* The turns are positive numbers up to the bound.
LEMMA Numbers ==
  ASSUME Types
  PROVE  /\ NoTurn \notin Turns /\ Steer \notin Turns
         /\ Turns \subseteq Nat \ {0}
         /\ table.number \in Nat /\ table.current \in Nat
         /\ \A t \in Nat : t # NoTurn /\ t <= table.number => t \in Turns
         /\ cli.inbox \in Seq(Int) /\ stdout \in Seq(Frames)
         /\ DOMAIN cli.inbox = 1 .. Len(cli.inbox) /\ Len(cli.inbox) \in Nat
         /\ DOMAIN stdout = 1 .. Len(stdout) /\ Len(stdout) \in Nat
<1>1. MaxTurns \in Nat BY ClaudeAssumption DEF ClaudeAssumption
<1>2. table \in Tables /\ cli.inbox \in Seq(Int) /\ stdout \in Seq(Frames)
  BY DEF Types
<1>3. table.number \in 0 .. MaxTurns /\ table.current \in Nat BY <1>2 DEF Tables
<1> QED BY <1>1, <1>2, <1>3, LenProperties DEF NoTurn, Steer, Turns

\* What is in flight decides the window.
LEMMA WindowKept ==
  ASSUME Window, table'.current = table.current, table'.number = table.number,
         \A t \in Turns : InFlight(t)' <=> InFlight(t),
         CanWrite' => CanWrite \/ table.current = NoTurn
  PROVE  Window'
<1>1. ASSUME NEW t \in Turns, InFlight(t)'
      PROVE  /\ table'.current # NoTurn /\ t \in table'.current .. table'.number
             /\ \A u \in Turns : u \in table'.current .. t => InFlight(u)'
  BY <1>1 DEF Window
<1>2. ASSUME CanWrite', table'.current # NoTurn, NEW t \in Turns,
             t \in table'.current .. table'.number
      PROVE  InFlight(t)'
  BY <1>2 DEF Window
<1> QED BY <1>1, <1>2 DEF Window

\* A step that touches neither messages nor results.
LEMMA SameMessages ==
  ASSUME cli'.inbox = cli.inbox, cli'.round = cli.round, stdout' = stdout
  PROVE  /\ Order => Order'
         /\ \A t \in Turns : InFlight(t)' <=> InFlight(t)
<1>1. Order => Order' BY DEF Order
<1>2. \A t \in Turns : InFlight(t)' <=> InFlight(t)
  BY DEF InFlight, Waiting, Answered
<1> QED BY <1>1, <1>2

\* The reader takes a frame.
LEMMA FrameTaken ==
  ASSUME Types, stdout # <<>>, stdout' = Tail(stdout), UNCHANGED cli, Order
  PROVE  /\ Order'
         /\ \A t \in Turns : InFlight(t)' => InFlight(t)
         /\ \A t \in Turns : InFlight(t) =>
              InFlight(t)' \/ (stdout[1].kind = "result" /\ stdout[1].of = t)
         /\ stdout[1].kind = "result" =>
              /\ stdout[1].of \in Turns /\ InFlight(stdout[1].of)
              /\ \A t \in Turns : InFlight(t)' => stdout[1].of < t
<1> DEFINE n == Len(stdout)
<1>1. /\ Head(stdout) = stdout[1] /\ n \in Nat \ {0} /\ DOMAIN stdout = 1 .. n
      /\ DOMAIN stdout' = 1 .. n - 1
      /\ \A k \in 1 .. n - 1 : stdout'[k] = stdout[k + 1]
  BY Taken DEF Types
<1>2. Order'
  <2>1. ASSUME NEW k \in DOMAIN stdout', stdout'[k].kind = "result"
        PROVE  /\ stdout'[k].of \in Turns
               /\ cli.round # NoTurn => stdout'[k].of < cli.round
               /\ \A l \in DOMAIN cli.inbox :
                    cli.inbox[l] # Steer => stdout'[k].of < cli.inbox[l]
               /\ \A j \in DOMAIN stdout' :
                    j < k /\ stdout'[j].kind = "result" =>
                      stdout'[j].of < stdout'[k].of
    <3>1. k + 1 \in DOMAIN stdout /\ stdout'[k] = stdout[k + 1] BY <1>1
    <3>2. \A j \in DOMAIN stdout' : j < k =>
            /\ j + 1 \in DOMAIN stdout /\ stdout'[j] = stdout[j + 1]
            /\ j + 1 < k + 1
      BY <1>1
    <3> QED BY <2>1, <3>1, <3>2 DEF Order
  <2> QED BY <2>1 DEF Order
<1>3. \A t : Answered(t)' => Answered(t)
  BY <1>1 DEF Answered
<1>4. \A t : Answered(t) =>
        Answered(t)' \/ (stdout[1].kind = "result" /\ stdout[1].of = t)
  <2> SUFFICES ASSUME NEW t, NEW k \in DOMAIN stdout,
                      stdout[k].kind = "result", stdout[k].of = t, k # 1
               PROVE  Answered(t)'
    BY DEF Answered
  <2>1. k - 1 \in 1 .. n - 1 /\ stdout'[k - 1] = stdout[(k - 1) + 1]
    BY <1>1
  <2>2. k - 1 \in DOMAIN stdout' /\ stdout'[k - 1] = stdout[k]
    BY <1>1, <2>1
  <2> QED BY <2>2 DEF Answered
<1>5. ASSUME stdout[1].kind = "result"
      PROVE  /\ stdout[1].of \in Turns /\ InFlight(stdout[1].of)
             /\ \A t \in Turns : InFlight(t)' => stdout[1].of < t
  <2>1. 1 \in DOMAIN stdout BY <1>1
  <2>2. stdout[1].of \in Turns BY <1>5, <2>1 DEF Order
  <2>3. InFlight(stdout[1].of) BY <1>5, <2>1 DEF InFlight, Answered
  <2>4. ASSUME NEW t \in Turns, InFlight(t)' PROVE stdout[1].of < t
    <3>1. NoTurn \notin Turns /\ Steer \notin Turns BY Numbers
    <3>2. CASE cli.round = t BY <1>5, <2>1, <3>1, <3>2 DEF Order
    <3>3. CASE Waiting(t) BY <1>5, <2>1, <3>1, <3>3 DEF Order, Waiting
    <3>4. CASE Answered(t)'
      <4>1. PICK k \in DOMAIN stdout' :
              stdout'[k].kind = "result" /\ stdout'[k].of = t
        BY <3>4 DEF Answered
      <4>2. k + 1 \in DOMAIN stdout /\ stdout'[k] = stdout[k + 1] /\ 1 < k + 1
        BY <1>1
      <4> QED BY <1>5, <2>1, <4>1, <4>2 DEF Order
    <3> QED BY <2>4, <3>2, <3>3, <3>4 DEF InFlight, Waiting
  <2> QED BY <2>2, <2>3, <2>4
<1>6. \A t : Waiting(t)' <=> Waiting(t) BY DEF Waiting
<1> QED BY <1>2, <1>3, <1>4, <1>5, <1>6 DEF InFlight

\* The CLI writes a frame that is no result.
LEMMA FrameWritten ==
  ASSUME Types, NEW f \in Frames, f.kind # "result", stdout' = Append(stdout, f),
         cli'.inbox = cli.inbox, cli'.round = cli.round
  PROVE  /\ Order => Order'
         /\ \A t \in Turns : InFlight(t)' <=> InFlight(t)
<1> DEFINE n == Len(stdout)
<1>1. /\ n \in Nat /\ DOMAIN stdout = 1 .. n /\ DOMAIN stdout' = 1 .. n + 1
      /\ \A k \in 1 .. n : stdout'[k] = stdout[k]
      /\ stdout'[n + 1] = f
  BY Appended DEF Types
<1>2. \A k \in DOMAIN stdout' : stdout'[k].kind = "result" =>
        k \in DOMAIN stdout /\ stdout'[k] = stdout[k]
  <2> SUFFICES ASSUME NEW k \in 1 .. n + 1, stdout'[k].kind = "result"
               PROVE  k \in 1 .. n
    BY <1>1
  <2>1. k # n + 1 BY <1>1
  <2> QED BY <1>1, <2>1
<1>3. \A k \in DOMAIN stdout : k \in DOMAIN stdout' /\ stdout'[k] = stdout[k]
  BY <1>1
<1>4. \A t : Answered(t)' <=> Answered(t) BY <1>2, <1>3 DEF Answered
<1>5. \A t : Waiting(t)' <=> Waiting(t) BY DEF Waiting
<1>6. Order => Order'
  <2> SUFFICES ASSUME Order PROVE Order' OBVIOUS
  <2>1. ASSUME NEW k \in DOMAIN stdout', stdout'[k].kind = "result"
        PROVE  /\ stdout'[k].of \in Turns
               /\ cli'.round # NoTurn => stdout'[k].of < cli'.round
               /\ \A l \in DOMAIN cli'.inbox :
                    cli'.inbox[l] # Steer => stdout'[k].of < cli'.inbox[l]
               /\ \A j \in DOMAIN stdout' :
                    j < k /\ stdout'[j].kind = "result" =>
                      stdout'[j].of < stdout'[k].of
    <3>1. k \in DOMAIN stdout /\ stdout'[k] = stdout[k] BY <1>2, <2>1
    <3> QED BY <1>2, <2>1, <3>1 DEF Order
  <2>2. /\ cli'.round \in Turns \cup {NoTurn}
        /\ \A l \in DOMAIN cli'.inbox : cli'.inbox[l] # Steer =>
             /\ cli'.inbox[l] \in Turns /\ cli'.round < cli'.inbox[l]
             /\ \A j \in DOMAIN cli'.inbox :
                  j < l /\ cli'.inbox[j] # Steer => cli'.inbox[j] < cli'.inbox[l]
    BY DEF Order
  <2> QED BY <2>1, <2>2 DEF Order
<1> QED BY <1>4, <1>5, <1>6 DEF InFlight

\* The round ends and its result is written.
LEMMA ResultWritten ==
  ASSUME Types, Order, cli.round # NoTurn, cli'.round = NoTurn,
         cli'.inbox = cli.inbox,
         stdout' = Append(stdout, Frame("result", cli.round))
  PROVE  Order' /\ \A t \in Turns : InFlight(t)' <=> InFlight(t)
<1> DEFINE n == Len(stdout)
           f == Frame("result", cli.round)
<1>1. f \in Frames /\ f.kind = "result" /\ f.of = cli.round
  BY DEF Types, Frame, Frames, Names
<1>2. /\ n \in Nat /\ DOMAIN stdout = 1 .. n /\ DOMAIN stdout' = 1 .. n + 1
      /\ \A k \in 1 .. n : stdout'[k] = stdout[k]
      /\ stdout'[n + 1] = f
  BY <1>1, Appended DEF Types
<1> HIDE DEF f
<1>3. cli.round \in Turns /\ NoTurn \notin Turns /\ Turns \subseteq Nat \ {0}
  BY Numbers DEF Order
<1>4. Order'
  <2>1. ASSUME NEW k \in DOMAIN stdout', stdout'[k].kind = "result"
        PROVE  /\ stdout'[k].of \in Turns
               /\ \A l \in DOMAIN cli'.inbox :
                    cli'.inbox[l] # Steer => stdout'[k].of < cli'.inbox[l]
               /\ \A j \in DOMAIN stdout' :
                    j < k /\ stdout'[j].kind = "result" =>
                      stdout'[j].of < stdout'[k].of
    <3>1. CASE k = n + 1
      <4>1. stdout'[k].of = cli.round BY <1>1, <1>2, <3>1
      <4>2. \A j \in DOMAIN stdout' : j < k =>
              j \in DOMAIN stdout /\ stdout'[j] = stdout[j]
        BY <1>2, <3>1
      <4> QED BY <1>3, <4>1, <4>2 DEF Order
    <3>2. CASE k # n + 1
      <4>1. \A j \in DOMAIN stdout' : j <= k =>
              j \in DOMAIN stdout /\ stdout'[j] = stdout[j]
        BY <1>2, <3>2
      <4>2. k \in DOMAIN stdout /\ stdout'[k] = stdout[k] BY <1>2, <3>2
      <4>3. \A j \in DOMAIN stdout' : j < k =>
              j \in DOMAIN stdout /\ stdout'[j] = stdout[j]
        BY <1>2, <3>2
      <4> QED BY <2>1, <4>2, <4>3 DEF Order
    <3> QED BY <3>1, <3>2
  <2>2. ASSUME NEW l \in DOMAIN cli'.inbox, cli'.inbox[l] # Steer
        PROVE  /\ cli'.inbox[l] \in Turns /\ NoTurn < cli'.inbox[l]
               /\ \A j \in DOMAIN cli'.inbox : j < l /\ cli'.inbox[j] # Steer =>
                    cli'.inbox[j] < cli'.inbox[l]
    <3>1. /\ cli'.inbox[l] \in Turns
          /\ \A j \in DOMAIN cli'.inbox : j < l /\ cli'.inbox[j] # Steer =>
               cli'.inbox[j] < cli'.inbox[l]
      BY <2>2 DEF Order
    <3>2. \A t \in Turns : NoTurn < t
      <4>1. \A t \in Nat \ {0} : 0 < t OBVIOUS
      <4> QED BY <1>3, <4>1 DEF NoTurn
    <3>3. NoTurn < cli'.inbox[l] BY <3>1, <3>2
    <3> QED BY <3>1, <3>3
  <2> QED BY <2>1, <2>2 DEF Order
<1>5. ASSUME NEW t \in Turns PROVE InFlight(t)' <=> InFlight(t)
  <2>1. Waiting(t)' <=> Waiting(t) BY DEF Waiting
  <2>2. Answered(t)' <=> Answered(t) \/ cli.round = t
    <3>1. ASSUME Answered(t) PROVE Answered(t)'
      BY <1>2, <3>1 DEF Answered
    <3>2. ASSUME cli.round = t PROVE Answered(t)'
      <4>1. n + 1 \in DOMAIN stdout' BY <1>2
      <4> QED BY <1>1, <1>2, <3>2, <4>1 DEF Answered
    <3>3. ASSUME Answered(t)', ~Answered(t) PROVE cli.round = t
      <4>1. PICK k \in 1 .. n + 1 :
              stdout'[k].kind = "result" /\ stdout'[k].of = t
        BY <1>2, <3>3 DEF Answered
      <4>2. k = n + 1 BY <1>2, <3>3, <4>1 DEF Answered
      <4> QED BY <1>1, <1>2, <4>1, <4>2
    <3> QED BY <3>1, <3>2, <3>3
  <2>3. cli'.round # t BY <1>3
  <2> QED BY <2>1, <2>2, <2>3 DEF InFlight
<1> QED BY <1>4, <1>5

\* The CLI takes the message of a turn as its round.
LEMMA RoundBegins ==
  ASSUME Types, Order, cli.inbox # <<>>, cli.round = NoTurn,
         Head(cli.inbox) # Steer, cli'.round = Head(cli.inbox),
         cli'.inbox = Tail(cli.inbox), UNCHANGED stdout
  PROVE  Order' /\ \A t \in Turns : InFlight(t)' <=> InFlight(t)
<1> DEFINE n == Len(cli.inbox)
           h == cli.inbox[1]
<1>1. /\ Head(cli.inbox) = h /\ n \in Nat \ {0} /\ DOMAIN cli.inbox = 1 .. n
      /\ DOMAIN cli'.inbox = 1 .. n - 1
      /\ \A k \in 1 .. n - 1 : cli'.inbox[k] = cli.inbox[k + 1]
  BY Numbers, Taken
<1>2. 1 \in DOMAIN cli.inbox /\ cli'.round = h /\ h # Steer BY <1>1
<1>3. h \in Turns /\ NoTurn \notin Turns BY <1>2, Numbers DEF Order
<1>4. \A l \in DOMAIN cli'.inbox :
        l + 1 \in DOMAIN cli.inbox /\ cli'.inbox[l] = cli.inbox[l + 1] /\ 1 < l + 1
  BY <1>1
<1>5. Order'
  <2>1. ASSUME NEW k \in DOMAIN stdout', stdout'[k].kind = "result"
        PROVE  /\ stdout'[k].of \in Turns /\ stdout'[k].of < cli'.round
               /\ \A l \in DOMAIN cli'.inbox :
                    cli'.inbox[l] # Steer => stdout'[k].of < cli'.inbox[l]
               /\ \A j \in DOMAIN stdout' :
                    j < k /\ stdout'[j].kind = "result" =>
                      stdout'[j].of < stdout'[k].of
    BY <1>2, <1>4, <2>1 DEF Order
  <2>2. ASSUME NEW l \in DOMAIN cli'.inbox, cli'.inbox[l] # Steer
        PROVE  /\ cli'.inbox[l] \in Turns /\ cli'.round < cli'.inbox[l]
               /\ \A j \in DOMAIN cli'.inbox : j < l /\ cli'.inbox[j] # Steer =>
                    cli'.inbox[j] < cli'.inbox[l]
    <3>1. \A j \in DOMAIN cli'.inbox : j < l => j + 1 < l + 1 BY <1>1
    <3> QED BY <1>2, <1>4, <2>2, <3>1 DEF Order
  <2> QED BY <1>2, <1>3, <2>1, <2>2 DEF Order
<1>6. ASSUME NEW t \in Turns PROVE InFlight(t)' <=> InFlight(t)
  <2>1. Waiting(t)' \/ cli'.round = t <=> Waiting(t)
    <3>1. Waiting(t)' => Waiting(t) BY <1>4 DEF Waiting
    <3>2. cli'.round = t => Waiting(t) BY <1>2 DEF Waiting
    <3>3. ASSUME Waiting(t), cli'.round # t PROVE Waiting(t)'
      <4>1. PICK l \in 1 .. n : cli.inbox[l] = t BY <1>1, <3>3 DEF Waiting
      <4>2. l # 1 BY <1>2, <3>3, <4>1
      <4>3. l - 1 \in 1 .. n - 1 /\ cli'.inbox[l - 1] = cli.inbox[(l - 1) + 1]
        BY <1>1, <4>2
      <4>4. cli'.inbox[l - 1] = t BY <4>1, <4>3
      <4> QED BY <1>1, <4>3, <4>4 DEF Waiting
    <3> QED BY <3>1, <3>2, <3>3
  <2>2. Answered(t)' <=> Answered(t) BY DEF Answered
  <2>3. cli.round # t BY <1>3
  <2> QED BY <2>1, <2>2, <2>3 DEF InFlight
<1> QED BY <1>5, <1>6

\* A steer joins the round that runs.
LEMMA SteerJoins ==
  ASSUME Types, Order, cli.inbox # <<>>, Head(cli.inbox) = Steer,
         cli'.round = cli.round, cli'.inbox = Tail(cli.inbox), UNCHANGED stdout
  PROVE  Order' /\ \A t \in Turns : InFlight(t)' <=> InFlight(t)
<1> DEFINE n == Len(cli.inbox)
<1>1. /\ cli.inbox[1] = Steer /\ n \in Nat \ {0} /\ DOMAIN cli.inbox = 1 .. n
      /\ DOMAIN cli'.inbox = 1 .. n - 1
      /\ \A k \in 1 .. n - 1 : cli'.inbox[k] = cli.inbox[k + 1]
  BY Numbers, Taken
<1>2. \A l \in DOMAIN cli'.inbox :
        l + 1 \in DOMAIN cli.inbox /\ cli'.inbox[l] = cli.inbox[l + 1]
  BY <1>1
<1>3. Order'
  <2>1. ASSUME NEW k \in DOMAIN stdout', stdout'[k].kind = "result"
        PROVE  /\ stdout'[k].of \in Turns
               /\ cli'.round # NoTurn => stdout'[k].of < cli'.round
               /\ \A l \in DOMAIN cli'.inbox :
                    cli'.inbox[l] # Steer => stdout'[k].of < cli'.inbox[l]
               /\ \A j \in DOMAIN stdout' :
                    j < k /\ stdout'[j].kind = "result" =>
                      stdout'[j].of < stdout'[k].of
    BY <1>2, <2>1 DEF Order
  <2>2. ASSUME NEW l \in DOMAIN cli'.inbox, cli'.inbox[l] # Steer
        PROVE  /\ cli'.inbox[l] \in Turns /\ cli'.round < cli'.inbox[l]
               /\ \A j \in DOMAIN cli'.inbox : j < l /\ cli'.inbox[j] # Steer =>
                    cli'.inbox[j] < cli'.inbox[l]
    <3>1. \A j \in DOMAIN cli'.inbox : j < l => j + 1 < l + 1 BY <1>1
    <3> QED BY <1>2, <2>2, <3>1 DEF Order
  <2> QED BY <2>1, <2>2 DEF Order
<1>4. ASSUME NEW t \in Turns PROVE InFlight(t)' <=> InFlight(t)
  <2>1. Waiting(t)' => Waiting(t) BY <1>2 DEF Waiting
  <2>2. ASSUME Waiting(t) PROVE Waiting(t)'
    <3>1. PICK l \in 1 .. n : cli.inbox[l] = t BY <1>1, <2>2 DEF Waiting
    <3>2. l # 1 BY <1>1, <3>1, Numbers
    <3>3. l - 1 \in 1 .. n - 1 /\ cli'.inbox[l - 1] = cli.inbox[(l - 1) + 1]
      BY <1>1, <3>2
    <3>4. cli'.inbox[l - 1] = t BY <3>1, <3>3
    <3> QED BY <1>1, <3>3, <3>4 DEF Waiting
  <2>3. Answered(t)' <=> Answered(t) BY DEF Answered
  <2> QED BY <2>1, <2>2, <2>3 DEF InFlight
<1> QED BY <1>3, <1>4

\* A message written after the others: a turn newer than all of them, or a steer.
LEMMA MessageSent ==
  ASSUME Types, Order, NEW m \in Int,
         m # Steer => m \in Turns /\ \A t \in Turns : InFlight(t) => t < m,
         cli'.round = cli.round, cli'.inbox = Append(cli.inbox, m),
         UNCHANGED stdout
  PROVE  Order' /\ \A t \in Turns : InFlight(t)' <=> InFlight(t) \/ t = m
<1> DEFINE n == Len(cli.inbox)
<1>1. /\ n \in Nat /\ DOMAIN cli.inbox = 1 .. n /\ DOMAIN cli'.inbox = 1 .. n + 1
      /\ \A k \in 1 .. n : cli'.inbox[k] = cli.inbox[k]
      /\ cli'.inbox[n + 1] = m
  BY Numbers, Appended
<1>2. \A l \in DOMAIN cli'.inbox : l # n + 1 =>
        l \in DOMAIN cli.inbox /\ cli'.inbox[l] = cli.inbox[l] /\ l < n + 1
  BY <1>1
<1>3. \A l \in DOMAIN cli.inbox :
        l \in DOMAIN cli'.inbox /\ cli'.inbox[l] = cli.inbox[l]
  BY <1>1
<1>4. NoTurn \notin Turns /\ Turns \subseteq Nat \ {0} /\ Steer \notin Turns
  BY Numbers
<1>5. Order'
  <2>1. ASSUME NEW k \in DOMAIN stdout', stdout'[k].kind = "result"
        PROVE  /\ stdout'[k].of \in Turns
               /\ cli'.round # NoTurn => stdout'[k].of < cli'.round
               /\ \A l \in DOMAIN cli'.inbox :
                    cli'.inbox[l] # Steer => stdout'[k].of < cli'.inbox[l]
               /\ \A j \in DOMAIN stdout' :
                    j < k /\ stdout'[j].kind = "result" =>
                      stdout'[j].of < stdout'[k].of
    <3>1. /\ stdout[k].of \in Turns
          /\ cli.round # NoTurn => stdout[k].of < cli.round
          /\ \A j \in DOMAIN stdout : j < k /\ stdout[j].kind = "result" =>
               stdout[j].of < stdout[k].of
      BY <2>1 DEF Order
    <3>2. InFlight(stdout[k].of) BY <2>1 DEF InFlight, Answered
    <3>3. ASSUME NEW l \in DOMAIN cli'.inbox, cli'.inbox[l] # Steer
          PROVE  stdout'[k].of < cli'.inbox[l]
      <4>1. CASE l = n + 1 BY <1>1, <3>1, <3>2, <3>3, <4>1
      <4>2. CASE l # n + 1 BY <1>2, <2>1, <3>3, <4>2 DEF Order
      <4> QED BY <4>1, <4>2
    <3> QED BY <3>1, <3>3
  <2>2. ASSUME NEW l \in DOMAIN cli'.inbox, cli'.inbox[l] # Steer
        PROVE  /\ cli'.inbox[l] \in Turns /\ cli'.round < cli'.inbox[l]
               /\ \A j \in DOMAIN cli'.inbox : j < l /\ cli'.inbox[j] # Steer =>
                    cli'.inbox[j] < cli'.inbox[l]
    <3>1. CASE l = n + 1
      <4>1. cli'.inbox[l] = m /\ m \in Turns /\ m \in Nat \ {0}
        BY <1>1, <1>4, <2>2, <3>1
      <4>2. cli.round < m
        <5>1. CASE cli.round = NoTurn BY <4>1, <5>1 DEF NoTurn
        <5>2. CASE cli.round # NoTurn
          <6>1. cli.round \in Turns /\ InFlight(cli.round)
            BY <5>2 DEF Order, InFlight
          <6> QED BY <2>2, <4>1, <6>1
        <5> QED BY <5>1, <5>2
      <4>3. ASSUME NEW j \in DOMAIN cli'.inbox, j < l, cli'.inbox[j] # Steer
            PROVE  cli'.inbox[j] < m
        <5>1. j \in DOMAIN cli.inbox /\ cli'.inbox[j] = cli.inbox[j]
          BY <1>1, <3>1, <4>3
        <5>2. cli.inbox[j] \in Turns BY <4>3, <5>1 DEF Order
        <5>3. InFlight(cli.inbox[j]) BY <5>1 DEF InFlight, Waiting
        <5> QED BY <2>2, <4>1, <5>1, <5>2, <5>3
      <4> QED BY <4>1, <4>2, <4>3
    <3>2. CASE l # n + 1
      <4>1. l \in DOMAIN cli.inbox /\ cli'.inbox[l] = cli.inbox[l]
        BY <1>2, <3>2
      <4>2. \A j \in DOMAIN cli'.inbox : j < l =>
              j \in DOMAIN cli.inbox /\ cli'.inbox[j] = cli.inbox[j]
        BY <1>1, <4>1
      <4> QED BY <2>2, <4>1, <4>2 DEF Order
    <3> QED BY <3>1, <3>2
  <2>3. cli'.round \in Turns \cup {NoTurn} BY DEF Order
  <2> QED BY <2>1, <2>2, <2>3 DEF Order
<1>6. ASSUME NEW t \in Turns PROVE InFlight(t)' <=> InFlight(t) \/ t = m
  <2>1. Answered(t)' <=> Answered(t) BY DEF Answered
  <2>2. Waiting(t) => Waiting(t)' BY <1>3 DEF Waiting
  <2>3. t = m => Waiting(t)'
    <3>1. n + 1 \in DOMAIN cli'.inbox BY <1>1
    <3> QED BY <1>1, <3>1 DEF Waiting
  <2>4. Waiting(t)' => Waiting(t) \/ t = m BY <1>1, <1>2 DEF Waiting
  <2> QED BY <2>1, <2>2, <2>3, <2>4 DEF InFlight
<1> QED BY <1>5, <1>6

-----------------------------------------------------------------------------
(* The pairing of results and turns.                                       *)

\* A frame is read: a result is that of the current turn, and what remains in
\* flight begins with the turn after it.
LEMMA ReadStep ==
  ASSUME Types, Table, Order, Matched, pipe = "open" => Window, ReadTurnFrame
  PROVE  Order' /\ Window' /\ Own(reader.out)'
<1> DEFINE h == stdout[1]
           c == table.current
           n == table.number
<1>1. /\ pipe = "open" /\ stdout # <<>> /\ stdout' = Tail(stdout)
      /\ Head(stdout) = stdout[1]
  BY FrameRead, Taken DEF Types
<1>2. PICK out \in Notices :
        /\ reader' = IF out = NoEvent THEN reader ELSE [pc |-> "enter", out |-> out]
        /\ h.kind # "result" => table'.current = c /\ Own(out)
        /\ h.kind = "result" =>
             /\ c = NoTurn => table'.current = NoTurn /\ Own(out)
             /\ c # NoTurn =>
                  /\ out.turn = c /\ out.of = h.of
                  /\ table'.current = IF c = n THEN NoTurn ELSE c + 1
  BY <1>1, FrameRead
<1>3. table'.number = n BY FrameRead
<1>4. UNCHANGED cli BY DEF ReadTurnFrame
<1>5. /\ Order'
      /\ \A t \in Turns : InFlight(t)' => InFlight(t)
      /\ \A t \in Turns : InFlight(t) =>
           InFlight(t)' \/ (h.kind = "result" /\ h.of = t)
      /\ h.kind = "result" =>
           /\ h.of \in Turns /\ InFlight(h.of)
           /\ \A t \in Turns : InFlight(t)' => h.of < t
  BY <1>1, <1>4, FrameTaken
<1>6. Own(out) => Own(reader.out)'
  BY <1>2 DEF Matched, Own
<1>7. CanWrite' => CanWrite BY <1>4 DEF CanWrite
<1> HIDE DEF h
<1>8. CASE h.kind # "result"
  <2>1. \A t \in Turns : InFlight(t)' <=> InFlight(t) BY <1>5, <1>8
  <2>2. Window' BY <1>1, <1>2, <1>3, <1>7, <1>8, <2>1, WindowKept
  <2> QED BY <1>2, <1>5, <1>6, <1>8, <2>2
<1>9. CASE h.kind = "result"
  <2>1. h.of \in Turns /\ InFlight(h.of) /\ Window BY <1>1, <1>5, <1>9
  <2>2. c # NoTurn /\ h.of \in c .. n
        /\ \A u \in Turns : u \in c .. h.of => InFlight(u)
    BY <2>1 DEF Window
  <2>3. c \in Nat /\ n \in Nat /\ Turns \subseteq Nat \ {0} BY Numbers
  <2>4. c \in Turns /\ c \in c .. h.of BY <2>1, <2>2, <2>3, Numbers
  <2>5. h.of = c
    <3> SUFFICES ASSUME h.of # c PROVE FALSE OBVIOUS
    <3>1. PICK d \in Turns : d = c BY <2>4
    <3>2. InFlight(d) BY <2>2, <2>4, <3>1
    <3>3. InFlight(d)' BY <1>5, <3>1, <3>2
    <3>4. h.of < d BY <1>5, <1>9, <3>3
    <3> QED BY <2>1, <2>2, <2>3, <3>1, <3>4
  <2>6. Own(out) BY <1>2, <1>9, <2>2, <2>5 DEF Own
  <2>7. table'.current = IF c = n THEN NoTurn ELSE c + 1 BY <1>2, <1>9, <2>2
  <2>8. ASSUME NEW t \in Turns, InFlight(t)'
        PROVE  /\ table'.current # NoTurn /\ t \in table'.current .. n
               /\ \A u \in Turns : u \in table'.current .. t => InFlight(u)'
    <3>1. c < t /\ InFlight(t) BY <1>5, <1>9, <2>5, <2>8
    <3>2. t \in c .. n /\ \A u \in Turns : u \in c .. t => InFlight(u)
      BY <2>1, <3>1 DEF Window
    <3>3. c # n /\ table'.current = c + 1 /\ t \in c + 1 .. n
      BY <2>3, <2>7, <3>1, <3>2
    <3>4. c + 1 # NoTurn BY <2>3 DEF NoTurn
    <3>5. ASSUME NEW u \in Turns, u \in c + 1 .. t PROVE InFlight(u)'
      <4>1. u \in c .. t /\ u # c BY <2>3, <3>5
      <4> QED BY <1>5, <2>5, <3>2, <4>1
    <3> QED BY <3>3, <3>4, <3>5
  <2>9. ASSUME CanWrite', table'.current # NoTurn, NEW t \in Turns,
               t \in table'.current .. n
        PROVE  InFlight(t)'
    <3>1. table'.current = c + 1 BY <2>7, <2>9
    <3>2. t \in c .. n /\ t # c BY <2>3, <2>9, <3>1
    <3>3. InFlight(t) BY <1>7, <2>1, <2>2, <2>9, <3>2 DEF Window
    <3> QED BY <1>5, <2>5, <3>2, <3>3
  <2>10. Window' BY <1>3, <2>8, <2>9 DEF Window
  <2> QED BY <1>5, <1>6, <2>6, <2>10
<1> QED BY <1>8, <1>9

\* A message is sent: its turn is the last of those in flight, unless the CLI no
\* longer reads.
LEMMA SendStep ==
  ASSUME Types, Table, Order, pipe = "open" => Window,
         pipe # "open" => ~cli.alive, SendMessage
  PROVE  Order' /\ (pipe' = "open" => Window')
<1> DEFINE n == table.number
           m == table.number + 1
<1>1. /\ table.number < MaxTurns /\ table' = RegisterTurn(table)
      /\ UNCHANGED <<stdout, pipe>>
      /\ cli' = IF CanWrite
                THEN [cli EXCEPT !.inbox = Append(cli.inbox, table'.number)]
                ELSE cli
  BY DEF SendMessage
<1>2. /\ table'.number = m
      /\ table'.current = IF table.current = NoTurn THEN m ELSE table.current
  BY <1>1, Registered
<1>3. /\ n \in Nat /\ table.current \in Nat /\ m \in Turns /\ m \in Int
      /\ Turns \subseteq Nat \ {0} /\ NoTurn \notin Turns /\ Steer \notin Turns
  BY <1>1, Numbers, ClaudeAssumption DEF ClaudeAssumption, Turns
<1>4. m = n + 1 /\ n = table.number OBVIOUS
<1> HIDE DEF m, n
<1>5. CASE CanWrite
  <2>1. Window BY <1>5 DEF CanWrite
  <2>2. cli' = [cli EXCEPT !.inbox = Append(cli.inbox, m)]
    BY <1>1, <1>2, <1>5
  <2>3. cli'.inbox = Append(cli.inbox, m) /\ cli'.round = cli.round
    BY <2>2 DEF Types
  <2>4. \A t \in Turns : InFlight(t) => t \in table.current .. n /\ t < m
    BY <1>3, <1>4, <2>1 DEF Window
  <2>5. Order' /\ \A t \in Turns : InFlight(t)' <=> InFlight(t) \/ t = m
    BY <1>1, <1>3, <2>3, <2>4, MessageSent
  <2>6. CASE table.current = NoTurn
    <3>1. \A t \in Turns : ~InFlight(t) BY <2>1, <2>6 DEF Window
    <3>2. table'.current = m /\ table'.number = m /\ m # NoTurn
      BY <1>2, <1>3, <2>6
    <3>3. \A t \in Turns : InFlight(t)' <=> t = m BY <2>5, <3>1
    <3>4. \A t \in Turns : t \in m .. m <=> t = m BY <1>3
    <3>5. Window' BY <3>2, <3>3, <3>4 DEF Window
    <3> QED BY <2>5, <3>5
  <2>7. CASE table.current # NoTurn
    <3>1. table'.current = table.current /\ table'.number = m
      BY <1>2, <2>7
    <3>2. \A t \in Turns : t \in table.current .. n => InFlight(t)
      BY <1>4, <1>5, <2>1, <2>7 DEF Window
    <3>3. table.current <= n BY <1>4 DEF Table
    <3>4. \A t \in Turns : t \in table.current .. m <=>
                             t \in table.current .. n \/ t = m
      BY <1>3, <1>4, <3>3
    <3>5. \A t \in Turns : InFlight(t)' <=> t \in table.current .. m
      BY <2>4, <2>5, <3>2, <3>4
    <3>6. ASSUME NEW t \in Turns, InFlight(t)', NEW u \in Turns,
                 u \in table.current .. t
          PROVE  InFlight(u)'
      <4>1. u \in table.current .. m BY <1>3, <3>5, <3>6
      <4> QED BY <3>5, <4>1
    <3>7. Window' BY <2>7, <3>1, <3>5, <3>6 DEF Window
    <3> QED BY <2>5, <3>7
  <2> QED BY <2>6, <2>7
<1>6. CASE ~CanWrite
  <2>1. UNCHANGED cli /\ ~CanWrite' BY <1>1, <1>6 DEF CanWrite
  <2>2. (Order => Order') /\ \A t \in Turns : InFlight(t)' <=> InFlight(t)
    BY <1>1, <2>1, SameMessages
  <2>3. ASSUME Window PROVE Window'
    <3>1. ASSUME NEW t \in Turns, InFlight(t)'
          PROVE  /\ table'.current # NoTurn
                 /\ t \in table'.current .. table'.number
                 /\ \A u \in Turns : u \in table'.current .. t => InFlight(u)'
      <4>1. /\ table.current # NoTurn /\ t \in table.current .. n
            /\ \A u \in Turns : u \in table.current .. t => InFlight(u)
        BY <1>4, <2>2, <2>3, <3>1 DEF Window
      <4>2. table'.current = table.current /\ table'.number = m BY <1>2, <4>1
      <4>3. t \in table.current .. m BY <1>3, <1>4, <4>1
      <4> QED BY <2>2, <4>1, <4>2, <4>3
    <3> QED BY <2>1, <3>1 DEF Window
  <2> QED BY <1>1, <2>2, <2>3
<1> QED BY <1>5, <1>6

\* Every step keeps the pairing.
LEMMA PairedStep ==
  ASSUME Types, Table, Paired, Next
  PROVE  Paired'
<1>1. /\ hist.steerRound \in BOOLEAN /\ reader.out \in Notices
      /\ hist.foreign \subseteq Int
  BY DEF Types
<1>2. pipe # "open" => ~cli.alive /\ life.started BY DEF Paired
<1> DEFINE Message == Order /\ (pipe = "open" => Window)
           Start0 == pipe # "open" => ~cli.alive /\ life.started
           Match == Matched
<1>3. Own(NoEvent) /\ Own(ErrorEvent) /\ Own(Event("exit", table.current))
  BY DEF Own, NoEvent, ErrorEvent, Event
\* Steps that leave messages, results and turns alone.
<1>4. ASSUME cli'.inbox = cli.inbox, cli'.round = cli.round,
             UNCHANGED <<stdout, table, pipe>>,
             CanWrite' => CanWrite \/ table.current = NoTurn, Message
      PROVE  Message'
  <2>1. Order' /\ \A t \in Turns : InFlight(t)' <=> InFlight(t)
    BY <1>4, SameMessages
  <2>2. Window => Window'
    BY <1>4, <2>1, WindowKept
  <2> QED BY <1>4, <2>1, <2>2
<1>5. ASSUME UNCHANGED <<events, hist>>, Own(reader.out'), Match PROVE Match'
  BY <1>5 DEF Matched
<1>6. ASSUME UNCHANGED <<reader, events, hist>>, Match PROVE Match'
  BY <1>6 DEF Matched
<1>7. ASSUME NEW p, NEW e \in Notices, EmitSend(p, e), Own(e), Own(reader.out'),
             Match
      PROVE  Match' /\ hist'.steerRound = hist.steerRound
  <2>1. hist'.foreign = hist.foreign /\ hist'.steerRound = hist.steerRound
    <3>1. \/ hist' = hist
          \/ hist' = [hist EXCEPT !.dropped = hist.dropped \cup {e.turn}]
      BY <1>7 DEF EmitSend
    <3> QED BY <3>1 DEF Types
  <2>2. events' = events \/ events' = Append(events, e)
    BY <1>7 DEF EmitSend
  <2>3. \A k \in DOMAIN events' : Own(events'[k])
    <3>1. CASE events' = events BY <1>7, <3>1 DEF Matched
    <3>2. CASE events' = Append(events, e)
      <4>1. /\ DOMAIN events = 1 .. Len(events) /\ Len(events) \in Nat
            /\ DOMAIN events' = 1 .. Len(events) + 1
            /\ \A k \in 1 .. Len(events) : events'[k] = events[k]
            /\ events'[Len(events) + 1] = e
        BY <3>2, Appended DEF Types
      <4>2. \A k \in DOMAIN events : Own(events[k]) BY <1>7 DEF Matched
      <4>3. ASSUME NEW k \in DOMAIN events' PROVE Own(events'[k])
        <5>1. CASE k = Len(events) + 1 BY <1>7, <4>1, <5>1
        <5>2. CASE k # Len(events) + 1
          <6>1. k \in DOMAIN events /\ events'[k] = events[k] BY <4>1, <5>2
          <6> QED BY <4>2, <6>1
        <5> QED BY <5>1, <5>2
      <4> QED BY <4>3
    <3> QED BY <2>2, <3>1, <3>2
  <2>4. Own(reader.out)' BY <1>7 DEF Own
  <2> QED BY <1>7, <2>1, <2>3, <2>4 DEF Matched
<1> HIDE DEF Message, Start0, Match
<1>8. ASSUME Start0', hist'.steerRound = hist.steerRound,
             Message /\ Match => Message' /\ Match'
      PROVE  Paired'
  BY <1>8 DEF Paired, Message, Start0, Match
<1>9. ASSUME cli'.inbox = cli.inbox, cli'.round = cli.round,
             UNCHANGED <<stdout, table, pipe>>,
             CanWrite' => CanWrite \/ table.current = NoTurn,
             pipe # "open" /\ cli'.alive => cli.alive,
             life.started => life'.started,
             hist'.steerRound = hist.steerRound, Match => Match'
      PROVE  Paired'
  <2>1. Start0' BY <1>2, <1>9 DEF Start0
  <2> QED BY <1>4, <1>8, <1>9, <2>1
<1>10. CASE Start
  <2>1. table.current = NoTurn /\ pipe = "open"
    BY <1>2, <1>10 DEF Start, Table
  <2>2. /\ cli'.inbox = cli.inbox /\ cli'.round = cli.round
        /\ UNCHANGED <<stdout, table, pipe, events, hist>> /\ ~life.started
        /\ reader'.out = reader.out
    BY <1>10 DEF Start, Types
  <2>3. Match => Match' BY <1>5, <2>2 DEF Match, Matched
  <2> QED BY <1>9, <2>1, <2>2, <2>3
<1>11. CASE SendMessage
  <2>1. /\ UNCHANGED <<pipe, life, reader, events, hist>>
        /\ cli' = cli \/ cli' = [cli EXCEPT !.inbox = Append(cli.inbox, table'.number)]
    BY <1>11 DEF SendMessage
  <2>2. cli'.alive = cli.alive BY <2>1 DEF Types
  <2>3. Start0' BY <1>2, <2>1, <2>2 DEF Start0
  <2>4. Message => Message' BY <1>2, <1>11, SendStep DEF Message
  <2> QED BY <1>6, <1>8, <2>1, <2>3, <2>4
<1>12. CASE SendSteerInput
  <2>1. /\ UNCHANGED <<pipe, life, reader, events, table, stdout>>
        /\ cli' = [cli EXCEPT !.inbox = Append(cli.inbox, Steer)]
        /\ hist' = [hist EXCEPT !.steers = hist.steers + 1]
    BY <1>12 DEF SendSteerInput
  <2>2. /\ cli'.alive = cli.alive /\ cli'.stdin = cli.stdin
        /\ cli'.round = cli.round /\ cli'.inbox = Append(cli.inbox, Steer)
        /\ hist'.foreign = hist.foreign /\ hist'.steerRound = hist.steerRound
    BY <2>1 DEF Types
  <2>3. Start0' BY <1>2, <2>1, <2>2 DEF Start0
  <2>4. Match => Match' BY <2>1, <2>2 DEF Match, Matched
  <2>5. ASSUME Message PROVE Message'
    <3>1. Steer \in Int /\ Steer \notin Turns BY Numbers DEF Steer
    <3>2. Order' /\ \A t \in Turns : InFlight(t)' <=> InFlight(t) \/ t = Steer
      BY <2>1, <2>2, <2>5, <3>1, MessageSent DEF Message
    <3>3. \A t \in Turns : InFlight(t)' <=> InFlight(t) BY <3>1, <3>2
    <3>4. CanWrite' => CanWrite BY <2>2 DEF CanWrite
    <3>5. Window => Window' BY <2>1, <3>3, <3>4, WindowKept
    <3> QED BY <2>1, <2>5, <3>2, <3>5 DEF Message
  <2> QED BY <1>8, <2>2, <2>3, <2>4, <2>5
<1>13. CASE ReadTurnFrame
  <2>1. UNCHANGED <<pipe, life, cli, events, hist>> BY <1>13 DEF ReadTurnFrame
  <2>2. ASSUME Message, Match PROVE Message' /\ Match'
    <3>1. Order' /\ Window' /\ Own(reader.out)'
      BY <1>13, <2>2, ReadStep DEF Message, Match
    <3>2. Match' BY <2>1, <2>2, <3>1 DEF Match, Matched
    <3> QED BY <3>1, <3>2 DEF Message
  <2> QED BY <1>2, <1>8, <2>1, <2>2 DEF Start0
<1>14. CASE ReadControlRequest \/ ReadControlCancel \/ ReadControlResponse
  <2>1. /\ UNCHANGED <<pipe, life, cli, table, reader, events, hist>>
        /\ stdout # <<>> /\ stdout' = Tail(stdout)
        /\ Head(stdout).kind # "result"
    BY <1>14 DEF ReadControlRequest, ReadControlCancel, ReadControlResponse,
       Reading, NextFrame
  <2>2. ASSUME Message PROVE Message'
    <3>1. Head(stdout) = stdout[1] BY <2>1, Taken DEF Types
    <3>2. Order' /\ \A t \in Turns : InFlight(t)' <=> InFlight(t)
      BY <2>1, <2>2, <3>1, FrameTaken DEF Message
    <3>3. CanWrite' => CanWrite BY <2>1 DEF CanWrite
    <3>4. Window => Window' BY <2>1, <3>2, <3>3, WindowKept
    <3> QED BY <2>1, <2>2, <3>2, <3>4 DEF Message
  <2> QED BY <1>2, <1>6, <1>8, <2>1, <2>2 DEF Start0
<1>15. CASE ReadFails \/ ReaderDone \/ ReaderEmitEnter
  <2>1. UNCHANGED <<pipe, life, cli, table, stdout, events, hist>>
    BY <1>15 DEF ReadFails, ReaderDone, ReaderEmitEnter
  <2>2. \/ reader'.out = reader.out \/ reader'.out = NoEvent
        \/ reader'.out = Event("exit", table.current)
    BY <1>15 DEF ReadFails, ReaderDone, ReaderEmitEnter, Types
  <2>3. Match => Match' BY <1>3, <1>5, <2>1, <2>2 DEF Match, Matched
  <2>4. CanWrite' => CanWrite BY <2>1 DEF CanWrite
  <2> QED BY <1>9, <2>1, <2>3, <2>4
<1>16. CASE ReaderEmitSend
  <2>1. /\ UNCHANGED <<pipe, life, cli, table, stdout>>
        /\ EmitSend(Reader, reader.out) /\ reader'.out = NoEvent
    BY <1>16 DEF ReaderEmitSend
  <2>2. CanWrite' => CanWrite BY <2>1 DEF CanWrite
  <2>3. hist'.steerRound = hist.steerRound
    BY <2>1 DEF EmitSend, Types
  <2>4. Match => Match'
    BY <1>1, <1>3, <1>7, <2>1 DEF Match, Matched
  <2> QED BY <1>9, <2>1, <2>2, <2>3, <2>4
<1>17. ASSUME NEW pc, NEW next, CloseEvents(pc, next)
       PROVE  life'.started = life.started
  <2>1. \/ life' = life \/ life' = [life EXCEPT !.done = TRUE]
        \/ life' = [life EXCEPT !.stopped = TRUE]
        \/ life' = [life EXCEPT !.closed = TRUE]
    BY <1>17 DEF CloseEvents, CloseChannel
  <2> QED BY <2>1 DEF Types
<1>18. CASE ReaderClose \/ StopClose
  <2>1. /\ UNCHANGED <<pipe, cli, table, stdout, events, hist>>
        /\ life'.started = life.started /\ reader'.out = reader.out
    BY <1>17, <1>18 DEF ReaderClose, StopClose, Types
  <2>2. CanWrite' => CanWrite BY <2>1 DEF CanWrite
  <2>3. Match => Match' BY <2>1 DEF Match, Matched
  <2> QED BY <1>9, <2>1, <2>2, <2>3
<1>19. CASE WaitLoop
  <2>1. /\ pipe' = "closed" /\ stdout' = <<>> /\ ~cli.alive /\ life.started
        /\ life' = [life EXCEPT !.waited = TRUE]
        /\ UNCHANGED <<table, cli, reader, events, hist>>
    BY <1>19 DEF WaitLoop
  <2>2. Start0' BY <2>1 DEF Start0, Types
  <2>3. ASSUME Message PROVE Message'
    <3>1. \A k \in DOMAIN stdout' : FALSE BY <2>1
    <3>2. Order' BY <2>1, <2>3, <3>1 DEF Message, Order
    <3> QED BY <2>1, <3>2 DEF Message
  <2> QED BY <1>6, <1>8, <2>1, <2>2, <2>3
<1>20. CASE StopBegin \/ StopWait \/ CliExits
  <2>1. /\ UNCHANGED <<pipe, table, stdout, reader, events, hist>>
        /\ cli'.inbox = cli.inbox /\ cli'.round = cli.round
        /\ cli'.alive => cli.alive
        /\ cli'.alive /\ cli'.stdin => cli.alive /\ cli.stdin
        /\ life'.started = life.started
    BY <1>20 DEF StopBegin, StopWait, CliExits, Types
  <2>2. CanWrite' => CanWrite BY <2>1 DEF CanWrite
  <2> QED BY <1>6, <1>9, <2>1, <2>2
<1>21. ASSUME NEW c \in Ctls, CtlStep(c) PROVE Paired'
  <2>1. /\ UNCHANGED <<pipe, life, table, stdout, reader, events, hist>>
        /\ cli' = cli \/ cli' = [cli EXCEPT !.asked = cli.asked \cup {c}]
    BY <1>21 DEF CtlStep, CtlRegister, CtlWrite, CtlReturn
  <2>2. /\ cli'.inbox = cli.inbox /\ cli'.round = cli.round
        /\ cli'.alive = cli.alive /\ cli'.stdin = cli.stdin
    BY <2>1 DEF Types
  <2>3. CanWrite' => CanWrite BY <2>2 DEF CanWrite
  <2> QED BY <1>6, <1>9, <2>1, <2>2, <2>3
<1>22. ASSUME NEW q \in Asks,
              AskRegister(q) \/ AskReturn(q) \/ AskReleasedReturn(q) \/ AskCheck(q)
                \/ AskWrite(q) \/ AskRelease(q) \/ AskEmitEnter(q)
       PROVE  Paired'
  <2>1. UNCHANGED <<pipe, life, cli, table, stdout, reader, events, hist>>
    BY <1>22 DEF AskRegister, AskReturn, AskReleasedReturn, AskCheck, AskWrite,
       AskRelease, AskEmitEnter
  <2>2. CanWrite' => CanWrite BY <2>1 DEF CanWrite
  <2> QED BY <1>6, <1>9, <2>1, <2>2
<1>23. ASSUME NEW q \in Asks, AskEmitSend(q) PROVE Paired'
  <2>1. /\ UNCHANGED <<pipe, life, cli, table, stdout, reader>>
        /\ EmitSend(q, ErrorEvent)
    BY <1>23 DEF AskEmitSend
  <2>2. CanWrite' => CanWrite BY <2>1 DEF CanWrite
  <2>3. ErrorEvent \in Notices
    BY Numbers DEF ErrorEvent, Event, Notices, Names
  <2>4. hist'.steerRound = hist.steerRound BY <2>1 DEF EmitSend, Types
  <2>5. Match => Match'
    BY <1>3, <1>7, <2>1, <2>3 DEF Match, Matched
  <2> QED BY <1>9, <2>1, <2>2, <2>4, <2>5
<1>24. CASE Consume
  <2> DEFINE e == Head(events)
  <2>1. /\ events # <<>> /\ events' = Tail(events)
        /\ UNCHANGED <<pipe, life, cli, table, stdout, reader>>
        /\ hist' = IF e.kind = "complete"
                   THEN [hist EXCEPT !.ended = hist.ended \cup {e.turn},
                                     !.foreign = IF e.of = e.turn THEN hist.foreign
                                                 ELSE hist.foreign \cup {e.turn}]
                   ELSE hist
    BY <1>24 DEF Consume
  <2>2. /\ e = events[1] /\ DOMAIN events = 1 .. Len(events)
        /\ Len(events) \in Nat \ {0}
        /\ DOMAIN events' = 1 .. Len(events) - 1
        /\ \A k \in 1 .. Len(events) - 1 : events'[k] = events[k + 1]
    BY <2>1, Taken DEF Types
  <2> HIDE DEF e
  <2>3. /\ hist'.steerRound = hist.steerRound
        /\ Own(e) => hist'.foreign = hist.foreign
    BY <2>1 DEF Types, Own
  <2>4. ASSUME Match PROVE Match'
    <3>1. \A k \in DOMAIN events : Own(events[k]) BY <2>4 DEF Match, Matched
    <3>2. Own(e) BY <2>2, <3>1
    <3>3. \A k \in DOMAIN events' : Own(events'[k]) BY <2>2, <3>1
    <3>4. hist'.foreign = {} BY <2>3, <2>4, <3>2 DEF Match, Matched
    <3> QED BY <2>1, <2>4, <3>3, <3>4 DEF Match, Matched
  <2>5. CanWrite' => CanWrite BY <2>1 DEF CanWrite
  <2> QED BY <1>9, <2>1, <2>3, <2>4, <2>5
<1>25. CASE CliReads
  <2> DEFINE h == Head(cli.inbox)
  <2>1. /\ UNCHANGED <<pipe, life, table, stdout, reader, events>>
        /\ cli.inbox # <<>>
        /\ \/ /\ cli.round = NoTurn
              /\ cli' = [cli EXCEPT !.round = h, !.inbox = Tail(cli.inbox)]
              /\ hist' = [hist EXCEPT !.steerRound = @ \/ h = Steer]
           \/ /\ cli.round # NoTurn /\ h = Steer
              /\ cli' = [cli EXCEPT !.inbox = Tail(cli.inbox)] /\ hist' = hist
    BY <1>25 DEF CliReads
  <2> HIDE DEF h
  <2>2. /\ cli'.alive = cli.alive /\ cli'.stdin = cli.stdin
        /\ cli'.inbox = Tail(cli.inbox) /\ hist'.foreign = hist.foreign
        /\ \/ /\ cli.round = NoTurn /\ cli'.round = h
              /\ hist'.steerRound <=> hist.steerRound \/ h = Steer
           \/ /\ cli.round # NoTurn /\ h = Steer /\ cli'.round = cli.round
              /\ hist'.steerRound = hist.steerRound
    BY <1>1, <2>1 DEF Types
  <2>3. Start0' BY <1>2, <2>1, <2>2 DEF Start0
  <2>4. Match => Match' BY <2>1, <2>2 DEF Match, Matched
  <2>5. CanWrite' => CanWrite BY <2>2 DEF CanWrite
  <2>6. ASSUME Message, ~hist'.steerRound PROVE Message'
    <3>1. Order' /\ \A t \in Turns : InFlight(t)' <=> InFlight(t)
      <4>1. CASE cli.round = NoTurn
        <5>1. h # Steer /\ cli'.round = h BY <1>1, <2>2, <2>6, <4>1
        <5> QED BY <2>1, <2>2, <2>6, <4>1, <5>1, RoundBegins DEF Message, h
      <4>2. CASE cli.round # NoTurn
        <5>1. h = Steer /\ cli'.round = cli.round BY <2>2, <4>2
        <5> QED BY <2>1, <2>2, <2>6, <5>1, SteerJoins DEF Message, h
      <4> QED BY <4>1, <4>2
    <3>2. Window => Window' BY <2>1, <2>5, <3>1, WindowKept
    <3> QED BY <2>1, <2>6, <3>1, <3>2 DEF Message
  <2>7. hist.steerRound => hist'.steerRound BY <2>2
  <2> QED BY <2>3, <2>4, <2>6, <2>7 DEF Paired, Message, Match, Start0
<1>26. CASE CliResult
  <2>1. /\ UNCHANGED <<pipe, life, table, reader, events, hist>>
        /\ cli.round # NoTurn /\ cli' = [cli EXCEPT !.round = NoTurn]
        /\ stdout' = Append(stdout, Frame("result", cli.round))
    BY <1>26 DEF CliResult
  <2>2. /\ cli'.alive = cli.alive /\ cli'.stdin = cli.stdin
        /\ cli'.inbox = cli.inbox /\ cli'.round = NoTurn
    BY <2>1 DEF Types
  <2>3. Start0' BY <1>2, <2>1, <2>2 DEF Start0
  <2>4. CanWrite' => CanWrite BY <2>2 DEF CanWrite
  <2>5. ASSUME Message PROVE Message'
    <3>1. Order' /\ \A t \in Turns : InFlight(t)' <=> InFlight(t)
      BY <2>1, <2>2, <2>5, ResultWritten DEF Message
    <3>2. Window => Window' BY <2>1, <2>4, <3>1, WindowKept
    <3> QED BY <2>1, <2>5, <3>1, <3>2 DEF Message
  <2> QED BY <1>6, <1>8, <2>1, <2>3, <2>5
<1>27. ASSUME UNCHANGED <<pipe, life, table, reader, events, hist>>,
              cli'.alive = cli.alive, cli'.stdin = cli.stdin,
              cli'.inbox = cli.inbox, cli'.round = cli.round,
              NEW f \in Frames, f.kind # "result", stdout' = Append(stdout, f)
       PROVE  Paired'
  <2>1. Start0' BY <1>2, <1>27 DEF Start0
  <2>2. CanWrite' => CanWrite BY <1>27 DEF CanWrite
  <2>3. ASSUME Message PROVE Message'
    <3>1. Order' /\ \A t \in Turns : InFlight(t)' <=> InFlight(t)
      BY <1>27, <2>3, FrameWritten DEF Message
    <3>2. Window => Window' BY <1>27, <2>2, <3>1, WindowKept
    <3> QED BY <1>27, <2>3, <3>1, <3>2 DEF Message
  <2> QED BY <1>6, <1>8, <1>27, <2>1, <2>3
<1>28. CASE CliChatter
  <2>1. /\ UNCHANGED <<pipe, life, table, reader, events, hist>>
        /\ cli' = [cli EXCEPT !.chatter = cli.chatter + 1]
    BY <1>28 DEF CliChatter
  <2>2. /\ cli'.alive = cli.alive /\ cli'.stdin = cli.stdin
        /\ cli'.inbox = cli.inbox /\ cli'.round = cli.round
    BY <2>1 DEF Types
  <2>3. \E f \in Frames : f.kind # "result" /\ stdout' = Append(stdout, f)
    BY <1>28, ClaudeAssumption
       DEF CliChatter, ClaudeAssumption, AllChatter, Frame, Frames, Names, NoTurn
  <2> QED BY <1>27, <2>1, <2>2, <2>3
<1>29. ASSUME NEW c \in Ctls, CliResponds(c) PROVE Paired'
  <2>1. /\ UNCHANGED <<pipe, life, table, reader, events, hist>>
        /\ cli' = [cli EXCEPT !.asked = cli.asked \ {c}]
        /\ stdout' = Append(stdout, Frame("response", c))
    BY <1>29 DEF CliResponds
  <2>2. /\ cli'.alive = cli.alive /\ cli'.stdin = cli.stdin
        /\ cli'.inbox = cli.inbox /\ cli'.round = cli.round
    BY <2>1 DEF Types
  <2>3. Frame("response", c) \in Frames /\ Frame("response", c).kind # "result"
    BY DEF Frame, Frames, Names
  <2> QED BY <1>27, <2>1, <2>2, <2>3
<1> QED
  BY <1>10, <1>11, <1>12, <1>13, <1>14, <1>15, <1>16, <1>18, <1>19, <1>20, <1>21,
     <1>22, <1>23, <1>24, <1>25, <1>26, <1>28, <1>29
     DEF Next, ReaderStep, StopStep, AskStep

-----------------------------------------------------------------------------
(* The theorems.                                                           *)

\* A session that has not been started satisfies the invariant.
LEMMA InitInv == Init => SessionInv
<1> SUFFICES ASSUME Init PROVE SessionInv OBVIOUS
<1>1. /\ life = [started |-> FALSE, stopped |-> FALSE, done |-> FALSE,
                 closed |-> FALSE, waited |-> FALSE]
      /\ table = [number |-> 0, current |-> NoTurn, pending |-> <<>>,
                  turns |-> {}, tool |-> [t \in Turns |-> "none"], seen |-> {}]
      /\ cli = [alive |-> FALSE, inbox |-> <<>>, round |-> NoTurn,
                chatter |-> 0, asked |-> {}, stdin |-> FALSE]
      /\ stdout = <<>> /\ pipe = "open" /\ events = <<>> /\ rlock = {}
      /\ reader = [pc |-> "new", out |-> NoEvent] /\ stopper = "new"
      /\ hist = [ended |-> {}, dropped |-> {}, foreign |-> {}, steers |-> 0,
                 steerRound |-> FALSE]
  BY DEF Init
<1>2. NoEvent \in Notices /\ NoEvent.kind = "none" /\ "new" \in Pcs
  BY DEF NoEvent, Event, Notices, Names, NoTurn, Pcs
<1>3. Types
  <2>1. table \in Tables
    BY <1>1, ClaudeAssumption DEF Tables, ClaudeAssumption, NoTurn
  <2> QED BY <1>1, <1>2, <2>1 DEF Types, NoTurn
<1>4. Sealed BY <1>1 DEF Sealed
<1>5. Table BY <1>1 DEF Table, NoTurn
<1>6. \A t \in Turns : ~InFlight(t)
  BY <1>1 DEF InFlight, Waiting, Answered, NoTurn, Turns
<1>7. Order BY <1>1 DEF Order
<1>8. Window BY <1>1, <1>6 DEF Window, CanWrite
<1>9. Matched BY <1>1, <1>2 DEF Matched, Own
<1> QED BY <1>1, <1>3, <1>4, <1>5, <1>7, <1>8, <1>9 DEF SessionInv, Paired

\* The invariant speaks of the variables only.
LEMMA StutterInv ==
  ASSUME SessionInv, UNCHANGED vars
  PROVE  SessionInv'
<1>1. /\ life' = life /\ table' = table /\ cli' = cli /\ stdout' = stdout
      /\ pipe' = pipe /\ reader' = reader /\ events' = events
      /\ rlock' = rlock /\ stopper' = stopper /\ hist' = hist
  BY DEF vars
<1>2. ASSUME Types PROVE Types' BY <1>1, <1>2 DEF Types
<1>3. ASSUME Sealed PROVE Sealed' BY <1>1, <1>3 DEF Sealed
<1>4. ASSUME Table PROVE Table' BY <1>1, <1>4 DEF Table
<1>5. ASSUME Order PROVE Order' BY <1>1, <1>5 DEF Order
<1>6. ASSUME Matched PROVE Matched' BY <1>1, <1>6 DEF Matched, Own
<1>7. ASSUME Window PROVE Window'
  BY <1>1, <1>7 DEF Window, InFlight, Waiting, Answered, CanWrite
<1>8. ASSUME Paired PROVE Paired'
  BY <1>1, <1>5, <1>6, <1>7, <1>8 DEF Paired
<1> QED BY <1>2, <1>3, <1>4, <1>8 DEF SessionInv

\* Every reachable state satisfies the invariant.
LEMMA SessionInvariant == Spec => []SessionInv
<1>1. ASSUME SessionInv, [Next]_vars PROVE SessionInv'
  <2>1. CASE Next
    BY <1>1, <2>1, SealedStep, TypesStep, PairedStep DEF SessionInv
  <2>2. CASE UNCHANGED vars BY <1>1, <2>2, StutterInv
  <2> QED BY <1>1, <2>1, <2>2
<1> QED BY <1>1, InitInv, PTL DEF Spec

\* No goroutine is between emit's check of done and its send when the channel
\* is closed, whether the reader or Stop closes it, and however many handlers
\* of the CLI's requests are emitting: done is announced before closeEvents
\* waits for eventsMu, and closed only while nobody holds it.
THEOREM ClaudeNoSendOnClosed == Spec => []NoSendOnClosed
<1>1. SessionInv => NoSendOnClosed BY DEF SessionInv, Sealed, NoSendOnClosed
<1> QED BY <1>1, SessionInvariant, PTL

\* handleResultMessage's rule, the result belongs to the current turn, is right
\* for any number of queued turns and steers until a steer becomes a round of
\* its own: the CLI answers messages in the order of the turns, and the current
\* turn is the oldest one that is in flight.
THEOREM ClaudeOwnResult == Spec => []OwnResult
<1>1. SessionInv => OwnResult
  BY DEF SessionInv, Types, Paired, Matched, OwnResult
<1> QED BY <1>1, SessionInvariant, PTL
=============================================================================

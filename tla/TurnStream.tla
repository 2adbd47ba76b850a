----------------------------- MODULE TurnStream -----------------------------
(***************************************************************************)
(* The cards of one turn: adapter/feishu/turnstream/service.go keeps a     *)
(* stream per turn, adapter/feishu/turn/quietcard.go the working card that *)
(* collects progress between two messages of the agent, and feishuapp      *)
(* sends what they ask for.                                                *)
(*                                                                         *)
(* The items of a turn are handled one after the other by the loop that    *)
(* reads the backend's events.  Each handler changes the stream under the  *)
(* tracker's lock and then, without it, sends cards: `ops' is what it has  *)
(* still to send.  The card of a server request is delivered by a routine  *)
(* of its own, which takes the lock before and after its send.             *)
(*                                                                         *)
(* A message is its position in `chat', which holds what it shows now; a   *)
(* line of a working card is the item it stands for with its version, item *)
(* 0 being the reasoning line.  A send or patch may fail, and a failed     *)
(* patch may have been applied.                                            *)
(***************************************************************************)
EXTENDS Naturals, Sequences

CONSTANTS
  Mode,         \* quiet mode of the frontend: verbose, progress, normal, final
  MaxItems,     \* items the backend completes
  MaxPosts,     \* messages in the chat
  MaxRequests,  \* server requests
  MaxFailures   \* sends and patches that fail

VARIABLES
  chat,      \* what each message shows
  stream,    \* tracker.Streams[turnID] without its working card
  quiet,     \* stream.QuietWorking
  ops,       \* sends the item loop has still to do
  items,     \* items handled so far
  phase,     \* "running", "completed" or "failed"
  request,   \* the routine that delivers a server request
  requests,  \* requests delivered so far
  floor,     \* the newest message that carried a request card
  failures,  \* failures so far
  undelivered  \* something could not be delivered by any means

streamVars == <<chat, stream, quiet, ops, items, phase, request, requests, floor,
          failures, undelivered>>

Reasoning == <<0, 0>>
NoQuiet == [live |-> FALSE, msg |-> 0, lines |-> {}, rendered |-> {}]
NoPlan == 0

NewStream ==
  [live |-> TRUE, pending |-> NoPlan, sentPlan |-> NoPlan, planMsg |-> 0,
   sawPlan |-> FALSE, sentFinal |-> FALSE, finalMsg |-> 0, cand |-> 0,
   candMsg |-> 0, review |-> FALSE, tool |-> FALSE]

Tool == MaxItems + 1  \* the item whose progress is shown before it completes

Kinds == {"reasoning", "work", "silent", "agent", "final", "review",
          "question", "plan"}

(* BuildTurnItemCardPayload: what a completed item has to show by itself.  *)
HasPayload(kind) == kind \notin {"reasoning", "silent"}

Boundary == {"agent", "final", "review", "question", "plan"}

(* BuildWorkingCardLines: the lines an item puts on the working card.      *)
LinesOf(kind, i, version) ==
  CASE kind = "reasoning" -> {Reasoning}
    [] kind = "work" -> {<<i, version>>}
    [] OTHER -> {}

IsReasoningOnly(q) == q.live /\ q.lines = {Reasoning}

(* ShouldDeliverTurnItemPayload and ShouldDeliverTurnKind.                 *)
DeliversItem(kind) ==
  \/ kind = "question" \/ Mode = "verbose"
  \/ Mode \in {"progress", "normal"} /\ kind \in Boundary
  \/ Mode = "final" /\ kind \in {"final", "review"}

DeliversPlan == Mode # "final"
WorkingCardEnabled == Mode = "progress"

WorkOp(m, body) == [do |-> "work", msg |-> m, body |-> body]
CardOp(shows, reuse, remember, i) ==
  [do |-> "card", shows |-> shows, reuse |-> reuse, remember |-> remember,
   item |-> i]

(* PrepareUpdateLocked with ReplaceEntries and RemoveEntries: the card and *)
(* the operation it needs, none when its body is the rendered one.         *)
PrepareUpdate(q, kind, i, version) ==
  LET lines == LinesOf(kind, i, version)
      mine == {l \in q.lines : IF kind = "reasoning" THEN l = Reasoning
                                                     ELSE l[1] = i}
      changed == mine # lines
      body == IF ~changed THEN q.lines
              ELSE ((q.lines \ mine) \cup lines)
                     \ (IF kind = "reasoning" THEN {} ELSE {Reasoning})
  IN IF ~q.live /\ lines = {} THEN [card |-> q, ops |-> <<>>]
     ELSE [card |-> [q EXCEPT !.live = TRUE, !.lines = body],
           ops |-> IF changed /\ body # {} /\ body # q.rendered
                   THEN <<WorkOp(q.msg, body)>> ELSE <<>>]

(* PrepareBoundaryLocked: the working card ends.  One that shows reasoning *)
(* only is handed over for reuse, another one loses its reasoning line.    *)
PrepareBoundary(q) ==
  IF IsReasoningOnly(q) THEN [reuse |-> q.msg, ops |-> <<>>]
  ELSE [reuse |-> 0,
        ops |-> IF /\ q.live /\ Reasoning \in q.lines /\ q.msg # 0
                   /\ q.lines \ {Reasoning} \notin {{}, q.rendered}
                THEN <<WorkOp(q.msg, q.lines \ {Reasoning})>> ELSE <<>>]

FirstSet(a, b) == IF a # 0 THEN a ELSE b

StreamInit ==
  /\ chat = <<>> /\ stream = NewStream /\ quiet = NoQuiet
  /\ ops = <<>> /\ items = 0 /\ phase = "running"
  /\ request = [at |-> "idle", msg |-> 0] /\ requests = 0 /\ floor = 0
  /\ failures = 0 /\ undelivered = FALSE

Busy == ops # <<>>

(* UpdatePendingPlan.                                                      *)
UpdatePendingPlan ==
  /\ phase = "running" /\ ~Busy /\ stream.pending = NoPlan
  /\ stream.sentPlan < 2
  /\ stream' = [stream EXCEPT !.pending = stream.sentPlan + 1]
  /\ UNCHANGED <<chat, quiet, ops, items, phase, request, requests, floor,
                 failures, undelivered>>

(* UpdateInFlightTurnItem: progress of an item that is not complete.       *)
UpdateInFlight ==
  /\ phase = "running" /\ ~Busy /\ ~stream.tool /\ items < MaxItems
  /\ stream' = [stream EXCEPT !.tool = TRUE]
  /\ LET u == PrepareUpdate(quiet, "work", Tool, 1)
     IN IF WorkingCardEnabled THEN quiet' = u.card /\ ops' = u.ops
        ELSE /\ quiet' = quiet
             /\ ops' = IF DeliversItem("work")
                       THEN <<CardOp("work", 0, "no", Tool)>> ELSE <<>>
  /\ UNCHANGED <<chat, items, phase, request, requests, floor, failures, undelivered>>

\* Mutant of NoteFinal: any message of the agent counts as the final answer.
NoteFinalCountsAgent(s, kind, i) ==
  CASE kind = "question" -> [s EXCEPT !.finalMsg = 0, !.cand = 0, !.candMsg = 0]
    [] kind = "review" -> [s EXCEPT !.sentFinal = TRUE, !.review = TRUE]
    [] kind \in {"final", "agent"} /\ ~s.review -> [s EXCEPT !.sentFinal = TRUE]
    [] OTHER -> s

(* What a message of the agent does to the stream's final answer.          *)
NoteFinal(s, kind, i) ==
  CASE kind = "question" -> [s EXCEPT !.finalMsg = 0, !.cand = 0, !.candMsg = 0]
    [] kind = "review" -> [s EXCEPT !.sentFinal = TRUE, !.review = TRUE]
    [] kind = "final" /\ ~s.review -> [s EXCEPT !.sentFinal = TRUE]
    [] kind = "agent" /\ ~s.review -> [s EXCEPT !.cand = i, !.candMsg = 0]
    [] OTHER -> s

Remember(kind) ==
  CASE kind \in {"final", "review"} -> "final"
    [] kind = "agent" -> "cand"
    [] OTHER -> "no"

(* CompleteTurnItemWithResult: the part under the lock, and what is left   *)
(* to send.                                                                *)
CompleteTurnItem(kind, i) ==
  /\ i = Tool => kind = "work" /\ stream.tool
  /\ phase = "running" /\ ~Busy /\ items < MaxItems
  /\ items' = items + 1
  /\ LET s1 == IF kind = "plan" THEN [stream EXCEPT !.sawPlan = TRUE] ELSE stream
         planDue == stream.pending \notin {NoPlan, stream.sentPlan}
         planEnd == IF planDue THEN PrepareBoundary(quiet)
                    ELSE [reuse |-> 0, ops |-> <<>>]
         s2 == IF planDue THEN [s1 EXCEPT !.sentPlan = @ + 1, !.pending = NoPlan]
               ELSE s1
         q2 == IF planDue THEN NoQuiet ELSE quiet
         s3 == NoteFinal(s2, kind, i)
         old == IF kind \in {"final", "review"} /\ ~(kind = "final" /\ s2.review)
                THEN s3.finalMsg ELSE 0
         atBoundary == HasPayload(kind) /\ kind \in Boundary
         close == IF atBoundary THEN PrepareBoundary(q2)
                ELSE [reuse |-> 0, ops |-> <<>>]
         reuse == FirstSet(old, close.reuse)
         upd == PrepareUpdate(q2, kind, i, 2)
         skip == kind = "plan" \/ (s2.review /\ kind \in {"agent", "final"})
         send == HasPayload(kind) /\ ~skip /\ DeliversItem(kind)
     IN /\ stream' = IF kind = "plan" /\ q2.live
                     THEN [s3 EXCEPT !.planMsg = FirstSet(reuse,
                             FirstSet(IF close.ops = <<>> THEN 0 ELSE q2.msg, @))]
                     ELSE s3
        /\ quiet' = IF atBoundary THEN NoQuiet
                    ELSE IF WorkingCardEnabled THEN upd.card ELSE q2
        /\ ops' = planEnd.ops
                  \o (IF planDue /\ DeliversPlan
                      THEN <<CardOp("plan", planEnd.reuse, "plan", 0)>> ELSE <<>>)
                  \o close.ops
                  \o (IF ~atBoundary /\ WorkingCardEnabled THEN upd.ops ELSE <<>>)
                  \o (IF send THEN <<CardOp(kind, reuse, Remember(kind), i)>>
                      ELSE <<>>)
  /\ UNCHANGED <<chat, phase, request, requests, floor, failures, undelivered>>

\* Mutant of Commit: the render is recorded even when the card was retired.
CommitAlways(q, m, body) ==
  [q EXCEPT !.live = TRUE, !.msg = m, !.rendered = body, !.lines = body]

(* CommitStreamQuietRender.                                                *)
Commit(q, m, body) == IF q.live THEN [q EXCEPT !.msg = m, !.rendered = body] ELSE q

Replace(m, shows) == chat' = [chat EXCEPT ![m] = shows]
Post(shows) == Len(chat) < MaxPosts /\ chat' = Append(chat, shows)
Fails == failures < MaxFailures /\ failures' = failures + 1

(* ExecuteQuietWorkingCardOp: a new card for a render without a message,   *)
(* else a patch; the commit follows under the lock.                        *)
SendWorkingCard ==
  /\ Busy /\ Head(ops).do = "work"
  /\ LET op == Head(ops)
         commit(m) == <<[do |-> "commit", msg |-> m, body |-> op.body]>>
     IN \/ /\ op.msg = 0 /\ Post("working")
           /\ ops' = commit(Len(chat) + 1) \o Tail(ops)
           /\ UNCHANGED failures
        \/ /\ op.msg # 0 /\ Replace(op.msg, "working")
           /\ ops' = commit(op.msg) \o Tail(ops) /\ UNCHANGED failures
        \/ /\ Fails /\ ops' = Tail(ops)
           /\ chat' = chat \/ (op.msg # 0 /\ Replace(op.msg, "working"))
  /\ UNCHANGED <<stream, quiet, items, phase, request, requests, floor, undelivered>>

CommitRender ==
  /\ Busy /\ Head(ops).do = "commit"
  /\ quiet' = IF stream.live
              THEN Commit(quiet, Head(ops).msg, Head(ops).body) ELSE quiet
  /\ ops' = Tail(ops)
  /\ UNCHANGED <<chat, stream, items, phase, request, requests, floor,
                 failures, undelivered>>

(* rememberPlanMessageID, rememberFinalMessageID and                       *)
(* rememberFinalCandidateMessageID: the stream may be gone or have moved   *)
(* on.                                                                     *)
Remembered(s, op, m) ==
  IF ~s.live \/ m = 0 THEN s
  ELSE CASE op.remember = "plan" -> [s EXCEPT !.planMsg = m]
         [] op.remember = "final" -> [s EXCEPT !.finalMsg = m]
         [] op.remember = "cand" /\ s.cand = op.item -> [s EXCEPT !.candMsg = m]
         [] OTHER -> s

(* The plan sent at the flush is the message its conclusion replaces.      *)
After(op, m) ==
  LET rest == Tail(ops)
  IN IF op.shows = "plan" /\ m # 0 /\ rest # <<>> /\ Head(rest).do = "card"
        /\ Head(rest).shows = "planned"
     THEN <<[Head(rest) EXCEPT !.reuse = m]>> \o Tail(rest) ELSE rest

(* sendTurnItemCardWithReuse, sendTurnEventCardWithReuse and sendChunk: a  *)
(* patch of the message to reuse, else a new card, else plain text, whose  *)
(* message nobody remembers.                                               *)
SendCard ==
  /\ Busy /\ Head(ops).do = "card"
  /\ LET op == Head(ops)
     IN \/ /\ op.reuse # 0 /\ Replace(op.reuse, op.shows)
           /\ ops' = After(op, op.reuse)
           /\ stream' = Remembered(stream, op, op.reuse)
           /\ UNCHANGED <<failures, undelivered>>
        \/ /\ op.reuse # 0 /\ Fails
           /\ chat' = chat \/ Replace(op.reuse, op.shows)
           /\ ops' = <<[op EXCEPT !.reuse = 0]>> \o Tail(ops)
           /\ UNCHANGED <<stream, undelivered>>
        \/ /\ op.reuse = 0 /\ Post(op.shows)
           /\ ops' = After(op, Len(chat) + 1)
           /\ stream' = Remembered(stream, op, Len(chat) + 1)
           /\ UNCHANGED <<failures, undelivered>>
        \/ /\ op.reuse = 0 /\ Fails /\ ops' = Tail(ops) /\ UNCHANGED stream
           /\ \/ Post(op.shows) /\ UNCHANGED undelivered
              \/ chat' = chat /\ undelivered' = TRUE
  /\ UNCHANGED <<quiet, items, phase, request, requests, floor>>

(* FlushTurnStream, then the cards FinishTurn chooses from its result: the *)
(* terminal card of a turn that failed, or what concludes a completed one  *)
(* that has not sent its final answer.  The plan prompt is offered or not  *)
(* by the state of the session (plan.Service.Offer).                       *)
Conclusion(s, prompt, working, planMsg) ==
  CASE prompt -> CardOp("prompt", 0, "no", 0)
    [] ~prompt /\ s.sawPlan -> CardOp("planned", FirstSet(planMsg, working), "no", 0)
    [] ~prompt /\ ~s.sawPlan /\ s.cand # 0 -> CardOp("final", s.candMsg, "no", 0)
    [] OTHER -> CardOp("empty", working, "no", 0)

FinishTurn(completed) ==
  /\ phase = "running" /\ ~Busy
  /\ LET planDue == stream.pending \notin {NoPlan, stream.sentPlan}
         close == IF planDue THEN PrepareBoundary(quiet)
                ELSE [reuse |-> 0, ops |-> <<>>]
         working == IF IsReasoningOnly(quiet) /\ ~planDue THEN quiet.msg ELSE 0
     IN \E prompt \in {stream.sawPlan, FALSE} :
          ops' = close.ops
                 \o (IF planDue /\ DeliversPlan
                     THEN <<CardOp("plan", close.reuse, "no", 0)>> ELSE <<>>)
                 \o (IF ~completed THEN <<CardOp("terminal", working, "no", 0)>>
                     ELSE IF prompt \/ ~stream.sentFinal
                     THEN <<Conclusion(stream, prompt, working, stream.planMsg)>>
                     ELSE <<>>)
  /\ stream' = [stream EXCEPT !.live = FALSE] /\ quiet' = NoQuiet
  /\ phase' = IF completed THEN "completed" ELSE "failed"
  /\ UNCHANGED <<chat, items, request, requests, floor, failures, undelivered>>

\* Mutant of TakeReasoningOnly: any working card is reused for the request.
TakeAnyWorking(q) == q.msg

(* DeliverInteraction of a server request: TakeReasoningOnly before the    *)
(* send, DiscardWorkingCard after it.                                      *)
TakeReasoningOnly(q) == IF IsReasoningOnly(q) /\ q.msg # 0 THEN q.msg ELSE 0

StartRequest ==
  /\ request.at = "idle" /\ requests < MaxRequests /\ stream.live
  /\ requests' = requests + 1
  /\ LET m == TakeReasoningOnly(quiet)
     IN /\ request' = [at |-> "send", msg |-> m]
        /\ quiet' = IF m # 0 THEN NoQuiet ELSE quiet
  /\ UNCHANGED <<chat, stream, ops, items, phase, floor, failures, undelivered>>

SendRequest ==
  /\ request.at = "send"
  /\ \/ /\ request.msg # 0 /\ Replace(request.msg, "question")
        /\ request' = [request EXCEPT !.at = "sent"] /\ UNCHANGED failures
     \/ /\ request.msg # 0 /\ Fails /\ chat' = chat
        /\ request' = [request EXCEPT !.msg = 0]
     \/ /\ request.msg = 0 /\ Post("question")
        /\ request' = [at |-> "sent", msg |-> Len(chat) + 1] /\ UNCHANGED failures
     \/ /\ request.msg = 0 /\ Fails /\ chat' = chat
        /\ request' = [at |-> "idle", msg |-> 0]
  /\ UNCHANGED <<stream, quiet, ops, items, phase, requests, floor, undelivered>>

DiscardWorkingCard ==
  /\ request.at = "sent"
  /\ quiet' = IF stream.live THEN NoQuiet ELSE quiet
  /\ floor' = request.msg
  /\ request' = [at |-> "idle", msg |-> 0]
  /\ UNCHANGED <<chat, stream, ops, items, phase, requests, failures, undelivered>>

StreamNext ==
  \/ UpdatePendingPlan \/ UpdateInFlight
  \/ \E kind \in Kinds, i \in {items + 1, Tool} : CompleteTurnItem(kind, i)
  \/ \E completed \in BOOLEAN : FinishTurn(completed)
  \/ SendWorkingCard \/ CommitRender \/ SendCard
  \/ StartRequest \/ SendRequest \/ DiscardWorkingCard

StreamSpec == StreamInit /\ [][StreamNext]_streamVars
-----------------------------------------------------------------------------
(* A question, once shown, stays in its message: no progress, plan, answer *)
(* or conclusion is patched over it, whichever card a later one reuses     *)
(* ("Keep questions in place", turnstream/service.go; the reuse of a       *)
(* reasoning card by DeliverInteraction).                                  *)
QuestionKept ==
  [][\A m \in DOMAIN chat : chat[m] = "question" => chat'[m] = "question"]_streamVars

(* Once a request card is in the chat and the working card before it is    *)
(* retired, no later progress goes to a message above the request (the     *)
(* comment of DiscardWorkingCard), although a render prepared before may   *)
(* be committed after.                                                     *)
ProgressBelowRequest == quiet.live /\ quiet.msg # 0 => quiet.msg > floor

(* A turn that completed has its conclusion in the chat when its cards are *)
(* sent: the final answer, the last message promoted to it, the plan or    *)
(* its prompt, or the empty final card.                                    *)
ConclusionShown ==
  phase = "completed" /\ ~Busy /\ ~undelivered =>
    \E m \in DOMAIN chat :
      chat[m] \in {"final", "review", "planned", "empty", "prompt"}
=============================================================================

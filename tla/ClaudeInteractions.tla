-------------------------- MODULE ClaudeInteractions --------------------------
(***************************************************************************)
(* Permission requests, questions and plans of the Claude CLI on one       *)
(* session key: the table of pending interactions and the handlers that    *)
(* wait on it (runtime/claude/service.go), the card and the stored request *)
(* that DeliveryService.Open makes of one, the click that answers it       *)
(* (serverrequest, claudesupport, interactionreply) and the expiry of the  *)
(* cards of a session that goes away (LifecycleService.Expire).            *)
(***************************************************************************)
EXTENDS Integers, FiniteSets

CONSTANTS
  Reqs,        \* requests of the CLI
  Permissions, \* those that are permission requests; the others are questions
               \* or plans, whose PendingInteraction has no Session
  MaxProcs     \* bound: processes of the session

VARIABLES
  proc,     \* state of a process: "new", "up", "over" (its CLI is gone) or "gone"
  current,  \* sessions[key]
  turn,     \* the turn the requests are made in: "running" or "ended"
  paused,   \* its submission waits for approval or input
  asker,    \* process of a request
  handler,  \* pc of handlePermission, handleAskUserQuestion, HandleExitPlanMode
  ctx,      \* context of the handler: "live", "withdrawn" or "stopped"
  pending,  \* s.pending
  resp,     \* RespCh, of capacity 1
  out,      \* what the handler returned
  stored,   \* status of the stored PendingRequest
  card,     \* the card: "none", "buttons" or "closed"
  recorded, \* FeishuMsgID is stored
  click,    \* the callback of a click: pc and decision
  dying     \* requests taken from the table whose cards are still to be expired

vars == <<proc, current, turn, paused, asker, handler, ctx, pending, resp, out,
          stored, card, recorded, click, dying>>

Procs == 1 .. MaxProcs
Decisions == {"allow", "deny"}
Open == {"pending"}

TypeOK ==
  /\ proc \in [Procs -> {"new", "up", "over", "gone"}]
  /\ current \in Procs \cup {0}
  /\ turn \in {"running", "ended"} /\ paused \in BOOLEAN
  /\ asker \in [Reqs -> Procs \cup {0}]
  /\ handler \in [Reqs -> {"idle", "save", "status", "send", "record", "wait",
                           "release", "done"}]
  /\ ctx \in [Reqs -> {"live", "withdrawn", "stopped"}]
  /\ pending \subseteq Reqs
  /\ resp \in [Reqs -> Decisions \cup {"none", "error"}]
  /\ out \in [Reqs -> Decisions \cup {"none"}]
  /\ stored \in [Reqs -> Open \cup {"none", "resolved", "expired"}]
  /\ card \in [Reqs -> {"none", "buttons", "closed"}]
  /\ recorded \subseteq Reqs /\ dying \subseteq Reqs
  /\ click \in [Reqs -> [pc : {"no", "take", "send", "final", "done"},
                         decision : Decisions]]

Init ==
  /\ proc = [p \in Procs |-> IF p = 1 THEN "up" ELSE "new"] /\ current = 1
  /\ turn = "running" /\ paused = FALSE
  /\ asker = [r \in Reqs |-> 0]
  /\ handler = [r \in Reqs |-> "idle"] /\ ctx = [r \in Reqs |-> "live"]
  /\ pending = {} /\ resp = [r \in Reqs |-> "none"] /\ out = [r \in Reqs |-> "none"]
  /\ stored = [r \in Reqs |-> "none"] /\ card = [r \in Reqs |-> "none"]
  /\ recorded = {} /\ dying = {}
  /\ click = [r \in Reqs |-> [pc |-> "no", decision |-> "deny"]]

procs == <<proc, current>>
sub == <<turn, paused>>
table == <<pending, resp>>
request == <<stored, card, recorded>>
-----------------------------------------------------------------------------
(* external: the CLI and the turn.                                         *)

\* A control request arrives; its handler runs in a goroutine of its own
Ask(r) ==
  /\ asker[r] = 0 /\ current # 0 /\ proc[current] = "up"
  /\ asker' = [asker EXCEPT ![r] = current]
  /\ UNCHANGED <<procs, sub, handler, ctx, table, out, request, click, dying>>

\* control_cancel_request
Withdraw(r) ==
  /\ asker[r] # 0 /\ proc[asker[r]] = "up" /\ ctx[r] = "live" /\ handler[r] # "done"
  /\ ctx' = [ctx EXCEPT ![r] = "withdrawn"]
  /\ UNCHANGED <<procs, sub, asker, handler, table, out, request, click, dying>>

\* The turn completes; requests may outlive it
TurnEnds ==
  /\ turn = "running" /\ turn' = "ended" /\ paused' = FALSE
  /\ UNCHANGED <<procs, asker, handler, ctx, table, out, request, click, dying>>
-----------------------------------------------------------------------------
(* The handlers.                                                           *)

\* interactionTarget: the submission of the running turn, or the session's own
\* chat; storePending registers before the card is delivered
StorePending(r) ==
  /\ handler[r] = "idle" /\ asker[r] # 0
  /\ pending' = pending \cup {r}
  /\ handler' = [handler EXCEPT ![r] = "save"]
  /\ UNCHANGED <<procs, sub, asker, ctx, resp, out, request, click, dying>>

\* A session without a chat (warmup, probe) is denied without asking
DenyUndeliverable(r) ==
  /\ handler[r] = "idle" /\ asker[r] # 0 /\ turn = "ended"
  /\ handler' = [handler EXCEPT ![r] = "done"]
  /\ out' = [out EXCEPT ![r] = "deny"]
  /\ UNCHANGED <<procs, sub, asker, ctx, table, request, click, dying>>

\* DeliveryService.Open saves the request
OpenSave(r) ==
  /\ handler[r] = "save"
  /\ stored' = [stored EXCEPT ![r] = "pending"]
  /\ handler' = [handler EXCEPT ![r] = "status"]
  /\ UNCHANGED <<procs, sub, asker, ctx, table, out, card, recorded, click, dying>>

\* it pauses the submission; a detached request has none
OpenStatus(r) ==
  /\ handler[r] = "status"
  /\ paused' = (paused \/ turn = "running")
  /\ handler' = [handler EXCEPT ![r] = "send"]
  /\ UNCHANGED <<procs, turn, asker, ctx, table, out, request, click, dying>>

OpenSend(r) ==
  /\ handler[r] = "send"
  /\ card' = [card EXCEPT ![r] = "buttons"]
  /\ handler' = [handler EXCEPT ![r] = "record"]
  /\ UNCHANGED <<procs, sub, asker, ctx, table, out, stored, recorded, click, dying>>

\* The card cannot be sent: the request is denied, its stored form stays
OpenSendFails(r) ==
  /\ handler[r] = "send"
  /\ pending' = pending \ {r}
  /\ handler' = [handler EXCEPT ![r] = "done"]
  /\ out' = [out EXCEPT ![r] = "deny"]
  /\ UNCHANGED <<procs, sub, asker, ctx, resp, request, click, dying>>

OpenRecord(r) ==
  /\ handler[r] = "record"
  /\ recorded' = recorded \cup {r}
  /\ handler' = [handler EXCEPT ![r] = "wait"]
  /\ UNCHANGED <<procs, sub, asker, ctx, table, out, stored, card, click, dying>>

\* select: the answer
TakeResponse(r) ==
  /\ handler[r] = "wait" /\ resp[r] # "none"
  /\ resp' = [resp EXCEPT ![r] = "none"]
  /\ out' = [out EXCEPT ![r] = IF resp[r] = "error" THEN "deny" ELSE resp[r]]
  /\ handler' = [handler EXCEPT ![r] = "done"]
  /\ UNCHANGED <<procs, sub, asker, ctx, pending, request, click, dying>>

\* Mutant of TakeDone: the handler does not watch the end of the session
TakeDoneWithdrawn(r) ==
  /\ handler[r] = "wait" /\ ctx[r] = "withdrawn"
  /\ pending' = pending \ {r}
  /\ resp' = IF r \in pending THEN [resp EXCEPT ![r] = "error"] ELSE resp
  /\ handler' = [handler EXCEPT ![r] = "release"]
  /\ UNCHANGED <<procs, sub, asker, ctx, out, request, click, dying>>

\* select: ctx.Done; releaseUnansweredInteraction cancels what is still in the
\* table (into RespCh, which nobody reads any more)
TakeDone(r) ==
  /\ handler[r] = "wait" /\ ctx[r] # "live"
  /\ pending' = pending \ {r}
  /\ resp' = IF r \in pending THEN [resp EXCEPT ![r] = "error"] ELSE resp
  /\ handler' = [handler EXCEPT ![r] = "release"]
  /\ UNCHANGED <<procs, sub, asker, ctx, out, request, click, dying>>

\* Expire and ExpiredInteraction: an open request expires, its card is closed if
\* its message is known
Expire(r) ==
  /\ stored' = IF stored[r] \in Open THEN [stored EXCEPT ![r] = "expired"] ELSE stored
  /\ card' = IF stored[r] \in Open /\ r \in recorded
             THEN [card EXCEPT ![r] = "closed"] ELSE card

ReleaseCard(r) ==
  /\ handler[r] = "release" /\ Expire(r)
  /\ handler' = [handler EXCEPT ![r] = "done"]
  /\ out' = [out EXCEPT ![r] = "deny"]
  /\ UNCHANGED <<procs, sub, asker, ctx, table, recorded, click, dying>>
-----------------------------------------------------------------------------
(* The click.                                                              *)

\* CompleteApprovalAction, CompletePlanApprove, CompletePendingForm...: the
\* stored request is looked up, whatever its status
Press(r) ==
  /\ card[r] = "buttons" /\ click[r].pc = "no" /\ stored[r] # "none"
  /\ \E d \in Decisions : click' = [click EXCEPT ![r] = [pc |-> "take", decision |-> d]]
  /\ UNCHANGED <<procs, sub, asker, handler, ctx, table, out, request, dying>>

\* Mutant of TakePending: the entry stays in the table
TakePendingKept(r) ==
  /\ click[r].pc = "take"
  /\ click' = [click EXCEPT ![r].pc = IF r \in pending THEN "send" ELSE "no"]
  /\ UNCHANGED <<procs, sub, asker, handler, ctx, table, out, request, dying>>

\* ResolveApproval, ResolveUserInput, ResolvePlanFeedback, CancelPending:
\* takePending; a request that is not there any more is only a warning
TakePending(r) ==
  /\ click[r].pc = "take"
  /\ click' = [click EXCEPT ![r].pc = IF r \in pending THEN "send" ELSE "no"]
  /\ pending' = pending \ {r}
  /\ UNCHANGED <<procs, sub, asker, handler, ctx, resp, out, request, dying>>

\* the blocking send into RespCh
SendResponse(r) ==
  /\ click[r].pc = "send" /\ resp[r] = "none"
  /\ resp' = [resp EXCEPT ![r] = click[r].decision]
  /\ click' = [click EXCEPT ![r].pc = "final"]
  /\ UNCHANGED <<procs, sub, asker, handler, ctx, pending, out, request, dying>>

\* FinalizeReply: the request is resolved, the submission resumes unless another
\* request of the turn is open; the callback's answer closes the card
FinalizeReply(r) ==
  /\ click[r].pc = "final"
  /\ stored' = IF stored[r] \in Open THEN [stored EXCEPT ![r] = "resolved"] ELSE stored
  /\ paused' = (paused /\ (stored[r] \notin Open
                           \/ \E q \in Reqs \ {r} : stored[q] \in Open))
  /\ card' = [card EXCEPT ![r] = "closed"]
  /\ click' = [click EXCEPT ![r].pc = "done"]
  /\ UNCHANGED <<procs, turn, asker, handler, ctx, table, out, recorded, dying>>
-----------------------------------------------------------------------------
(* The end of a process.                                                   *)

\* expireSessionInteractions: every permission request of the session key is
\* taken from the table and its handler told, with a send that does not block
Taken == pending \cap Permissions
ExpireSessionInteractions ==
  /\ pending' = pending \ Taken
  /\ resp' = [r \in Reqs |-> IF r \in Taken /\ resp[r] = "none" THEN "error" ELSE resp[r]]
  /\ dying' = dying \cup Taken

\* ResetSession; Cancel and Stop end the contexts of the process's handlers
ResetSession ==
  /\ current # 0 /\ current < MaxProcs
  /\ ExpireSessionInteractions
  /\ current' = 0
  /\ proc' = [proc EXCEPT ![current] = "over"]
  /\ ctx' = [r \in Reqs |-> IF asker[r] = current /\ ctx[r] = "live"
                            THEN "stopped" ELSE ctx[r]]
  /\ UNCHANGED <<sub, asker, handler, out, request, click>>

\* The CLI dies by itself
ProcessDies(p) ==
  /\ proc[p] = "up" /\ p < MaxProcs
  /\ proc' = [proc EXCEPT ![p] = "over"]
  /\ ctx' = [r \in Reqs |-> IF asker[r] = p /\ ctx[r] = "live"
                            THEN "stopped" ELSE ctx[r]]
  /\ UNCHANGED <<current, sub, asker, handler, table, out, request, click, dying>>

\* startSession, when the one there is has stopped
StartSession ==
  /\ IF current = 0 THEN TRUE ELSE proc[current] # "up"
  /\ \E p \in Procs : /\ proc[p] = "new" /\ \A q \in Procs : q < p => proc[q] # "new"
                      /\ proc' = [proc EXCEPT ![p] = "up"] /\ current' = p
  /\ UNCHANGED <<sub, asker, handler, ctx, table, out, request, click, dying>>

\* cleanupStaleSessionOps, when the event loop of p ends: it goes by the key
CleanupStaleSessionOps(p) ==
  /\ proc[p] = "over"
  /\ proc' = [proc EXCEPT ![p] = "gone"]
  /\ ExpireSessionInteractions
  /\ UNCHANGED <<current, sub, asker, handler, ctx, out, request, click>>

\* ExpireInteractionCards, after the table was unlocked
ExpireCard(r) ==
  /\ r \in dying /\ Expire(r)
  /\ dying' = dying \ {r}
  /\ UNCHANGED <<procs, sub, asker, handler, ctx, table, out, recorded, click>>
-----------------------------------------------------------------------------
HandlerStep(r) ==
  StorePending(r) \/ DenyUndeliverable(r) \/ OpenSave(r) \/ OpenStatus(r)
    \/ OpenSend(r) \/ OpenSendFails(r) \/ OpenRecord(r) \/ TakeResponse(r)
    \/ TakeDone(r) \/ ReleaseCard(r)

ClickStep(r) == TakePending(r) \/ SendResponse(r) \/ FinalizeReply(r)

Next ==
  \/ \E r \in Reqs : \/ Ask(r) \/ Withdraw(r) \/ HandlerStep(r) \/ Press(r)
                     \/ ClickStep(r) \/ ExpireCard(r)
  \/ TurnEnds \/ ResetSession \/ StartSession
  \/ \E p \in Procs : ProcessDies(p) \/ CleanupStaleSessionOps(p)

\* Goroutines that can run do run; nobody has to click.
Fairness ==
  /\ \A r \in Reqs : WF_vars(HandlerStep(r)) /\ WF_vars(ClickStep(r))
  /\ WF_vars(\E p \in Procs : CleanupStaleSessionOps(p))
  /\ WF_vars(\E r \in Reqs : ExpireCard(r))

Spec == Init /\ [][Next]_vars
FairSpec == Spec /\ Fairness
-----------------------------------------------------------------------------
\* A click never blocks: whoever takes a request from the table is the only one
\* to send into its RespCh (takePending; "Register before delivering the card so
\* an immediate click can never race the delivery").
ClickNeverBlocks == \A r \in Reqs : click[r].pc = "send" => resp[r] = "none"

\* A card that says a decision was submitted tells the truth: while the request
\* was neither withdrawn nor stopped, the handler returns that decision and no
\* other (ResolveApproval, FinalizeReply).
SubmittedIsReturned ==
  \A r \in Reqs :
    (click[r].pc = "done" /\ ctx[r] = "live") => out[r] \in {"none", click[r].decision}

\* Every handler whose request is withdrawn or whose process is gone returns, and
\* a click that was accepted is processed (releaseUnansweredInteraction).
HandlersReleased ==
  \A r \in Reqs : (asker[r] # 0 /\ ctx[r] # "live") ~> (handler[r] = "done")

\* ExpireClaudeInteractionCards: "The request can no longer be answered, so the
\* card is replaced with a status card instead of staying clickable and failing
\* later."
DeadCardReplaced ==
  \A r \in Reqs :
    (handler[r] = "done" /\ dying = {} /\ stored[r] = "expired") => card[r] # "buttons"

\* handlePermission: "No live turn and no conversation to ask (warmup or probe
\* sessions): the only case where a permission request is denied without asking."
OnlyTheUserDenies ==
  \A r \in Reqs :
    (out[r] = "deny" /\ r \in recorded /\ ctx[r] = "live")
       => click[r].pc # "no"
=============================================================================

----------------------------- MODULE Interactions -----------------------------
(***************************************************************************)
(* Server requests of the Codex backend (approvals, questions,             *)
(* elicitations) in one Feishu session: the request records of the state   *)
(* store, the submission they pause, the card clicks that answer them and  *)
(* the transport failure that ends them all.  Four goroutines share the    *)
(* store, whose methods are atomic:                                        *)
(*   - the event dispatcher, one backend event at a time: the actions that *)
(*     begin with Open, Resolve, Resume and Finish;                        *)
(*   - the chat actor that runs card clicks: Press, ClickReply and         *)
(*     FinalizeReply;                                                      *)
(*   - FailBackendActiveWork on the frontend runner, which holds no        *)
(*     session actor: the actions that begin with Fail;                    *)
(*   - the App Server on the other side of the wire (external).            *)
(* Every handler is cut at its store and transport calls.  The session has *)
(* one thread, so that BlocksResume matches every open request.  What an   *)
(* approval asks for and the card's text are left out.                     *)
(***************************************************************************)
EXTENDS Naturals, Sequences

CONSTANTS Requests,      \* request ids of the App Server
          MaxTurns,      \* turns the session runs, one after the other
          MaxPresses,    \* button presses of the user
          MaxRepeats,    \* request events the App Server sends again
          MaxSendErrors  \* cards Feishu does not accept

Turns == 1 .. MaxTurns
NoTurn == 0
OpenStates == {"pending", "replied"}                  \* IsPendingRequestOpen
Closed == {"resolved", "expired"}
NoRequest == [status |-> "none", turn |-> NoTurn, card |-> FALSE]

VARIABLES
  pend,      \* the store's request records
  sub,       \* sub[t]: the submission that turn t runs
  active,    \* the turn of the session's active operation
  wire,      \* backend events not yet dispatched
  srv,       \* the App Server's view of its requests (external)
  srvTurn,   \* the turn the App Server runs (external)
  shown,     \* requests whose card the user can see
  alive,     \* the transport works
  disp,      \* the dispatcher: its place, request and turn
  click,     \* the chat actor
  fail,      \* FailBackendActiveWork: place, turn and what it has read
  panicked,  \* a nil submission was dereferenced
  presses, repeats, sendErrors

store == <<pend, sub, active>>
server == <<wire, srv, srvTurn, alive, repeats>>
others == <<shown, panicked, presses, sendErrors>>
requestsVars == <<store, server, others, disp, click, fail>>

Exists(t) == sub[t].status \notin {"none", "deleted"}
IsOpen(r) == pend[r].status \in OpenStates
Idle == [at |-> "idle", r |-> {}, turn |-> NoTurn, card |-> FALSE]
Unread == [active |-> NoTurn, sub |-> [status |-> "none", final |-> FALSE], pend |-> <<>>]

RequestsInit ==
  /\ pend = [r \in Requests |-> NoRequest]
  /\ sub = [t \in Turns |-> [status |-> "none", final |-> FALSE]]
  /\ active = NoTurn
  /\ wire = <<>>
  /\ srv = [r \in Requests |-> [state |-> "unused", turn |-> NoTurn]]
  /\ srvTurn = NoTurn
  /\ shown = {}
  /\ alive = TRUE
  /\ disp = Idle /\ click = Idle
  /\ fail = [at |-> "idle", turn |-> NoTurn, read |-> Unread]
  /\ panicked = FALSE
  /\ presses = 0 /\ repeats = 0 /\ sendErrors = 0

(***************************************************************************)
(* The App Server (external) and the transport.                            *)
(***************************************************************************)

\* The queue has started the next submission (see SubmissionQueue): its turn
\* runs and is the session's active operation.
StartTurn(t) ==
  /\ alive /\ active = NoTurn /\ srvTurn = NoTurn
  /\ sub[t].status = "none" /\ \A u \in 1 .. t - 1 : sub[u].status # "none"
  /\ sub' = [sub EXCEPT ![t].status = "running"]
  /\ active' = t /\ srvTurn' = t
  /\ UNCHANGED <<pend, wire, srv, alive, repeats, others, disp, click, fail>>

ServerAsks(r) ==
  /\ alive /\ srvTurn # NoTurn /\ srv[r].state = "unused"
  /\ srv' = [srv EXCEPT ![r] = [state |-> "asked", turn |-> srvTurn]]
  /\ wire' = Append(wire, [kind |-> "ask", r |-> r, turn |-> srvTurn])
  /\ UNCHANGED <<store, srvTurn, alive, repeats, others, disp, click, fail>>

\* The same request is delivered again (the thread is resumed by the server).
ServerRepeats(r) ==
  /\ alive /\ srv[r].state = "asked" /\ repeats < MaxRepeats
  /\ repeats' = repeats + 1
  /\ wire' = Append(wire, [kind |-> "ask", r |-> r, turn |-> srv[r].turn])
  /\ UNCHANGED <<store, srv, srvTurn, alive, others, disp, click, fail>>

\* serverRequest/resolved: after an answer, or because the server withdraws.
ServerResolves(r) ==
  /\ alive /\ srv[r].state \in {"asked", "answered"}
  /\ srv' = [srv EXCEPT ![r].state = "closed"]
  /\ wire' = Append(wire, [kind |-> "resolved", r |-> r, turn |-> srv[r].turn])
  /\ UNCHANGED <<store, srvTurn, alive, repeats, others, disp, click, fail>>

\* turn/completed, possibly after an interrupt that leaves requests unanswered.
ServerCompletes ==
  /\ alive /\ srvTurn # NoTurn
  /\ wire' = Append(wire, [kind |-> "completed", r |-> {}, turn |-> srvTurn])
  /\ srv' = [r \in Requests |-> IF srv[r].turn = srvTurn
                                THEN [srv[r] EXCEPT !.state = "closed"] ELSE srv[r]]
  /\ srvTurn' = NoTurn
  /\ UNCHANGED <<store, alive, repeats, others, disp, click, fail>>

\* HandleTransportFailure: events already read stay queued for the dispatcher,
\* and FailActiveWork runs on the frontend runner.
FailTransport ==
  /\ alive
  /\ alive' = FALSE /\ srvTurn' = NoTurn
  /\ fail' = [fail EXCEPT !.at = "sessions"]
  /\ UNCHANGED <<store, wire, srv, repeats, others, disp, click>>

\* A reply reaches the server: the request is answered, once.
Answered(r) == [srv EXCEPT ![r].state = IF @ = "asked" /\ alive THEN "answered" ELSE @]

\* ReplyCodexError: the request is refused, the handler returns.
ReplyCodexError(r) == srv' = Answered(r) /\ disp' = Idle

(***************************************************************************)
(* A request event: SendApprovalCardPresentation and DeliveryService.Open. *)
(***************************************************************************)
\* The dispatcher is free and the next event is of this kind.
Arrives(kind) == disp.at = "idle" /\ wire # <<>> /\ Head(wire).kind = kind

\* FindSubmissionByTurn; a request of no known submission is refused.
OpenFind ==
  /\ Arrives("ask") /\ wire' = Tail(wire)
  /\ IF Exists(Head(wire).turn)
     THEN /\ disp' = [at |-> "existing", r |-> Head(wire).r, turn |-> Head(wire).turn, card |-> FALSE]
          /\ UNCHANGED srv
     ELSE ReplyCodexError(Head(wire).r)
  /\ UNCHANGED <<store, srvTurn, alive, repeats, others, click, fail>>

\* Mutant of OpenExisting: the record is saved again whatever its status.
OpenExistingAnew ==
  /\ disp.at = "existing" /\ disp' = [disp EXCEPT !.at = "save"]
  /\ UNCHANGED <<store, server, others, click, fail>>

\* Repository.Pending: a new request is saved, a replied or closed one is left
\* alone, a pending one is delivered if its card is missing.
OpenExisting ==
  /\ disp.at = "existing"
  /\ LET e == pend[disp.r] IN
       disp' = CASE e.status = "none" -> [disp EXCEPT !.at = "save"]
                 [] e.status = "pending" -> [disp EXCEPT !.at = "wait", !.card = e.card]
                 [] OTHER -> Idle
  /\ UNCHANGED <<store, server, others, click, fail>>

\* The pending request is past its lifetime: time is not modelled, so a
\* repeated event may find it so at any moment.
OpenExistingLate ==
  /\ disp.at = "existing" /\ pend[disp.r].status = "pending"
  /\ disp' = [disp EXCEPT !.at = "expire"]
  /\ UNCHANGED <<store, server, others, click, fail>>

\* UpdatePending(expired), without a second look at the status.
OpenExpire ==
  /\ disp.at = "expire" /\ disp' = Idle
  /\ pend' = IF pend[disp.r].status = "none" THEN pend
             ELSE [pend EXCEPT ![disp.r].status = "expired"]
  /\ UNCHANGED <<sub, active, server, others, click, fail>>

OpenSave ==
  /\ disp.at = "save" /\ disp' = [disp EXCEPT !.at = "wait"]
  /\ pend' = [pend EXCEPT ![disp.r] = [NoRequest EXCEPT !.status = "pending", !.turn = disp.turn]]
  /\ UNCHANGED <<sub, active, server, others, click, fail>>

\* SetSubmissionStatus(waiting) fails when the submission has been deleted.
OpenWait ==
  /\ disp.at = "wait"
  /\ IF Exists(disp.turn)
     THEN /\ sub' = [sub EXCEPT ![disp.turn].status = "waiting"]
          /\ disp' = IF disp.card THEN Idle ELSE [disp EXCEPT !.at = "send"]
          /\ UNCHANGED srv
     ELSE ReplyCodexError(disp.r) /\ UNCHANGED sub
  /\ UNCHANGED <<pend, active, wire, srvTurn, alive, repeats, others, click, fail>>

OpenSend ==
  /\ disp.at = "send" /\ disp' = [disp EXCEPT !.at = "record"]
  /\ shown' = shown \cup {disp.r}
  /\ UNCHANGED <<store, server, panicked, presses, sendErrors, click, fail>>

OpenSendFails ==
  /\ disp.at = "send" /\ sendErrors < MaxSendErrors
  /\ sendErrors' = sendErrors + 1
  /\ ReplyCodexError(disp.r)
  /\ UNCHANGED <<store, wire, srvTurn, alive, repeats, shown, panicked, presses, click, fail>>

\* UpdatePending(message id); the record may be gone, which is an error.
OpenRecord ==
  /\ disp.at = "record"
  /\ IF pend[disp.r].status # "none"
     THEN pend' = [pend EXCEPT ![disp.r].card = TRUE] /\ disp' = Idle /\ UNCHANGED srv
     ELSE ReplyCodexError(disp.r) /\ UNCHANGED pend
  /\ UNCHANGED <<sub, active, wire, srvTurn, alive, repeats, others, click, fail>>

(***************************************************************************)
(* A resolved event: ResolveAndResume.                                     *)
(***************************************************************************)

\* Mutant of Resolve: a request that was replied counts as resolved already.
ResolvePendingOnly ==
  /\ Arrives("resolved") /\ wire' = Tail(wire)
  /\ LET r == Head(wire).r IN
       IF pend[r].status = "pending"
       THEN /\ pend' = [pend EXCEPT ![r].status = "resolved"]
            /\ disp' = [Idle EXCEPT !.at = "blocked", !.r = r, !.turn = pend[r].turn]
       ELSE pend' = [pend EXCEPT ![r].status = IF @ = "replied" THEN "resolved" ELSE @] /\ UNCHANGED disp
  /\ UNCHANGED <<sub, active, srv, srvTurn, alive, repeats, others, click, fail>>

\* Request.Resolved under the store's lock: only the first one goes on.
Resolve ==
  /\ Arrives("resolved") /\ wire' = Tail(wire)
  /\ LET r == Head(wire).r IN
       IF IsOpen(r)
       THEN /\ pend' = [pend EXCEPT ![r].status = "resolved"]
            /\ disp' = [Idle EXCEPT !.at = "blocked", !.r = r, !.turn = pend[r].turn]
       ELSE UNCHANGED <<pend, disp>>
  /\ UNCHANGED <<sub, active, srv, srvTurn, alive, repeats, others, click, fail>>

\* Mutant of BlocksResume: a request that was replied no longer counts.
BlocksResumePending(r) == pend[r].status = "pending"
\* Request.BlocksResume: every request here is of the session's thread.
BlocksResume(r) == IsOpen(r)

\* HasOpenRequest (the request itself excluded) and FindSubmissionByTurn.
ResumeCheck ==
  /\ disp.at = "blocked"
  /\ disp' = IF (\E r \in Requests \ {disp.r} : BlocksResume(r)) \/ ~Exists(disp.turn)
             THEN Idle ELSE [disp EXCEPT !.at = "resume"]
  /\ UNCHANGED <<store, server, others, click, fail>>

ResumeSubmission ==
  /\ disp.at = "resume" /\ disp' = Idle
  /\ sub' = IF Exists(disp.turn) THEN [sub EXCEPT ![disp.turn].status = "running"] ELSE sub
  /\ UNCHANGED <<pend, active, server, others, click, fail>>

(***************************************************************************)
(* turn/completed: FinishTurn.                                             *)
(***************************************************************************)
FinishFind ==
  /\ Arrives("completed") /\ wire' = Tail(wire)
  /\ LET t == Head(wire).turn IN
       disp' = IF Exists(t) /\ ~sub[t].final
               THEN [Idle EXCEPT !.at = "finalize", !.turn = t] ELSE Idle
  /\ UNCHANGED <<store, srv, srvTurn, alive, repeats, others, click, fail>>

\* Mutant of FinishFinalize: the status is set, the submission is not final.
FinishWithoutFinal ==
  /\ disp.at = "finalize" /\ disp' = [disp EXCEPT !.at = "session"]
  /\ sub' = IF Exists(disp.turn)
            THEN [sub EXCEPT ![disp.turn].status = "completed"] ELSE sub
  /\ UNCHANGED <<pend, active, server, others, click, fail>>

\* FlushTurnStream (Feishu calls) and FinalizeSubmission, whose error is ignored.
FinishFinalize ==
  /\ disp.at = "finalize" /\ disp' = [disp EXCEPT !.at = "session"]
  /\ sub' = IF Exists(disp.turn)
            THEN [sub EXCEPT ![disp.turn] = [status |-> "completed", final |-> TRUE]] ELSE sub
  /\ UNCHANGED <<pend, active, server, others, click, fail>>

\* The submission is read again and its operation taken out of the session;
\* UpdateSession's callback uses sub.ID also when the submission was not found.
FinishSession ==
  /\ disp.at = "session"
  /\ IF Exists(disp.turn)
     THEN /\ active' = IF active = disp.turn THEN NoTurn ELSE active
          /\ disp' = [disp EXCEPT !.at = "clean"] /\ UNCHANGED panicked
     ELSE panicked' = TRUE /\ disp' = [disp EXCEPT !.at = "panic"] /\ UNCHANGED active
  /\ UNCHANGED <<pend, sub, server, shown, presses, sendErrors, click, fail>>

\* Mutant of WithoutRequests: only requests that are closed are deleted.
WithoutClosedRequests(t) ==
  [r \in Requests |-> IF pend[r].turn = t /\ ~IsOpen(r) THEN NoRequest ELSE pend[r]]
\* DeletePendingRequests: no Codex server request outlives its turn.
WithoutRequests(t) ==
  [r \in Requests |-> IF pend[r].turn = t THEN NoRequest ELSE pend[r]]

\* CleanupSubmissionRuntimeState deletes the requests, then the submission.
FinishCleanRequests ==
  /\ disp.at = "clean" /\ disp' = [disp EXCEPT !.at = "delete"]
  /\ pend' = WithoutRequests(disp.turn)
  /\ UNCHANGED <<sub, active, server, others, click, fail>>

FinishDelete ==
  /\ disp.at = "delete" /\ disp' = Idle
  /\ sub' = [sub EXCEPT ![disp.turn].status = "deleted"]
  /\ UNCHANGED <<pend, active, server, others, click, fail>>

(***************************************************************************)
(* A button press: CompleteApprovalAction and its siblings.                *)
(***************************************************************************)

\* The handler looks at the record and its owner, not at its status.
Press(r) ==
  /\ click.at = "idle" /\ r \in shown /\ presses < MaxPresses
  /\ presses' = presses + 1
  /\ click' = IF pend[r].status = "none" THEN Idle ELSE [Idle EXCEPT !.at = "reply", !.r = r]
  /\ UNCHANGED <<store, server, shown, panicked, sendErrors, disp, fail>>

\* The reply is written to the current client, or the user is told to retry.
ClickReply ==
  /\ click.at = "reply"
  /\ click' = IF alive THEN [click EXCEPT !.at = "accepted"] ELSE Idle
  /\ srv' = Answered(click.r)
  /\ UNCHANGED <<store, wire, srvTurn, alive, repeats, others, disp, fail>>

\* Mutant of ReplyAccepted: the reply itself closes the request.
ReplyAcceptedResolves(r) ==
  IF IsOpen(r) THEN [pend EXCEPT ![r].status = "resolved"] ELSE pend
\* Request.ReplyAccepted for the kinds the server resolves.
ReplyAccepted(r) ==
  IF IsOpen(r) THEN [pend EXCEPT ![r].status = "replied"] ELSE pend

FinalizeReply ==
  /\ click.at = "accepted" /\ click' = Idle
  /\ pend' = ReplyAccepted(click.r)
  /\ UNCHANGED <<sub, active, server, others, disp, fail>>

(***************************************************************************)
(* FailBackendActiveWork.                                                  *)
(***************************************************************************)

\* AllSessions: the active operation, if there is one.
FailSessions ==
  /\ fail.at = "sessions"
  /\ fail' = IF active = NoTurn THEN [fail EXCEPT !.at = "done"]
             ELSE [fail EXCEPT !.at = "read", !.turn = active]
  /\ UNCHANGED <<store, server, others, disp, click>>

\* FailSubmissionWithoutTerminalCompletion reads what it is about to replace.
FailRead ==
  /\ fail.at = "read"
  /\ fail' = IF Exists(fail.turn) /\ ~sub[fail.turn].final
             THEN [fail EXCEPT !.at = "commit",
                               !.read = [active |-> active, sub |-> sub[fail.turn], pend |-> pend]]
             ELSE [fail EXCEPT !.at = "done"]
  /\ UNCHANGED <<store, server, others, disp, click>>

\* Mutant of ReadSetUnchanged: only the owners are compared, not the requests.
OwnersUnchanged == active = fail.read.active /\ sub[fail.turn] = fail.read.sub
\* CommitTerminal: the session, the submission and the session's requests
\* (none added) are what the caller has read.
ReadSetUnchanged ==
  active = fail.read.active /\ sub[fail.turn] = fail.read.sub /\ pend = fail.read.pend

\* CommitTerminal replaces session, submission and requests at once; after a
\* conflict the caller logs and returns.
FailCommit ==
  /\ fail.at = "commit"
  /\ IF ReadSetUnchanged
     THEN /\ sub' = [sub EXCEPT ![fail.turn] = [status |-> "failed", final |-> TRUE]]
          /\ active' = IF active = fail.turn THEN NoTurn ELSE active
          /\ pend' = [r \in Requests |->
                        IF fail.read.pend[r].turn = fail.turn /\ fail.read.pend[r].status \in OpenStates
                        THEN [fail.read.pend[r] EXCEPT !.status = "resolved"]
                        ELSE pend[r]]
          /\ fail' = [fail EXCEPT !.at = "clean", !.read = Unread]
     ELSE fail' = [fail EXCEPT !.at = "conflict", !.read = Unread] /\ UNCHANGED store
  /\ UNCHANGED <<server, others, disp, click>>

\* The terminal card is sent, then CleanupSubmissionRuntimeState.
FailCleanRequests ==
  /\ fail.at = "clean" /\ fail' = [fail EXCEPT !.at = "delete"]
  /\ pend' = WithoutRequests(fail.turn)
  /\ UNCHANGED <<sub, active, server, others, disp, click>>

FailDelete ==
  /\ fail.at = "delete" /\ fail' = [fail EXCEPT !.at = "done"]
  /\ sub' = [sub EXCEPT ![fail.turn].status = "deleted"]
  /\ UNCHANGED <<pend, active, server, others, disp, click>>

-----------------------------------------------------------------------------
Dispatcher ==
  \/ OpenFind \/ OpenExisting \/ OpenExistingLate \/ OpenExpire \/ OpenSave \/ OpenWait
  \/ OpenSend \/ OpenSendFails \/ OpenRecord
  \/ Resolve \/ ResumeCheck \/ ResumeSubmission
  \/ FinishFind \/ FinishFinalize \/ FinishSession \/ FinishCleanRequests \/ FinishDelete

Clicker == ClickReply \/ FinalizeReply

Failer == FailSessions \/ FailRead \/ FailCommit \/ FailCleanRequests \/ FailDelete

\* Nothing recovers a panic: it ends the process.
RequestsNext ==
  /\ ~panicked
  /\ \/ \E t \in Turns : StartTurn(t)
     \/ \E r \in Requests : \/ ServerAsks(r) \/ ServerRepeats(r) \/ ServerResolves(r)
                            \/ Press(r)
     \/ ServerCompletes \/ FailTransport
     \/ Dispatcher \/ Clicker \/ Failer

RequestsSpec == RequestsInit /\ [][RequestsNext]_requestsVars

\* Goroutines that can take a step take one; an App Server that has got an
\* answer tells that the request is resolved.  Nothing is assumed of the user,
\* of turns that complete or of the transport.
FairSpec ==
  /\ RequestsSpec
  /\ WF_requestsVars(~panicked /\ Dispatcher)
  /\ WF_requestsVars(~panicked /\ Clicker)
  /\ WF_requestsVars(~panicked /\ Failer)
  /\ \A r \in Requests :
       WF_requestsVars(~panicked /\ srv[r].state = "answered" /\ ServerResolves(r))

-----------------------------------------------------------------------------
RequestStates == {"none"} \cup OpenStates \cup Closed
Request == [status : RequestStates, turn : {NoTurn} \cup Turns, card : BOOLEAN]
Submission == [status : {"none", "running", "waiting", "completed", "failed", "deleted"},
               final : BOOLEAN]

\* The types of the store, and which submissions are final.
RequestsTypeOK ==
  /\ pend \in [Requests -> Request]
  /\ sub \in [Turns -> Submission]
  /\ active \in {NoTurn} \cup Turns
  /\ \A t \in Turns : sub[t].status \in {"completed", "failed", "deleted"} => sub[t].final
  /\ \A r \in Requests : pend[r].status # "none" => pend[r].turn \in Turns

\* docs/codex-app-server-state-machine-audit.md:42: a request that was replied,
\* resolved or expired is not opened again, by a repeated event, a late card
\* delivery, a click or the failure path.
NeverReopened ==
  [][\A r \in Requests :
       /\ pend[r].status = "replied" => pend'[r].status # "pending"
       /\ pend[r].status \in Closed => pend'[r].status \notin OpenStates]_requestsVars

\* While a request of a turn is open, pending or replied, its submission is
\* not shown as running, except in the middle of opening that request.
PausedWhileOpen ==
  \A r \in Requests :
    IsOpen(r) /\ sub[pend[r].turn].status = "running" /\ ~sub[pend[r].turn].final
      => disp.at = "wait" /\ disp.r = r

\* docs/codex-app-server-state-machine-audit.md:43: a reply only advances a
\* request to replied; it is resolved when the server has closed it, or when
\* the transport is lost.
ServerHasTheLastWord ==
  \A r \in Requests : pend[r].status = "resolved" => srv[r].state = "closed" \/ ~alive

\* docs/codex-app-server-state-machine-audit.md:46: a transport failure ends
\* the submission, the session's operation and the turn's requests in one step.
FailureIsAtomic ==
  [][\A t \in Turns :
       sub[t].status # "failed" /\ sub'[t].status = "failed"
         => /\ active' # t
            /\ \A r \in Requests : pend'[r].turn = t => pend'[r].status \notin OpenStates]_requestsVars

\* No open request is left of a submission that is gone, as long as the
\* transport works: an open request blocks upgrades and plan confirmations.
NoOrphanedRequest ==
  \A r \in Requests : IsOpen(r) /\ alive => Exists(pend[r].turn)

\* A submission that waits although all its requests have been resolved does
\* not wait for ever: the last resolution resumes it.
AnswersResume ==
  \A t \in Turns :
    (/\ sub[t].status = "waiting"
     /\ \A r \in Requests : ~IsOpen(r) /\ pend[r].status # "expired")
      ~> (sub[t].status # "waiting" \/ \E r \in Requests : IsOpen(r))

\* FinishTurn reads the submission again after it has called Feishu, and later
\* code of the handler allows for its absence; it must survive a submission
\* that the failure path has deleted meanwhile.
NoPanic == ~panicked
=============================================================================

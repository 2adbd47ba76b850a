--------------------------- MODULE WorkspaceCreation ---------------------------
(***************************************************************************)
(* Creating a workspace from a repository or as a git worktree: a form     *)
(* card is submitted, a background worker runs git, registers the          *)
(* workspace, switches to it and patches the card                          *)
(* (application/workspace/workflow.go, creation.go, planning.go,           *)
(* application/interaction/forms.go, runtime/workspace/clone.go,           *)
(* adapter/feishu/workspacecmd/management_service.go,                      *)
(* feishuapp/binding_workspace_actions.go, adapter/feishu/workspace/cards.go) *)
(*                                                                         *)
(* A button can be clicked as long as the user's screen shows it: the card *)
(* a click returns, and the cards the worker patches, arrive in any order. *)
(* The clicks of one chat are handled one at a time; its workers, and the  *)
(* other chats, run beside them.                                           *)
(***************************************************************************)
EXTENDS Naturals, Sequences, FiniteSets

CONSTANTS
  Kind,         \* "clone" or "worktree"
  InGroup,      \* the form belongs to a group: its binding is changed
  Targets,      \* what can be asked for: workspace id and directory in one
  MaxClicks,    \* bound: clicks
  MaxWorkers,   \* bound: workers started
  MaxFaults,  \* bound: failures of git or of the switch, and directories others make
  MaxRestarts   \* bound: restarts of the process

VARIABLES
  form,      \* the clone or worktree request: status, target, expiry
  takeover,  \* the "workspace_new" request opened for an existing directory
  handler,   \* the click being handled
  workers,   \* the background workers, by order of start
  tracker,   \* CloneTracker: the worker registered for the request
  dirs,      \* directories that exist
  configured, \* workspaces of the configuration
  card,      \* the card the user sees
  answers,   \* cards that clicks returned, not shown yet
  spent      \* bounds

creationVars == <<form, takeover, handler, workers, tracker, dirs, configured, card,
                  answers, spent>>

----------------------------------------------------------------------------
\* The cards, as the actions their buttons send

NewCard == {"new.pickdir", "new.submit", "form.cancel"}
CloneCard == {"pickdir", "refresh", "submit", "form.cancel"}
ClonePreparingCard(cancelling) == IF cancelling THEN {} ELSE {"cancel"}
CloneSuccessCard == {"menu"}
SwitchExistingCard == {"use.existing", "menu"}
CloneManualHintCard == {"menu"}
CloneCanceledCard == {"menu"}
WorktreeCard == {"submit", "form.cancel"}
WorktreePreparingCard(cancelling) == IF cancelling THEN {} ELSE {"cancel"}
WorktreeSuccessCard == {"menu"}
WorktreeManualHintCard == {"menu"}
WorktreeCanceledCard == {"menu"}
MenuCard == {"new", "clone", "worktree", "unbind", "delete.menu", "use.select"}

Card(name, buttons) == [name |-> name, buttons |-> buttons]
ByKind(clone, worktree) == IF Kind = "clone" THEN clone ELSE worktree

FormCard == Card("form", ByKind(CloneCard, WorktreeCard))
Preparing(cancelling) ==
  Card("preparing", ByKind(ClonePreparingCard(cancelling), WorktreePreparingCard(cancelling)))
Existing == IF InGroup THEN Card("menu", MenuCard) ELSE Card("existing", SwitchExistingCard)
TakeoverForm == Card("new", NewCard)

ResultCard(outcome) ==
  CASE outcome = "cancelled" -> Card("cancelled", ByKind(CloneCanceledCard, WorktreeCanceledCard))
    [] outcome = "takeover"  -> Card("hint", ByKind(CloneManualHintCard, WorktreeManualHintCard))
    [] outcome = "failed"    -> FormCard
    [] outcome = "completed" -> Card("success", ByKind(CloneSuccessCard, WorktreeSuccessCard))

----------------------------------------------------------------------------
NoTarget == 0
Closed(f) == f.status \in {"resolved", "expired"}
NewForm == [status |-> "pending", target |-> NoTarget, lapsed |-> FALSE]
NotOpened == [NewForm EXCEPT !.status = "none"]
IdleHandler == [pc |-> "idle", target |-> NoTarget]
Worker(t) == [target |-> t, pc |-> IF Kind = "clone" /\ ~ InGroup THEN "plan" ELSE "git",
              cancelled |-> FALSE, created |-> FALSE, outcome |-> "none"]

CreationInit ==
  /\ form = NewForm /\ takeover = NotOpened /\ handler = IdleHandler
  /\ workers = <<>> /\ tracker = 0
  /\ dirs = {} /\ configured = {}
  /\ card = FormCard /\ answers = {}
  /\ spent = [clicks |-> 0, failures |-> 0, restarts |-> 0]

Spend(f) == spent' = [spent EXCEPT ![f] = @ + 1]
Faulty == spent.failures < MaxFaults /\ Spend("failures")

\* FormService.SaveDraft: refused when the form lapsed or is closed
DraftRefused(f, status) ==
  \/ f.lapsed \/ Closed(f)
  \/ status = "cancelling" /\ f.status # "processing"
SaveDraft(f, status) == [f EXCEPT !.status = status]

\* FormService.Authorize
Authorized(f) == f.status = "pending" /\ ~ f.lapsed

Answer(c) == answers' = answers \cup {c}
Click(action) ==
  /\ handler = IdleHandler /\ action \in card.buttons
  /\ spent.clicks < MaxClicks /\ Spend("clicks")

\* the click's answer replaces the card
ShowAnswer ==
  /\ \E c \in answers : card' = c /\ answers' = answers \ {c}
  /\ UNCHANGED <<form, takeover, handler, workers, tracker, dirs, configured, spent>>

----------------------------------------------------------------------------
\* PlanningService: a target can be planned when nothing is there

PlanClone(t) ==
  CASE t \in dirs /\ t \in configured -> "existing"
    [] t \in dirs /\ t \notin configured -> "directory"
    [] t \notin dirs /\ t \in configured -> "error"
    [] OTHER -> "plan"

PlanWorktree(t) ==
  CASE t \in configured -> "existing"
    [] t \notin configured /\ t \in dirs -> "directory"
    [] OTHER -> "plan"

Plan(t) == ByKind(PlanClone(t), PlanWorktree(t))

----------------------------------------------------------------------------
\* CompleteWorkspaceCloneSubmit, CompleteWorkspaceWorktreeSubmit and the
\* group's variants

\* a request under way is shown again; the group's clone form has no such test
\* and is refused by Authorize
Submit(t) ==
  /\ Click("submit")
  /\ IF form.status \in {"processing", "cancelling"} /\ ~ (Kind = "clone" /\ InGroup)
     THEN /\ Answer(Preparing(form.status = "cancelling" \/
                              (tracker # 0 /\ workers[tracker].cancelled)))
          /\ UNCHANGED handler
     ELSE /\ handler' = IF Authorized(form) THEN [pc |-> "prepare", target |-> t] ELSE handler
          /\ UNCHANGED answers
  /\ UNCHANGED <<form, takeover, workers, tracker, dirs, configured, card>>

\* submitted without an address: the draft is saved; the group's form writes
\* the status too
SubmitIncomplete ==
  /\ Kind = "clone" /\ Click("submit")
  /\ LET status == IF InGroup THEN "pending" ELSE form.status IN
     IF DraftRefused(form, status) THEN UNCHANGED <<form, answers>>
     ELSE form' = SaveDraft(form, status) /\ Answer(FormCard)
  /\ UNCHANGED <<takeover, handler, workers, tracker, dirs, configured, card>>

\* Workflow.prepareFailure
PrepareExisting ==
  /\ IF form.lapsed THEN UNCHANGED <<form, answers, spent>>
     ELSE \/ form' = SaveDraft(form, "resolved") /\ Answer(Existing) /\ UNCHANGED spent
          \/ InGroup /\ Faulty /\ UNCHANGED <<form, answers>>   \* the switch failed
  /\ UNCHANGED takeover

PrepareTakeover ==
  /\ takeover' = [NewForm EXCEPT !.target = handler.target]
  /\ IF DraftRefused(form, "resolved") THEN UNCHANGED <<form, answers>>
     ELSE form' = SaveDraft(form, "resolved") /\ Answer(TakeoverForm)
  /\ UNCHANGED spent

PrepareError ==
  /\ IF DraftRefused(form, "pending") THEN UNCHANGED <<form, answers>>
     ELSE form' = SaveDraft(form, "pending") /\ Answer(FormCard)
  /\ UNCHANGED <<takeover, spent>>

Prepare ==
  /\ handler.pc = "prepare"
  /\ LET plan == Plan(handler.target) IN
     \/ plan = "plan" /\ handler' = [handler EXCEPT !.pc = "start"]
                      /\ UNCHANGED <<form, takeover, answers, spent>>
     \/ plan # "plan" /\ handler' = IdleHandler
        /\ \/ plan = "existing" /\ PrepareExisting
           \/ plan = "directory" /\ PrepareTakeover
           \/ plan = "error" /\ PrepareError
  /\ UNCHANGED <<workers, tracker, dirs, configured, card>>

\* Workflow.Start claims the request; the worker is registered, which cancels
\* the one registered before, and starts
CancelWorker(ws, i) == IF i = 0 THEN ws ELSE [ws EXCEPT ![i].cancelled = TRUE]

Start ==
  /\ handler.pc = "start" /\ handler' = IdleHandler /\ Len(workers) < MaxWorkers
  /\ IF Authorized(form)
     THEN /\ form' = [form EXCEPT !.status = "processing", !.target = handler.target]
          /\ workers' = Append(CancelWorker(workers, tracker), Worker(handler.target))
          /\ tracker' = Len(workers) + 1
          /\ Answer(Preparing(FALSE))
     ELSE UNCHANGED <<form, workers, tracker, answers>>
  /\ UNCHANGED <<takeover, dirs, configured, card, spent>>

\* CompleteWorkspaceCloneRefresh writes "pending", whatever the phase
Refresh ==
  /\ Click("refresh")
  /\ IF DraftRefused(form, "pending") THEN UNCHANGED <<form, answers>>
     ELSE form' = SaveDraft(form, "pending") /\ Answer(FormCard)
  /\ UNCHANGED <<takeover, handler, workers, tracker, dirs, configured, card>>

\* CompleteWorkspaceClonePickDir keeps the phase
PickDir ==
  /\ Click("pickdir")
  /\ IF DraftRefused(form, form.status) THEN UNCHANGED answers ELSE Answer(FormCard)
  /\ UNCHANGED <<form, takeover, handler, workers, tracker, dirs, configured, card>>

\* CompleteWorkspaceCloneCancel saves before it cancels,
CloneCancel ==
  /\ Kind = "clone" /\ Click("cancel")
  /\ IF tracker = 0 THEN Answer(FormCard) /\ UNCHANGED <<form, workers>>
     ELSE IF DraftRefused(form, "cancelling") THEN UNCHANGED <<form, workers, answers>>
     ELSE /\ form' = SaveDraft(form, "cancelling")
          /\ workers' = CancelWorker(workers, tracker)
          /\ Answer(Preparing(TRUE))
  /\ UNCHANGED <<takeover, handler, tracker, dirs, configured, card>>

\* CompleteWorkspaceWorktreeCancel after
WorktreeCancel ==
  /\ Kind = "worktree" /\ Click("cancel")
  /\ IF tracker = 0 THEN Answer(FormCard) /\ UNCHANGED <<form, workers>>
     ELSE /\ workers' = CancelWorker(workers, tracker)
          /\ IF DraftRefused(form, "cancelling") THEN UNCHANGED <<form, answers>>
             ELSE form' = SaveDraft(form, "cancelling") /\ Answer(Preparing(TRUE))
  /\ UNCHANGED <<takeover, handler, tracker, dirs, configured, card>>

\* pending_form.cancel ends the request the card shows, whatever its phase
FormCancel ==
  /\ Click("form.cancel")
  /\ IF card.name = "new"
     THEN takeover' = SaveDraft(takeover, "resolved") /\ UNCHANGED form
     ELSE form' = SaveDraft(form, "resolved") /\ UNCHANGED takeover
  /\ Answer(Card("menu", MenuCard))
  /\ UNCHANGED <<handler, workers, tracker, dirs, configured, card>>

\* SubmitNew: claims the takeover form, creates the workspace and switches
NewSubmit ==
  /\ handler = IdleHandler /\ "new.submit" \in card.buttons /\ spent.clicks < MaxClicks
  /\ IF ~ Authorized(takeover)
     THEN Spend("clicks") /\ Answer(TakeoverForm) /\ UNCHANGED <<takeover, configured>>
     ELSE \/ /\ configured' = configured \cup {takeover.target} /\ Spend("clicks")
             /\ takeover' = SaveDraft(takeover, "resolved")
             /\ Answer(Card("menu", MenuCard))
          \/ /\ spent.failures < MaxFaults
             /\ spent' = [spent EXCEPT !.clicks = @ + 1, !.failures = @ + 1]
             /\ configured' \in {configured, configured \cup {takeover.target}}
             /\ Answer(TakeoverForm) /\ UNCHANGED takeover
  /\ UNCHANGED <<form, handler, workers, tracker, dirs, card>>

----------------------------------------------------------------------------
\* The worker

At(i, pc) == i \in DOMAIN workers /\ workers[i].pc = pc
Set(i, w) == workers' = [workers EXCEPT ![i] = w]
End(i, outcome) == Set(i, [workers[i] EXCEPT !.pc = "finish", !.outcome = outcome])
NotTheWorker == UNCHANGED <<form, takeover, handler, tracker, card, answers>>

\* FinishWorkspaceCloneSubmit plans again, and leaves the request as it is
\* when that fails
Replan(i) ==
  /\ At(i, "plan")
  /\ IF Plan(workers[i].target) = "plan"
     THEN Set(i, [workers[i] EXCEPT !.pc = "git"]) /\ UNCHANGED tracker
     ELSE Set(i, [workers[i] EXCEPT !.pc = "done"]) /\ tracker' = 0
  /\ UNCHANGED <<form, takeover, handler, dirs, configured, card, answers, spent>>

\* a line of git's output patches the card
Progress(i) ==
  /\ At(i, "git") /\ Kind = "clone"
  /\ card' = Preparing(workers[i].cancelled)
  /\ UNCHANGED <<form, takeover, handler, workers, tracker, dirs, configured, answers, spent>>

\* CreationService.Clone, Worktree: git, then the context is looked at; a
\* command that was killed may leave its directory
Git(i) ==
  LET w == workers[i] IN
  /\ At(i, "git") /\ NotTheWorker /\ UNCHANGED configured
  /\ \/ ~ w.cancelled /\ w.target \notin dirs /\ UNCHANGED spent
        /\ dirs' = dirs \cup {w.target}
        /\ Set(i, [w EXCEPT !.pc = "create"])
     \/ ~ w.cancelled /\ End(i, "failed") /\ UNCHANGED dirs
        /\ IF w.target \in dirs THEN UNCHANGED spent ELSE Faulty
     \/ w.cancelled /\ End(i, "cancelled") /\ dirs' \in {dirs, dirs \cup {w.target}}
        /\ UNCHANGED spent

\* complete: CreateLocal
CreateLocal(i) ==
  LET w == workers[i] IN
  /\ At(i, "create") /\ NotTheWorker /\ UNCHANGED <<dirs, spent>>
  /\ IF w.target \in configured
     THEN End(i, "takeover") /\ UNCHANGED configured
     ELSE /\ configured' = configured \cup {w.target}
          /\ Set(i, [w EXCEPT !.pc = "switch", !.created = TRUE])

SwitchUnlessCancelled(i) ==
  /\ At(i, "switch") /\ NotTheWorker /\ UNCHANGED <<dirs, configured>>
  /\ \/ End(i, IF workers[i].cancelled THEN "cancelled" ELSE "completed") /\ UNCHANGED spent
     \/ Faulty /\ End(i, "takeover")

\* complete: Lifecycle.Switch, refused when the chat has work
SwitchTo(i) ==
  /\ At(i, "switch") /\ NotTheWorker /\ UNCHANGED <<dirs, configured>>
  /\ \/ End(i, "completed") /\ UNCHANGED spent
     \/ Faulty /\ End(i, "takeover")

\* Workflow.finish: only a request under way is ended
FinishedForm(outcome) ==
  IF outcome = "failed" THEN [form EXCEPT !.status = "pending", !.lapsed = FALSE]
  ELSE [form EXCEPT !.status = "resolved"]

Finish(i) ==
  /\ At(i, "finish") /\ UNCHANGED <<takeover, handler, dirs, configured, card, answers, spent>>
  /\ IF form.status \in {"processing", "cancelling"}
     THEN /\ form' = FinishedForm(workers[i].outcome)
          /\ Set(i, [workers[i] EXCEPT !.pc = "patch"]) /\ UNCHANGED tracker
     ELSE /\ Set(i, [workers[i] EXCEPT !.pc = "done"]) /\ tracker' = 0
          /\ UNCHANGED form

\* the result's card; then the deferred Clear, of whichever worker is registered
Patch(i) ==
  /\ At(i, "patch") /\ card' = ResultCard(workers[i].outcome)
  /\ Set(i, [workers[i] EXCEPT !.pc = "done"]) /\ tracker' = 0
  /\ UNCHANGED <<form, takeover, handler, dirs, configured, answers, spent>>

----------------------------------------------------------------------------
\* The surroundings

\* another chat, or the user, makes the directory, or registers it too
OthersMake(t) ==
  /\ t \notin dirs /\ Faulty
  /\ dirs' = dirs \cup {t} /\ configured' \in {configured, configured \cup {t}}
  /\ UNCHANGED <<form, takeover, handler, workers, tracker, card, answers>>

\* ExpiresAt passes
Lapse ==
  /\ ~ form.lapsed /\ form.status \in {"pending", "processing", "cancelling"} /\ Faulty
  /\ form' = [form EXCEPT !.lapsed = TRUE]
  /\ UNCHANGED <<takeover, handler, workers, tracker, dirs, configured, card, answers>>

Restart ==
  /\ spent.restarts < MaxRestarts /\ Spend("restarts")
  /\ handler' = IdleHandler /\ tracker' = 0 /\ answers' = {}
  /\ workers' = [i \in DOMAIN workers |-> [workers[i] EXCEPT !.pc = "done"]]
  /\ UNCHANGED <<form, takeover, dirs, configured, card>>

Work(i) == Replan(i) \/ Git(i) \/ CreateLocal(i) \/ SwitchTo(i) \/ Finish(i) \/ Patch(i)

CreationNext ==
  \/ \E t \in Targets : Submit(t) \/ OthersMake(t)
  \/ SubmitIncomplete \/ Prepare \/ Start \/ Refresh \/ PickDir \/ CloneCancel
  \/ WorktreeCancel \/ FormCancel \/ NewSubmit \/ ShowAnswer \/ Lapse \/ Restart
  \/ \E i \in 1..MaxWorkers : Work(i) \/ Progress(i)

CreationSpec == CreationInit /\ [][CreationNext]_creationVars

----------------------------------------------------------------------------
\* What the worker patches into the card is true, whatever was clicked while
\* it ran: "created" only when it registered the workspace, "cancelled" only
\* when it registered none, and the hint to take a directory over only when
\* the directory is there (workflow.go FinishClone, creation.go complete).
ResultIsTrue ==
  [][\A i \in DOMAIN workers :
       At(i, "patch") /\ workers'[i].pc = "done" /\ card' # card =>
         /\ card'.name = "success" => workers[i].created
         /\ card'.name = "cancelled" => ~ workers[i].created
         /\ card'.name = "hint" => workers[i].target \in dirs]_creationVars

\* A request under way has a worker that will end it: the card the user sees
\* "refreshes by itself" (cards.go:261).
ProcessingHasWorker ==
  form.status \in {"processing", "cancelling"} =>
    \E i \in DOMAIN workers : workers[i].pc # "done"
=============================================================================

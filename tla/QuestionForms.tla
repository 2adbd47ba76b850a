---------------------------- MODULE QuestionForms ----------------------------
(***************************************************************************)
(* Questions of a backend (pendingforms/rendering.go, serverrequest,       *)
(* claudesupport, interactionreply) and the asynchronous questions of an   *)
(* agent that goes on working (feishuapp/async_user_input.go,              *)
(* application/asyncinput).                                                *)
(*                                                                         *)
(* A single question with few options is a card of buttons, the others are *)
(* a form: text fields, choices with a field for another value, and        *)
(* multiple choices whose marks travel in the buttons.  Codex and Claude   *)
(* wait for the reply.  An asynchronous answer is claimed by a click,      *)
(* acknowledged, and then sent by the session's actor as a steer or as an  *)
(* ordinary input; the card is patched with the outcome.                   *)
(***************************************************************************)
EXTENDS Naturals, Sequences, FiniteSets, FormText, SequencesExt

CONSTANTS
  Requests,     \* [kind, questions]: "codex", "claude" or "async" and its questions
  Texts,        \* the texts users enter
  MaxActions,   \* bound: inputs, presses and written answers
  MaxFailures   \* bound: failed replies, deliveries and effects

VARIABLES
  request,    \* the request, as sent
  status,     \* PendingRequest.Status; "none" before Open, "gone" when removed
  card,       \* the card shown: its mode, its drafts and its buttons
  typed,      \* what its fields hold: value and other, by question
  clicks,     \* asynchronous answers and cancels validated but not claimed
  task,       \* the dispatched answer of an asynchronous question
  session,    \* the session: "turn", "idle" or "switched" to another thread
  replies,    \* answers sent from the card: content, and what it showed
  ends,       \* ends of an asynchronous question: "answered", "cancelled"
  actions, failures

vars == <<request, status, card, typed, clicks, task, session, replies, ends,
          actions, failures>>

Kind == request.kind
Questions == request.questions
Asked == {Questions[i] : i \in DOMAIN Questions}
Single == Len(Questions) = 1
Multis == {q \in Asked : q.multi}
Others == {q \in Asked : q.other}

\* a choice of at most three, without marks and without another value
Quick == /\ Kind # "async" /\ Single
         /\ LET q == Questions[1]
            IN  q.options # <<>> /\ Len(q.options) <= 3 /\ ~q.multi /\ ~q.other

NoDrafts == [value |-> <<>>, other |-> <<>>, multi |-> <<>>]
Draft(values, q) == IF q.id \in DOMAIN values THEN values[q.id] ELSE Empty
-----------------------------------------------------------------------------
(* Answers.                                                                *)
Refused == [ok |-> FALSE, value |-> <<>>]
Answer(value) == [ok |-> TRUE, value |-> value]
Matches(q, text) == {i \in DOMAIN q.options : Same(q.options[i], text)}

\* the last of the options that are equal without case
Matched(q, text) == q.options[CHOOSE i \in Matches(q, text) : \A j \in Matches(q, text) : j <= i]

\* ParseQuestionAnswers
ParseQuestionAnswers(raw, q) ==
  IF raw = Empty THEN Refused
  ELSE IF q.options = <<>> THEN Answer(<<raw>>)
  ELSE IF ~q.multi /\ Matches(q, raw) # {} THEN Answer(<<Matched(q, raw)>>)
  ELSE LET parts == SplitAnswerParts(raw)
           known(p) == Matches(q, p) # {}
       IN  IF \/ \E i \in DOMAIN parts : ~known(parts[i]) /\ ~q.other
              \/ parts = <<>> \/ (~q.multi /\ Len(parts) > 1)
           THEN Refused
           ELSE Answer([i \in DOMAIN parts |->
                          IF known(parts[i]) THEN Matched(q, parts[i]) ELSE parts[i]])

\* ToolUserInputSelectionsFromDrafts
Selection(q, d) ==
  LET other == IF q.other THEN Draft(d.other, q) ELSE Empty
  IN  IF q.multi
      THEN EscapeAnswerParts(Draft(d.multi, q) \o SplitAnswerParts(other))
      ELSE IF q.options = <<>> THEN Draft(d.value, q)
      ELSE EscapeAnswerParts(<<IF other # Empty THEN other ELSE Draft(d.value, q)>>)

\* BuildToolUserInputResponseFromSelections: Codex wants every answer
CodexContent(raw) ==
  LET result == [q \in Asked |-> ParseQuestionAnswers(raw[q], q)]
  IN  [ok |-> \A q \in Asked : result[q].ok,
       content |-> [id \in {q.id : q \in Asked} |->
                      result[CHOOSE q \in Asked : q.id = id].value]]

\* ClaudeAnswersFromSelections: an answer is one text, questions may be left out
ClaudeContent(raw) ==
  LET answered == {q \in Asked : raw[q] # Empty}
      result == [q \in answered |-> ParseQuestionAnswers(raw[q], q)]
  IN  [ok |-> answered # {} /\ \A q \in answered : result[q].ok,
       content |-> [id \in {q.id : q \in answered} |->
                      <<JoinAnswerParts(result[CHOOSE q \in answered : q.id = id].value)>>]]

\* AsyncUserInputAnswerText: another value is taken as it is, options are labels
AsyncContent(d) ==
  LET free(q) == q.other /\ Draft(d.other, q) # Empty
      raw(q) == IF free(q) THEN Draft(d.other, q) ELSE Draft(d.value, q)
      ok(q) == raw(q) # Empty /\ (free(q) \/ q.options = <<>> \/ Matches(q, raw(q)) # {})
      first(q) == q.options[CHOOSE i \in Matches(q, raw(q)) : \A j \in Matches(q, raw(q)) : i <= j]
      value(q) == IF free(q) \/ q.options = <<>> THEN raw(q) ELSE first(q)
      all == \A q \in Asked : ok(q)
  IN  [ok |-> all,
       content |-> IF ~all THEN <<>>
                   ELSE [id \in {q.id : q \in Asked} |->
                           <<value(CHOOSE q \in Asked : q.id = id)>>]]

ReplyContent(raw) == IF Kind = "codex" THEN CodexContent(raw) ELSE ClaudeContent(raw)
-----------------------------------------------------------------------------
(* The cards.  A button carries its action and the marks of the form.      *)
Button(act, id, option, multi) ==
  [act |-> act, id |-> id, option |-> option, multi |-> multi]

Carried(d) == LET marked == {id \in DOMAIN d.multi : d.multi[id] # <<>>}
              IN  [id \in marked |-> d.multi[id]]

\* SendUserInputCard: no cancel button
QuickCard ==
  LET q == Questions[1]
  IN  [mode |-> "quick", drafts |-> NoDrafts,
       buttons |-> {Button("answer", q.id, q.options[i], <<>>) : i \in DOMAIN q.options}]

MultiSelectRows(q, d) ==
  {Button("toggle", q.id, q.options[i], Carried(d)) : i \in DOMAIN q.options}

\* renderUserInputFormCard
FormCard(d) ==
  [mode |-> "form", drafts |-> d,
   buttons |-> {Button("submit", "", Empty, Carried(d)), Button("cancel", "", Empty, <<>>)}
               \cup UNION {MultiSelectRows(q, d) : q \in Multis}]

ClosedCard == [mode |-> "closed", drafts |-> NoDrafts, buttons |-> {}]

\* A choice shows its draft only when it is one of its options.
InitialOption(q, text) ==
  IF q.options = <<>> THEN text
  ELSE LET fit == {i \in DOMAIN q.options : Same(q.options[i], text)}
       IN  IF fit = {} THEN Empty ELSE q.options[CHOOSE i \in fit : \A j \in fit : i <= j]

TypedIn(c) ==
  IF c.mode # "form" THEN [value |-> <<>>, other |-> <<>>]
  ELSE [value |-> [id \in {q.id : q \in Asked \ Multis} |->
                     LET q == CHOOSE x \in Asked : x.id = id
                     IN  InitialOption(q, Draft(c.drafts.value, q))],
        other |-> [id \in {q.id : q \in Others} |->
                     Draft(c.drafts.other, CHOOSE x \in Asked : x.id = id)]]

Show(c) == card' = c /\ typed' = TypedIn(c)
-----------------------------------------------------------------------------
NoTask == [pc |-> "none", content |-> <<>>, shown |-> <<>>, drafts |-> NoDrafts, error |-> FALSE]

Init ==
  /\ request \in Requests /\ status = "none"
  /\ card = ClosedCard /\ typed = TypedIn(ClosedCard)
  /\ clicks = {} /\ task = NoTask
  /\ session = "turn"
  /\ replies = <<>> /\ ends = <<>>
  /\ actions = 0 /\ failures = 0

Acts == actions < MaxActions /\ actions' = actions + 1
Fails == failures < MaxFailures /\ failures' = failures + 1

\* A waiting backend asks; a card that is not delivered refuses the request.
Deliver ==
  /\ status = "none"
  /\ \/ /\ status' = "pending" /\ UNCHANGED failures
        /\ Show(IF Quick THEN QuickCard ELSE FormCard(NoDrafts))
     \/ Fails /\ status' = "gone" /\ UNCHANGED <<card, typed>>
  /\ UNCHANGED <<request, clicks, task, session, replies, ends, actions>>

\* serverrequest: SendUserInputCard and SendUserInputFormCard
SendCodexQuestion == Kind = "codex" /\ Deliver

\* claudesupport: SendUserInputCard and SendUserInputFormCard
SendClaudeQuestion == Kind = "claude" /\ Deliver

\* asyncUserInputCardSender.Send, for an item reported once or more: choices
\* start with their first option, and a card that was delivered is not repeated
SendAsync ==
  LET d == [NoDrafts EXCEPT !.value =
              [id \in {q.id : q \in {x \in Asked : x.options # <<>>}} |->
                 (CHOOSE q \in Asked : q.id = id).options[1]]]
  IN  /\ Kind = "async" /\ status \in {"none", "pending"} /\ card.mode = "closed" /\ ends = <<>>
      /\ status' = "pending"
      /\ \/ Show(FormCard(d)) /\ UNCHANGED failures
         \/ Fails /\ UNCHANGED <<card, typed>>
      /\ UNCHANGED <<request, clicks, task, session, replies, ends, actions>>

\* The user fills in a field, from the options if it is a choice.
Enter(q, part, text) ==
  /\ Acts /\ card.mode = "form"
  /\ q.id \in DOMAIN typed[part]
  /\ (part = "value" /\ q.options # <<>>) => \E i \in DOMAIN q.options : q.options[i] = text
  /\ typed' = [typed EXCEPT ![part][q.id] = text]
  /\ UNCHANGED <<request, status, card, clicks, task, session, replies, ends, failures>>

\* What the card shows as chosen, the reference for what is sent.
Chosen(q, b) ==
  IF b.act = "answer" THEN {b.option}
  ELSE LET other == IF q.other THEN typed.other[q.id] ELSE Empty
       IN  IF q.multi THEN Range(Draft(card.drafts.multi, q)) \cup Range(SplitAnswerParts(other))
           ELSE {IF other # Empty THEN other ELSE typed.value[q.id]} \ {Empty}
Shown(b) ==
  LET chosen == {q \in Asked : Chosen(q, b) # {}}
  IN  [id \in {q.id : q \in chosen} |-> Chosen(CHOOSE q \in chosen : q.id = id, b)]

Press(b) == Acts /\ b \in card.buttons /\ UNCHANGED request

\* A press on the card of a request that is gone only shows a notice.
PressTooLate(b) ==
  /\ Kind # "async" /\ Press(b) /\ status = "gone"
  /\ UNCHANGED <<status, card, typed, clicks, task, session, replies, ends, failures>>

\* The backend accepts a reply, then FinalizePendingReply.
Reply(content, shown) ==
  /\ replies' = Append(replies, [content |-> content, shown |-> shown])
  /\ status' = "replied"

\* completeUserInputQuickAnswer: the answer is what the button says
QuickAnswer(b) ==
  /\ b.act = "answer" /\ Press(b) /\ status # "gone"
  /\ \/ Reply([id \in {b.id} |-> <<b.option>>], Shown(b)) /\ Show(ClosedCard) /\ UNCHANGED failures
     \/ Fails /\ UNCHANGED <<status, card, typed, replies>>
  /\ UNCHANGED <<clicks, task, session, ends>>

\* Mutant of DraftsFromCardAction: the field of another value is not read.
DraftsWithoutOther(b) == [value |-> typed.value, other |-> <<>>, multi |-> b.multi]

\* ToolUserInputDraftsFromCardAction: Feishu returns every field of the form
DraftsFromCardAction(b) == [value |-> typed.value, other |-> typed.other, multi |-> b.multi]

\* completeUserInputFormSubmit
FormSubmit(b) ==
  /\ Kind # "async" /\ b.act = "submit" /\ Press(b) /\ status # "gone"
  /\ LET d == DraftsFromCardAction(b)
         r == ReplyContent([q \in Asked |-> Selection(q, d)])
     IN  \/ r.ok /\ Reply(r.content, Shown(b)) /\ Show(ClosedCard) /\ UNCHANGED failures
         \/ r.ok /\ Fails /\ Show(FormCard(d)) /\ UNCHANGED <<status, replies>>
         \/ ~r.ok /\ Show(FormCard(d)) /\ UNCHANGED <<status, replies, failures>>
  /\ UNCHANGED <<clicks, task, session, ends>>

\* CompleteUserInputMultiToggle
MultiToggle(b) ==
  /\ b.act = "toggle" /\ Press(b) /\ status # "gone"
  /\ LET d == DraftsFromCardAction(b)
         marks == Toggle(Draft(d.multi, [id |-> b.id]), b.option)
         named == (DOMAIN d.multi \ {b.id}) \cup (IF marks = <<>> THEN {} ELSE {b.id})
     IN  Show(FormCard([d EXCEPT !.multi =
                [id \in named |-> IF id = b.id THEN marks ELSE d.multi[id]]]))
  /\ UNCHANGED <<status, clicks, task, session, replies, ends, failures>>

\* CompletePendingFormCancel
FormCancel(b) ==
  /\ Kind # "async" /\ b.act = "cancel" /\ Press(b) /\ status # "gone"
  /\ \/ status' = "replied" /\ Show(ClosedCard) /\ UNCHANGED failures
     \/ Fails /\ UNCHANGED <<status, card, typed>>
  /\ UNCHANGED <<clicks, task, session, replies, ends>>

\* CompleteToolUserInputText: a written answer, by question or as a whole; only
\* a form takes one
WrittenAnswer(answers, text) ==
  /\ Kind # "async" /\ ~Quick /\ Acts /\ status = "pending"
  /\ LET raw(q) == IF Draft(answers, q) # Empty THEN answers[q.id]
                   ELSE IF Single THEN text ELSE Empty
         r == ReplyContent([q \in Asked |-> raw(q)])
     IN  IF ~r.ok THEN UNCHANGED <<status, card, typed, replies, failures>>
         ELSE \/ /\ status' = "replied" /\ UNCHANGED replies
                 /\ \/ Show(ClosedCard) /\ UNCHANGED failures
                    \/ Fails /\ UNCHANGED <<card, typed>>
              \/ Fails /\ UNCHANGED <<status, card, typed, replies>>
  /\ UNCHANGED <<request, clicks, task, session, ends>>

\* The backend resolves the request, or its turn ends.
BackendResolves ==
  /\ Kind # "async" /\ status \in {"pending", "replied"} /\ status' = "gone"
  /\ UNCHANGED <<request, card, typed, clicks, task, session, replies, ends, actions, failures>>
-----------------------------------------------------------------------------
(* Asynchronous questions.  Two presses may be handled beside each other.  *)

\* Validate, and the answer or the refusal
AsyncValidate(b) ==
  /\ Kind = "async" /\ Press(b) /\ status = "pending"
  /\ b.act = "cancel" \/ session # "switched"
  /\ LET d == DraftsFromCardAction(b)
         r == AsyncContent(d)
     IN  IF b.act = "submit" /\ ~r.ok
         THEN Show(FormCard(d)) /\ UNCHANGED clicks
         ELSE /\ clicks' = clicks \cup {[n |-> actions, act |-> b.act, content |-> r.content,
                                         shown |-> Shown(b), drafts |-> d]}
              /\ UNCHANGED <<card, typed>>
  /\ UNCHANGED <<status, task, session, replies, ends, failures>>

\* Mutant of Claimable: the status is not looked at again.
ClaimableBlindly(c) == task.pc = "none"

\* Claim changes a pending question only.
Claimable(c) == status = "pending"

AsyncClaim(c) ==
  /\ clicks' = clicks \ {c}
  /\ IF ~Claimable(c) THEN UNCHANGED <<status, card, typed, task, ends>>
     ELSE IF c.act = "cancel"
     THEN /\ status' = "resolved" /\ ends' = Append(ends, "cancelled")
          /\ Show(ClosedCard) /\ UNCHANGED task
     ELSE /\ status' = "replied"
          /\ task' = [pc |-> "effect", content |-> c.content, shown |-> c.shown,
                      drafts |-> c.drafts, error |-> FALSE]
          /\ UNCHANGED <<card, typed, ends>>
  /\ UNCHANGED <<request, session, replies, actions, failures>>

\* AnswerEffect and the effect: a steer of the running turn, or an input; a
\* failure may be reported although the answer was taken
AsyncEffect ==
  /\ task.pc = "effect"
  /\ IF session = "switched"
     THEN task' = [task EXCEPT !.pc = "done", !.error = TRUE] /\ UNCHANGED <<replies, failures, session>>
     ELSE \/ /\ replies' = Append(replies, [content |-> task.content, shown |-> task.shown])
             /\ task' = [task EXCEPT !.pc = "done"]
             /\ session' = "turn" /\ UNCHANGED failures
          \/ /\ Fails /\ task' = [task EXCEPT !.pc = "done", !.error = TRUE]
             /\ replies' \in {replies, Append(replies, [content |-> task.content, shown |-> task.shown])}
             /\ UNCHANGED session
  /\ UNCHANGED <<request, status, card, typed, clicks, ends, actions>>

\* Complete, whatever the status became meanwhile
AsyncComplete ==
  /\ task.pc = "done"
  /\ status' = IF task.error THEN "pending" ELSE "resolved"
  /\ ends' = IF task.error THEN ends ELSE Append(ends, "answered")
  /\ task' = [task EXCEPT !.pc = "present"]
  /\ UNCHANGED <<request, card, typed, clicks, session, replies, actions, failures>>

\* present: the patch of the card, which may fail
AsyncPresent ==
  /\ task.pc = "present" /\ task' = NoTask
  /\ \/ Show(IF task.error THEN FormCard(task.drafts) ELSE ClosedCard) /\ UNCHANGED failures
     \/ Fails /\ UNCHANGED <<card, typed>>
  /\ UNCHANGED <<request, status, clicks, session, replies, ends, actions>>

\* The turn ends, or the session goes on with another thread.
SessionChanges ==
  /\ Kind = "async" /\ status # "none"
  /\ \/ session = "turn" /\ session' = "idle"
     \/ session # "switched" /\ session' = "switched"
  /\ UNCHANGED <<request, status, card, typed, clicks, task, replies, ends, actions, failures>>

\* Lines that name a question, or a text as a whole.
Answers == {<<>>} \cup UNION {[{q.id} -> Texts] : q \in Asked}

Next ==
  \/ SendCodexQuestion \/ SendClaudeQuestion \/ SendAsync
  \/ \E q \in Asked, part \in {"value", "other"}, text \in Texts : Enter(q, part, text)
  \/ \E b \in card.buttons :
       \/ PressTooLate(b) \/ QuickAnswer(b) \/ FormSubmit(b) \/ MultiToggle(b)
       \/ FormCancel(b) \/ AsyncValidate(b)
  \/ \E answers \in Answers, text \in Texts : WrittenAnswer(answers, text)
  \/ BackendResolves
  \/ \E c \in clicks : AsyncClaim(c)
  \/ AsyncEffect \/ AsyncComplete \/ AsyncPresent \/ SessionChanges

Spec == Init /\ [][Next]_vars
-----------------------------------------------------------------------------
\* One text, or the answers of a question joined to one.
Says(answers, chosen) ==
  \/ {Fold(answers[i]) : i \in DOMAIN answers} = {Fold(t) : t \in chosen}
  \/ /\ Len(answers) = 1
     /\ \E n \in 1 .. 4 : \E order \in [1 .. n -> chosen] :
          Range(order) = chosen /\ Same(JoinAnswerParts(order), answers[1])

\* Every answer the backend or the session gets is what the card showed as
\* chosen when it was submitted: the pressed option, the fields, the marks and
\* the other values, for every question that shows one and for no other
\* (ToolUserInputSelectionsFromDrafts, EscapeAnswerParts, SplitAnswerParts).
AnswersMatchCard ==
  \A i \in DOMAIN replies :
    /\ DOMAIN replies[i].content = DOMAIN replies[i].shown
    /\ \A id \in DOMAIN replies[i].shown : Says(replies[i].content[id], replies[i].shown[id])

\* An asynchronous question ends at most once, with an answer that was taken or
\* with its cancellation, however many presses are handled beside each other
\* and retried after failures (Claim).
EndsOnce == Len(ends) <= 1
=============================================================================

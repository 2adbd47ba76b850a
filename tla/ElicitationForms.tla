-------------------------- MODULE ElicitationForms --------------------------
(***************************************************************************)
(* The form an MCP server asks the user to fill in.  The schema is parsed  *)
(* into fields and decides the card: buttons that confirm, buttons that    *)
(* choose, a form, or, for a schema that is not understood, a text that    *)
(* asks for a written answer.  The card carries what was entered so far:   *)
(* the marks of a multiple choice in its buttons, the other fields in the  *)
(* form values Feishu returns with a submission.  A press or a written     *)
(* answer is checked against the schema and sent to the MCP server.        *)
(*                                                                         *)
(* Only the owner's presses are modelled: every handler refuses the others *)
(* before it does anything.  The delivery of the card, the server's answer *)
(* and the wait of the turn are those of Interactions.                     *)
(***************************************************************************)
EXTENDS Integers, Sequences, FiniteSets, FiniteSetsExt, SequencesExt, Functions, FormText

CONSTANTS
  Payloads,     \* schemas: [object, fields], the fields in the order of names
  Texts,        \* what a user may write into a field
  MaxActions,   \* bound: things the user does
  MaxFailures   \* bound: replies and patches that fail

VARIABLES
  payload,    \* the schema of the request
  status,     \* "pending", "replied", or "gone" once the server resolved it
  card,       \* the card shown: [mode, drafts, buttons]
  typed,      \* what the form shows in its fields, by the user or by default
  replies,    \* content sent, with what the card showed when it was pressed
  rejected,   \* why the last written answer was refused
  pressed,    \* the last button pressed
  actions, failures

vars == <<payload, status, card, typed, replies, rejected, pressed, actions,
          failures>>
-----------------------------------------------------------------------------
(* The schema.  A field is [name, type, required, options, default, min,   *)
(* max, format], its default a sequence of at most one text, or of any     *)
(* number for an array; an option is [value, label].                       *)

SelectTypes == {"oneOf", "enum"}
Numbers == [number |-> {<<"1">>, <<"9">>, <<"half">>},
            integer |-> {<<"1">>, <<"9">>}]
Amount(text) == CASE text = <<"1">> -> 2 [] text = <<"half">> -> 1 [] OTHER -> 18
Formats == {"", "email", "uri", "date", "date-time"}
Yes == {<<"true">>, <<"yes">>}
No == {<<"false">>, <<"no">>}

Matches(options, text) ==
  {i \in DOMAIN options : Same(text, options[i].value) \/ Same(text, options[i].label)}

OptionsParse(options) ==
  /\ options # <<>>
  /\ \A i, j \in DOMAIN options :
       /\ options[i].value # Empty
       /\ i < j => ~Same(options[i].value, options[j].value)

FieldParses(f) ==
  CASE f.type \in SelectTypes \cup {"array"} ->
         /\ OptionsParse(f.options)
         /\ \A i \in DOMAIN f.default : Matches(f.options, f.default[i]) # {}
    [] f.type = "string" -> f.format \in Formats
    [] f.type \in DOMAIN Numbers ->
         \A i \in DOMAIN f.default : f.default[i] \in Numbers[f.type]
    [] OTHER -> f.type = "boolean"

Parses == payload.object /\ \A i \in DOMAIN payload.fields : FieldParses(payload.fields[i])

Fields == {payload.fields[i] : i \in DOMAIN payload.fields}
Single == Len(payload.fields) = 1
Multis == {f \in Fields : f.type = "array"}

RenderMode ==
  IF ~Parses THEN "text"
  ELSE IF payload.fields = <<>> THEN "confirm"
  ELSE IF /\ Single
          /\ LET f == payload.fields[1]
             IN  \/ f.type = "boolean"
                 \/ f.type \in SelectTypes /\ Len(f.options) <= 5
       THEN "decision" ELSE "form"

(***************************************************************************)
(* Drafts and answers.                                                     *)
(***************************************************************************)
NoDrafts == [values |-> <<>>, multi |-> <<>>]
MatchedValue(f, text) == f.options[Min(Matches(f.options, text))].value

DefaultMulti(f) ==
  Unique([i \in DOMAIN f.default |-> MatchedValue(f, f.default[i])])

DraftText(f, d) ==
  IF f.name \in DOMAIN d.values THEN d.values[f.name]
  ELSE IF f.default # <<>> THEN f.default[1] ELSE Empty

DraftMulti(f, d) ==
  IF f.name \in DOMAIN d.multi THEN d.multi[f.name] ELSE DefaultMulti(f)

Refused == [ok |-> FALSE, value |-> <<>>]
Left(f) == [ok |-> ~f.required, value |-> <<>>]
Answer(value) == [ok |-> TRUE, value |-> value]

WithinLimits(f, n) == (f.min # -1 => n >= f.min) /\ (f.max # -1 => n <= f.max)

\* normalizeElicitationTextValue; a value is a sequence of texts
NormalizeText(f, text) ==
  IF text = Empty THEN Left(f)
  ELSE CASE f.type = "string" ->
              IF WithinLimits(f, Len(text)) /\ (f.format # "" => text[1] = f.format)
              THEN Answer(<<text>>) ELSE Refused
         [] f.type \in DOMAIN Numbers ->
              IF text \in Numbers[f.type] /\ WithinLimits(f, Amount(text))
              THEN Answer(<<text>>) ELSE Refused
         [] f.type = "boolean" ->
              IF text \in Yes THEN Answer(<<<<"true">>>>)
              ELSE IF text \in No THEN Answer(<<<<"false">>>>) ELSE Refused
         [] OTHER ->
              IF Matches(f.options, text) # {}
              THEN Answer(<<MatchedValue(f, text)>>) ELSE Refused

\* Mutant of NormalizeMulti: the upper limit is not checked.
NormalizeMultiUnlimited(f, marks) ==
  IF marks = <<>> THEN [ok |-> ~f.required /\ f.min <= 0, value |-> <<>>]
  ELSE IF \E i \in DOMAIN marks : Matches(f.options, marks[i]) = {} THEN Refused
  ELSE LET value == Unique([i \in DOMAIN marks |-> MatchedValue(f, marks[i])])
       IN  IF f.min # -1 /\ Len(value) < f.min THEN Refused ELSE Answer(value)

\* normalizeElicitationMultiValue
NormalizeMulti(f, marks) ==
  IF marks = <<>> THEN [ok |-> ~f.required /\ f.min <= 0, value |-> <<>>]
  ELSE IF \E i \in DOMAIN marks : Matches(f.options, marks[i]) = {} THEN Refused
  ELSE LET value == Unique([i \in DOMAIN marks |-> MatchedValue(f, marks[i])])
       IN  IF WithinLimits(f, Len(value)) THEN Answer(value) ELSE Refused

\* The fields with an answer; a field that was left out is not sent.
Content(result) ==
  LET answered == {f \in Fields : result[f].value # <<>>}
  IN  [n \in {f.name : f \in answered} |-> result[CHOOSE f \in Fields : f.name = n].value]

\* a content, its values as sets
AsSets(content) == [n \in DOMAIN content |-> Range(content[n])]

Result(f, d) == IF f.type = "array" THEN NormalizeMulti(f, DraftMulti(f, d))
                ELSE NormalizeText(f, DraftText(f, d))
-----------------------------------------------------------------------------
(* The cards.  A button carries its action and, in a form, the marks.      *)

Button(act, field, option, multi) ==
  [act |-> act, field |-> field, option |-> option, multi |-> multi]
Cancel == Button("cancel", "", Empty, <<>>)

\* ToolUserInputMultiDraftActionValue: questions without marks are left out
Carried(d) == LET marked == {n \in DOMAIN d.multi : d.multi[n] # <<>>}
              IN  [n \in marked |-> d.multi[n]]

TextFallbackCard == [mode |-> "text", drafts |-> NoDrafts, buttons |-> {Cancel}]

ConfirmCard ==
  [mode |-> "confirm", drafts |-> NoDrafts,
   buttons |-> {Cancel, Button("accept", "", Empty, <<>>), Button("decline", "", Empty, <<>>)}]

DecisionCard ==
  LET f == payload.fields[1]
      values == IF f.type = "boolean" THEN {<<"true">>, <<"false">>}
                ELSE {f.options[i].value : i \in DOMAIN f.options}
  IN  [mode |-> "decision", drafts |-> NoDrafts,
       buttons |-> {Cancel} \cup {Button("answer", f.name, v, <<>>) : v \in values}
                   \cup (IF f.required THEN {} ELSE {Button("skip", f.name, Empty, <<>>)})]

ToggleButtons(f, d) ==
  {Button("toggle", f.name, f.options[i].value, Carried(d)) : i \in DOMAIN f.options}

InlineFormCard(d) ==
  [mode |-> "form", drafts |-> d,
   buttons |-> {Cancel, Button("submit", "", Empty, Carried(d))}
               \cup UNION {ToggleButtons(f, d) : f \in Multis}]

ClosedCard == [mode |-> "closed", drafts |-> NoDrafts, buttons |-> {}]

RequestCard(d) == CASE RenderMode = "text" -> TextFallbackCard
                    [] RenderMode = "confirm" -> ConfirmCard
                    [] RenderMode = "decision" -> DecisionCard
                    [] OTHER -> InlineFormCard(d)

\* The fields of a form; a choice shows its default only when it is a value.
Initially(f, d) ==
  LET text == DraftText(f, d)
  IN  IF f.type \in SelectTypes /\ ~\E i \in DOMAIN f.options : f.options[i].value = text
      THEN Empty ELSE text

TypedIn(c) ==
  IF c.mode # "form" THEN <<>>
  ELSE [n \in {f.name : f \in Fields \ Multis} |->
          Initially(CHOOSE f \in Fields : f.name = n, c.drafts)]

Show(c) == card' = c /\ typed' = TypedIn(c)

\* What a form shows as marked: "[x]".
Marks(c, f) == Range(DraftMulti(f, c.drafts))
-----------------------------------------------------------------------------
NoPress == Button("none", "", Empty, <<>>)

\* SendElicitationFormCard
Init ==
  /\ payload \in Payloads /\ status = "pending"
  /\ card = RequestCard(NoDrafts) /\ typed = TypedIn(RequestCard(NoDrafts))
  /\ replies = <<>> /\ rejected = "" /\ pressed = NoPress
  /\ actions = 0 /\ failures = 0

Acts == actions < MaxActions /\ actions' = actions + 1
Fails == failures < MaxFailures /\ failures' = failures + 1

\* The user fills in a field of the form, from its options if it is a choice.
Enter(n, text) ==
  /\ Acts /\ n \in DOMAIN typed
  /\ \A f \in Fields : f.name = n =>
       CASE f.type \in SelectTypes -> \E i \in DOMAIN f.options : f.options[i].value = text
         [] f.type = "boolean" -> text \in {<<"true">>, <<"false">>}
         [] OTHER -> TRUE
  /\ typed' = [typed EXCEPT ![n] = text]
  /\ UNCHANGED <<payload, status, card, replies, rejected, pressed, failures>>

Press(act, b) ==
  /\ Acts /\ b \in card.buttons /\ b.act = act /\ pressed' = b
  /\ UNCHANGED <<payload, rejected>>

\* A press on the card of a request that is gone only shows a notice.
PressTooLate(b) ==
  /\ Press(b.act, b) /\ status = "gone"
  /\ UNCHANGED <<status, card, typed, replies, failures>>

(* What the card shows as the user's answer, the reference for what is     *)
(* sent: the option that was pressed, or the fields and marks of the form. *)
Chosen(b) ==
  IF b.act = "answer" THEN [n \in {b.field} |-> {b.option}]
  ELSE IF b.act # "submit" THEN <<>>
  ELSE LET texts == {n \in DOMAIN typed : typed[n] # Empty}
           marked == {f \in Multis : Marks(card, f) # {}}
       IN  [n \in texts \cup {f.name : f \in marked} |->
              IF n \in texts THEN {typed[n]}
              ELSE Marks(card, CHOOSE f \in marked : f.name = n)]

\* ReplyElicitationContent and ReplyElicitationAction, then FinalizePendingReply
Send(action, content, shown) ==
  /\ replies' = Append(replies, [action |-> action, content |-> content, shown |-> shown])
  /\ status' = "replied"

\* completeElicitationDirectAction
DirectAction(b) ==
  /\ b.act \in {"accept", "decline"} /\ Press(b.act, b) /\ status # "gone"
  /\ RenderMode = "confirm"
  /\ \/ Send(b.act, <<>>, <<>>) /\ Show(ClosedCard) /\ UNCHANGED failures
     \/ Fails /\ UNCHANGED <<status, card, typed, replies>>

\* completeElicitationQuickAnswer; skip sends no content
QuickAnswer(b) ==
  /\ b.act \in {"answer", "skip"} /\ Press(b.act, b) /\ status # "gone"
  /\ Single
  /\ LET r == IF b.act = "skip" THEN Answer(<<>>)
              ELSE NormalizeText(payload.fields[1], b.option)
     IN  IF ~r.ok THEN UNCHANGED <<status, card, typed, replies, failures>>
         ELSE \/ /\ Send("accept", IF r.value = <<>> THEN <<>>
                                   ELSE [n \in {b.field} |-> r.value], Chosen(b))
                 /\ Show(ClosedCard) /\ UNCHANGED failures
              \/ Fails /\ UNCHANGED <<status, card, typed, replies>>

\* Mutant of DraftsFromCardAction: the marks carried by the button are not read.
DraftsWithoutMarks(b) == [values |-> typed, multi |-> <<>>]

\* ElicitationDraftsFromCardAction: Feishu returns every field of the form
DraftsFromCardAction(b) == [values |-> typed, multi |-> b.multi]

\* completeElicitationFormSubmit
FormSubmit(b) ==
  /\ Press("submit", b) /\ status # "gone"
  /\ LET d == DraftsFromCardAction(b)
         result == [f \in Fields |-> Result(f, d)]
     IN  \/ /\ \A f \in Fields : result[f].ok
            /\ Send("accept", Content(result), Chosen(b))
            /\ Show(ClosedCard) /\ UNCHANGED failures
         \/ /\ \A f \in Fields : result[f].ok
            /\ Fails /\ Show(RequestCard(d)) /\ UNCHANGED <<status, replies>>
         \/ /\ \E f \in Fields : ~result[f].ok
            /\ Show(RequestCard(d)) /\ UNCHANGED <<status, replies, failures>>

\* Mutant of MultiToggle: the marks of the other questions are not kept.
MultiToggleAlone(b) ==
  /\ Press("toggle", b) /\ status # "gone"
  /\ LET marks == Toggle(IF b.field \in DOMAIN b.multi THEN b.multi[b.field] ELSE <<>>, b.option)
         multi == IF marks = <<>> THEN <<>> ELSE [n \in {b.field} |-> marks]
     IN  Show(RequestCard([values |-> typed, multi |-> multi]))
  /\ UNCHANGED <<status, replies, failures>>

\* CompleteElicitationMultiToggle
MultiToggle(b) ==
  /\ Press("toggle", b) /\ status # "gone"
  /\ LET marks == Toggle(IF b.field \in DOMAIN b.multi THEN b.multi[b.field] ELSE <<>>, b.option)
         others == DOMAIN b.multi \ {b.field}
         named == IF marks = <<>> THEN others ELSE others \cup {b.field}
         multi == [n \in named |-> IF n = b.field THEN marks ELSE b.multi[n]]
     IN  Show(RequestCard([values |-> typed, multi |-> multi]))
  /\ UNCHANGED <<status, replies, failures>>

\* CompletePendingFormCancel
FormCancel(b) ==
  /\ Press("cancel", b) /\ status # "gone"
  /\ \/ Send("cancel", <<>>, <<>>) /\ Show(ClosedCard) /\ UNCHANGED failures
     \/ Fails /\ UNCHANGED <<status, card, typed, replies>>

(* CompleteElicitationFormText.  A written answer is a text; its lines     *)
(* with a colon are the answers of the fields they name.  A single field   *)
(* takes the whole text when no line has a colon.                          *)
Written(f, answers, text) ==
  IF f.name \in DOMAIN answers /\ answers[f.name] # Empty THEN answers[f.name]
  ELSE IF Single /\ DOMAIN answers = {} THEN text ELSE Empty

FormText(answers, text) ==
  /\ Acts /\ status = "pending"
  /\ LET raw(f) == Written(f, answers, text)
         result == [f \in Fields |->
                      IF f.type = "array" THEN NormalizeMulti(f, SplitAnswerParts(raw(f)))
                      ELSE NormalizeText(f, raw(f))]
     IN  IF ~Parses \/ \E f \in Fields : ~result[f].ok
         THEN /\ rejected' = IF Parses THEN "answer" ELSE "schema"
              /\ UNCHANGED <<status, card, typed, replies, failures>>
         ELSE /\ rejected' = ""
              /\ \/ /\ Send("accept", Content(result), AsSets(Content(result)))
                    /\ \/ Show(ClosedCard) /\ UNCHANGED failures
                       \/ Fails /\ UNCHANGED <<card, typed>>
                 \/ Fails /\ UNCHANGED <<status, card, typed, replies>>
  /\ UNCHANGED <<payload, pressed>>

\* serverRequest/resolved, or the end of the turn: the request is removed.
ServerResolves ==
  /\ status # "gone" /\ status' = "gone"
  /\ UNCHANGED <<payload, card, typed, replies, rejected, pressed, actions, failures>>

\* No line with a colon, one that names a field, or one that names none.
Answers == {<<>>, [n \in {"no field"} |-> <<"a">>]}
           \cup UNION {[{f.name} -> Texts] : f \in Fields}

Next ==
  \/ \E n \in DOMAIN typed, text \in Texts : Enter(n, text)
  \/ \E b \in card.buttons :
       \/ PressTooLate(b) \/ DirectAction(b) \/ QuickAnswer(b)
       \/ FormSubmit(b) \/ MultiToggle(b) \/ FormCancel(b)
  \/ \E answers \in Answers, text \in Texts : FormText(answers, text)
  \/ ServerResolves

Spec == Init /\ [][Next]_vars
-----------------------------------------------------------------------------
(* Properties.                                                             *)

\* A reply satisfies the schema whatever way it was given: a required field
\* is there, a choice is one of the options, a multiple choice has neither
\* too few nor too many.
RepliesSatisfySchema ==
  \A i \in DOMAIN replies : replies[i].action = "accept" =>
    \A f \in Fields :
      IF f.name \notin DOMAIN replies[i].content THEN ~f.required /\ (f.type = "array" => f.min <= 0)
      ELSE LET v == replies[i].content[f.name]
               chosen == Range(v)
           IN  /\ v # <<>>
               /\ f.type \in SelectTypes \cup {"array"} =>
                    chosen \subseteq {f.options[k].value : k \in DOMAIN f.options}
               /\ f.type = "array" => Cardinality(chosen) = Len(v) /\ WithinLimits(f, Len(v))

\* The MCP server receives what the card showed when the user pressed its
\* button: the option on it, or the fields and the marks of the form, whatever
\* was entered, toggled, refused or failed to be sent before.
WhatIsShownIsSent ==
  \A i \in DOMAIN replies :
    LET r == replies[i]
    IN  /\ DOMAIN r.content = DOMAIN r.shown
        /\ \A n \in DOMAIN r.content : Range(r.content[n]) = r.shown[n]

\* A press on an option of a multiple choice changes its mark and no other.
ToggleFlips ==
  [][pressed'.act = "toggle" /\ card' # card /\ replies' = replies =>
       \A f \in Multis :
         Marks(card', f) =
           IF f.name # pressed'.field THEN Marks(card, f)
           ELSE (Marks(card, f) \ {pressed'.option}) \cup ({pressed'.option} \ Marks(card, f))]_vars

\* A form that falls back to a written answer takes one: no answer is refused
\* because of the schema the card was made from.
FallbackTakesText == rejected # "schema"
=============================================================================

------------------------------ MODULE MCCards ------------------------------
(***************************************************************************)
(* CodexRuntime, and what users see of a turn: TurnStream, its progress    *)
(* cards, Interactions, its server requests under repeated events and      *)
(* failing cards, ReplyDelivery, the split of its reply into cards and     *)
(* their patches, and ElicitationForms, the forms by which it asks for     *)
(* values, and QuestionForms, its questions.                               *)
(***************************************************************************)
EXTENDS Integers, Sequences, CodexRuntime, TurnStream, Interactions

VARIABLES scenario,
  text, managed, reuse, chunks, sent, patch, link, d_failures, payload,
  status, card, typed, replies, rejected, pressed, actions, e_failures,
  u_request, u_status, u_card, u_typed, clicks, task, session, u_replies,
  ends, u_actions, u_failures

CONSTANTS r1, r2   \* request ids

Field(name, type, required, options, default, min, max) ==
  [name |-> name, type |-> type, required |-> required, options |-> options,
   default |-> default, min |-> min, max |-> max, format |-> ""]
Option(value, label) == [value |-> <<value>>, label |-> <<label>>]
Schema(fields) == [object |-> TRUE, fields |-> fields]
Three == <<Option("a", "x"), Option("b", "y"), Option("c", "c")>>
Choice(required) == Field("s", "enum", required, Three, <<>>, -1, -1)
Choices(name, required) ==
  Field(name, "array", required, Three, <<>>, IF required THEN 1 ELSE -1, 2)
FormPayloads == {Schema(<<>>),
  Schema(<<Field("f", "boolean", FALSE, <<>>, <<>>, -1, -1)>>),
  Schema(<<Choice(TRUE)>>),
  Schema(<<Field("t", "string", TRUE, <<>>, <<>>, 1, 2)>>),
  Schema(<<Choices("m", TRUE)>>),
  Schema(<<Choices("k", FALSE), Choices("m", TRUE)>>),
  Schema(<<Choices("m", FALSE), Field("n", "number", FALSE, <<>>, <<<<"1">>>>, 1, 4), Choice(FALSE)>>),
  Schema(<<Field("u", "object", FALSE, <<>>, <<>>, -1, -1)>>),
  [object |-> FALSE, fields |-> <<>>]}
FormTexts == {<<>>, <<"A">>, <<"1">>, <<"9">>, <<"b", ",", "a">>, <<"true">>}
Ask(id, options, multi, other) == [id |-> id, options |-> options, multi |-> multi, other |-> other]
Asks(kind, questions) == [kind |-> kind, questions |-> questions]
Labels == <<<<"a">>, <<"b">>, <<"a", ",", "b">>>>
OneQuestion == Asks("codex", <<Ask("q", Labels, FALSE, FALSE)>>)
QuestionRequests ==
  {OneQuestion,
   Asks("codex", <<Ask("q", <<<<"a">>, <<"\\">>>>, FALSE, TRUE), Ask("r", <<>>, FALSE, FALSE)>>)}
  \cup {Asks(k, <<Ask("q", Labels, TRUE, TRUE)>>) : k \in {"codex", "claude"}}
  \cup {Asks("claude", <<Ask("q", Labels, FALSE, TRUE), Ask("m", Labels, TRUE, FALSE)>>),
        Asks("async", <<Ask("q", Labels, FALSE, TRUE)>>),
        Asks("async", <<Ask("q", <<>>, FALSE, FALSE)>>)}
QuestionTexts == {<<"A">>, <<"b", ",", "c">>, <<>>}

D == INSTANCE ReplyDelivery WITH
       Cap <- 3, MaxTables <- 1, MaxBlocks <- 3, MaxSize <- 4,
       Tracked <- {1}, MaxFailures <- 1, failures <- d_failures

E == INSTANCE ElicitationForms WITH
       Payloads <- FormPayloads, Texts <- FormTexts, MaxActions <- 4,
       MaxFailures <- 1, failures <- e_failures

U == INSTANCE QuestionForms WITH
       Requests <- QuestionRequests, Texts <- QuestionTexts,
       MaxActions <- 4, MaxFailures <- 1, request <- u_request,
       status <- u_status, card <- u_card, typed <- u_typed,
       replies <- u_replies, actions <- u_actions, failures <- u_failures

varsD == <<text, managed, reuse, chunks, sent, patch, link, d_failures>>
varsE == <<payload, status, card, typed, replies, rejected, pressed, actions,
    e_failures>>
varsU == <<u_request, u_status, u_card, u_typed, clicks, task, session, u_replies,
    ends, u_actions, u_failures>>
MCvars == <<scenario, vars, streamVars, requestsVars, varsD, varsE, varsU>>

MCInit ==
  /\ scenario \in {"runtime", "progress", "faults", "reply", "elicitation", "questions"}
  /\ Init
  /\ StreamInit
  /\ RequestsInit
  /\ D!Init /\ (scenario # "reply" => Len(text) = 1 /\ text[1] = (CHOOSE b \in D!Blocks : TRUE) /\ managed /\ reuse)
  /\ E!Init /\ (scenario # "elicitation" => payload = [object |-> TRUE, fields |-> <<>>])
  /\ U!Init /\ (scenario # "questions" => u_request = OneQuestion)

RuntimeScenario ==
  /\ scenario = "runtime" /\ Next
  /\ UNCHANGED <<scenario, streamVars, requestsVars, varsD, varsE, varsU>>

ProgressScenario ==
  /\ scenario = "progress" /\ StreamNext
  /\ UNCHANGED <<scenario, vars, requestsVars, varsD, varsE, varsU>>

FaultsScenario ==
  /\ scenario = "faults" /\ RequestsNext
  /\ UNCHANGED <<scenario, vars, streamVars, varsD, varsE, varsU>>

ReplyScenario ==
  /\ scenario = "reply" /\ D!Next
  /\ UNCHANGED <<scenario, vars, streamVars, requestsVars, varsE, varsU>>

ElicitationScenario ==
  /\ scenario = "elicitation" /\ E!Next
  /\ UNCHANGED <<scenario, vars, streamVars, requestsVars, varsD, varsU>>

QuestionsScenario ==
  /\ scenario = "questions" /\ U!Next
  /\ UNCHANGED <<scenario, vars, streamVars, requestsVars, varsD, varsE>>

MCNext ==
  \/ RuntimeScenario
  \/ ProgressScenario
  \/ FaultsScenario
  \/ ReplyScenario
  \/ ElicitationScenario
  \/ QuestionsScenario

MCSpec ==
  /\ MCInit /\ [][MCNext]_MCvars
-----------------------------------------------------------------------------
SplitFaithful == D!SplitFaithful
RepliesSatisfySchema == E!RepliesSatisfySchema
AnswersMatchCard == U!AnswersMatchCard
=============================================================================

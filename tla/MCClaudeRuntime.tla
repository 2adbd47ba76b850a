------------------------------ MODULE MCClaudeRuntime ------------------------------
(***************************************************************************)
(* ClaudeRuntime with a death of the CLI and with a change of settings,    *)
(* ClaudeInteractions for a permission request and for a question,         *)
(* ClaudeTasks, SelfUpgrade, and Approvals.                                *)
(***************************************************************************)
EXTENDS Integers, Sequences, ClaudeInteractions, ClaudeRuntime, SelfUpgrade

VARIABLES scenario,
  b_turn, last, task, b_cli, origin, told, frames, agents, began, items,
  over, a_stored, a_card, answers, toasts, presses

Nothing == [command |-> 0, changes |-> <<>>, root |-> 0, permissions |-> {}, tool |-> 0,
            input |-> {}]
Entry(p) == [path |-> p, old |-> 0, new |-> 0]
Asking(k, content) == [kind |-> k, content |-> content]
Beginnings ==
  {[Nothing EXCEPT !.changes = <<Entry(1), Entry(2), Entry(1),
                                 [path |-> 3, old |-> 3, new |-> 4]>>],
   [Nothing EXCEPT !.command = 1]}
Asked ==
  {Asking("file", [Nothing EXCEPT !.root = 1]), Asking("command", Nothing),
   Asking("command", [Nothing EXCEPT !.command = 2]),
   Asking("permissions", [Nothing EXCEPT !.permissions =
     {<<"read", 1>>, <<"read", 2>>, <<"read", 3>>, <<"network", 1>>, <<"other", 1>>}]),
   Asking("permissions", [Nothing EXCEPT !.permissions =
     {<<"other", 1>>, <<"other", 2>>, <<"other", 3>>}])}
ToolCalls ==
  {Asking("command", [Nothing EXCEPT !.command = 1]),
   Asking("permissions", [Nothing EXCEPT !.tool = 1, !.input =
     {<<"named", 1>>, <<"named", 2>>, <<"field", 1>>, <<"field", 2>>, <<"blocked", 1>>}])}
Update(where, what, to, for) ==
  [destination |-> where, type |-> what, mode |-> to, rules |-> for]
Suggested ==
  {{}, {Update("session", "setMode", "plan", {})},
   {Update("session", "addRules", "", {1}), Update("user", "addRules", "", {1})}}
Now == [num |-> <<1, 2, 0>>, pre |-> <<>>]
Published == {[num |-> <<1, 2, 0>>, pre |-> <<[number |-> FALSE, rank |-> 1]>>],
  [num |-> <<1, 3, 0>>, pre |-> <<>>]}
Plain == [model |-> 1, effort |-> 1, aux |-> 1]
Hot == [model |-> 2, effort |-> 2, aux |-> 1]    \* applied to a running process
Cold == [model |-> 1, effort |-> 1, aux |-> 2]   \* needs a restart
PlainHotCold == {Plain, Hot, Cold}

D == INSTANCE ClaudeRuntime WITH
       Subs <- {1, 2}, Settings <- {Plain}, MaxLaunches <- 2, MaxSends <- 4,
       MaxChanges <- 0, MaxDeaths <- 1, MaxStops <- 0

Q == INSTANCE ClaudeInteractions WITH
       Permissions <- {}

B == INSTANCE ClaudeTasks WITH
       Tasks <- {"t1", "t2"}, MaxTurns <- 2, MaxFrames <- 2, turn <- b_turn,
       cli <- b_cli

V == INSTANCE SelfUpgrade WITH
       Requests <- {1, 2}, Faults <- {}, MaxFaults <- 0, MaxCrashes <- 0

A == INSTANCE Approvals WITH
       Requests <- {1, 2}, Items <- {1, 2}, ItemContents <- Beginnings,
       AskContents <- Asked, ToolContents <- ToolCalls,
       Suggestions <- Suggested, MaxPresses <- 2, MaxEntries <- 2,
       MaxPaths <- 2, MaxFlat <- 2, MaxLines <- 3, stored <- a_stored,
       card <- a_card

\* What the theorem about approvals assumes of the constants.
ASSUME ApprovalsBounded == A!Bounded

varsB == <<b_turn, last, task, b_cli, origin, told, frames, agents>>
varsA == <<began, items, over, a_stored, a_card, answers, toasts, presses>>
MCvars == <<scenario, vars, startsVars, varsB, upgradeVars, varsA>>

MCInit ==
  /\ scenario \in {"permission", "settings", "deaths", "question", "background", "upgrade",
    "upgrades", "approvals"}
  /\ Init
  /\ IF scenario = "deaths" THEN D!StartsInit
     ELSE StartsInit
  /\ B!Init
  /\ IF scenario = "upgrades" THEN V!UpgradeInit
     ELSE UpgradeInit /\ (scenario # "upgrade" => bad = {})
  /\ A!Init

PermissionScenario ==
  /\ scenario = "permission" /\ Next
  /\ UNCHANGED <<scenario, startsVars, varsB, upgradeVars, varsA>>

SettingsScenario ==
  /\ scenario = "settings" /\ StartsNext
  /\ UNCHANGED <<scenario, vars, varsB, upgradeVars, varsA>>

DeathsScenario ==
  /\ scenario = "deaths" /\ D!StartsNext
  /\ UNCHANGED <<scenario, vars, varsB, upgradeVars, varsA>>

QuestionScenario ==
  /\ scenario = "question" /\ Q!Next
  /\ UNCHANGED <<scenario, startsVars, varsB, upgradeVars, varsA>>

BackgroundScenario ==
  /\ scenario = "background" /\ B!Next
  /\ UNCHANGED <<scenario, vars, startsVars, upgradeVars, varsA>>

UpgradeScenario ==
  /\ scenario = "upgrade" /\ UpgradeNext
  /\ UNCHANGED <<scenario, vars, startsVars, varsB, varsA>>

UpgradesScenario ==
  /\ scenario = "upgrades" /\ V!UpgradeNext
  /\ UNCHANGED <<scenario, vars, startsVars, varsB, varsA>>

ApprovalsScenario ==
  /\ scenario = "approvals" /\ A!Next
  /\ UNCHANGED <<scenario, vars, startsVars, varsB, upgradeVars>>

MCNext ==
  \/ PermissionScenario
  \/ SettingsScenario
  \/ DeathsScenario
  \/ QuestionScenario
  \/ BackgroundScenario
  \/ UpgradeScenario
  \/ UpgradesScenario
  \/ ApprovalsScenario

MCSpec ==
  /\ MCInit /\ [][MCNext]_MCvars
  /\ WF_upgradeVars(scenario = "upgrade" /\ (Respawn))
  /\ WF_upgradeVars(scenario = "upgrade" /\ (Runner(1)))
  /\ SF_upgradeVars(scenario = "upgrade" /\ (PollCheck(1)))
  /\ SF_upgradeVars(scenario = "upgrade" /\ (PollRead(1)))
  /\ WF_upgradeVars(scenario = "upgrades" /\ (V!Runner(1)))
  /\ SF_upgradeVars(scenario = "upgrades" /\ (V!PollCheck(1)))
  /\ SF_upgradeVars(scenario = "upgrades" /\ (V!PollRead(1)))
-----------------------------------------------------------------------------
EveryButtonAnswers == A!EveryButtonAnswers
AnswersAreInformed == A!AnswersAreInformed
=============================================================================

------------------------------ MODULE MCQueue ------------------------------
(***************************************************************************)
(* SubmissionQueue with inputs on their sessions' actors, Interactions with *)
(* two server requests over two turns, and ThreadWork with a compaction, a *)
(* goal and the inputs of one session.                                     *)
(***************************************************************************)
EXTENDS Integers, Sequences, SubmissionQueue

VARIABLES scenario,
  pend, i_sub, active, i_wire, srv, srvTurn, shown, alive, disp, click,
  fail, i_panicked, presses, repeats, sendErrors, w_sess, subs, bound,
  noted, w_shown, notices, worker, handler, lane, goal, running, requests,
  w_alive, commands, w_turns, w_failures

CONSTANTS r1, r2   \* request ids

I == INSTANCE Interactions WITH
       Requests <- {r1, r2}, MaxTurns <- 2, MaxPresses <- 1,
       MaxRepeats <- 0, MaxSendErrors <- 0, sub <- i_sub, wire <- i_wire,
       panicked <- i_panicked

W == INSTANCE ThreadWork WITH
       Workers <- {1}, Kinds <- {"compact"}, Objectives <- {"a", "b"},
       MaxCommands <- 1, MaxInputs <- 2, MaxTurns <- 3, MaxFailures <- 1,
       MaxDeaths <- 0, DeathLast <- TRUE, sess <- w_sess, shown <- w_shown,
       alive <- w_alive, turns <- w_turns, failures <- w_failures

X == INSTANCE ThreadWork WITH
       Workers <- {1}, Kinds <- {"compact"}, Objectives <- {"a", "b"},
       MaxCommands <- 1, MaxInputs <- 0, MaxTurns <- 3, MaxFailures <- 1,
       MaxDeaths <- 1, DeathLast <- TRUE, sess <- w_sess, shown <- w_shown,
       alive <- w_alive, turns <- w_turns, failures <- w_failures

G == INSTANCE ThreadWork WITH
       Workers <- {1},
       Kinds <- {"pause", "propose", "clear", "edit", "status", "resume"},
       Objectives <- {"a", "b"}, MaxCommands <- 3, MaxInputs <- 0,
       MaxTurns <- 1, MaxFailures <- 0, MaxDeaths <- 0, DeathLast <- TRUE,
       sess <- w_sess, shown <- w_shown, alive <- w_alive, turns <- w_turns,
       failures <- w_failures

O == INSTANCE ThreadWork WITH
       Workers <- {1}, Kinds <- {"propose"}, Objectives <- {"a", "b"},
       MaxCommands <- 1, MaxInputs <- 1, MaxTurns <- 2, MaxFailures <- 1,
       MaxDeaths <- 1, DeathLast <- TRUE, sess <- w_sess, shown <- w_shown,
       alive <- w_alive, turns <- w_turns, failures <- w_failures

varsI == <<pend, i_sub, active, i_wire, srv, srvTurn, shown, alive, disp, click,
    fail, i_panicked, presses, repeats, sendErrors>>
varsW == <<w_sess, subs, bound, noted, w_shown, notices, worker, handler, lane,
    goal, running, requests, w_alive, commands, w_turns, w_failures>>
MCvars == <<scenario, vars, varsI, varsW>>

MCInit ==
  /\ scenario \in {"inputs", "answers", "compaction", "death", "goals", "continuation"}
  /\ Init
  /\ I!RequestsInit
  /\ IF scenario = "death" THEN X!Init
     ELSE IF scenario = "goals" THEN G!Init
     ELSE IF scenario = "continuation" THEN O!Init
     ELSE W!Init

InputsScenario ==
  /\ scenario = "inputs" /\ Next
  /\ UNCHANGED <<scenario, varsI, varsW>>

AnswersScenario ==
  /\ scenario = "answers" /\ I!RequestsNext
  /\ UNCHANGED <<scenario, vars, varsW>>

CompactionScenario ==
  /\ scenario = "compaction" /\ W!Next
  /\ UNCHANGED <<scenario, vars, varsI>>

DeathScenario ==
  /\ scenario = "death" /\ X!Next
  /\ UNCHANGED <<scenario, vars, varsI>>

GoalsScenario ==
  /\ scenario = "goals" /\ G!Next
  /\ UNCHANGED <<scenario, vars, varsI>>

ContinuationScenario ==
  /\ scenario = "continuation" /\ O!Next
  /\ UNCHANGED <<scenario, vars, varsI>>

MCNext ==
  \/ InputsScenario
  \/ AnswersScenario
  \/ CompactionScenario
  \/ DeathScenario
  \/ GoalsScenario
  \/ ContinuationScenario

MCSpec ==
  /\ MCInit /\ [][MCNext]_MCvars
  /\ \A p \in Procs : WF_vars(scenario = "inputs" /\ (Step(p)))
  /\ \A s \in Sessions : SF_vars(scenario = "inputs" /\ (StartNextSubmissionAsync(s)))
  /\ SF_vars(scenario = "inputs" /\ (DispatchEvent))
  /\ WF_vars(scenario = "inputs" /\ (TurnStarted))
  /\ WF_vars(scenario = "inputs" /\ (\E c \in inbox : ServerStartsTurn(c) \/ ServerRejects(c)))
  /\ WF_vars(scenario = "inputs" /\ (\E t \in DOMAIN turns : ServerCompletesTurn(t)))
  /\ WF_varsI(scenario = "answers" /\ (~i_panicked /\ I!Dispatcher))
  /\ WF_varsI(scenario = "answers" /\ (~i_panicked /\ I!Clicker))
  /\ WF_varsI(scenario = "answers" /\ (~i_panicked /\ I!Failer))
  /\ \A r \in {r1, r2} : WF_varsI(scenario = "answers" /\ (~i_panicked /\ srv[r].state = "answered" /\ I!ServerResolves(r)))
-----------------------------------------------------------------------------
AnswersResume == I!AnswersResume
ThreadSettles == 
  /\ (scenario = "compaction" => W!ThreadSettles)
  /\ (scenario = "death" => X!ThreadSettles)
  /\ (scenario = "goals" => G!ThreadSettles)
  /\ (scenario = "continuation" => O!ThreadSettles)
=============================================================================

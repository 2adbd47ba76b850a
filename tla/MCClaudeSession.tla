------------------------------ MODULE MCClaudeSession ------------------------------
(***************************************************************************)
(* ClaudeSession with turns and steers over a full event channel, and with *)
(* control and interactive requests around the end of the session.         *)
(***************************************************************************)
EXTENDS Integers, Sequences, ClaudeSession

VARIABLES scenario,
  r_life, r_table, r_cli, r_stdout, r_pipe, r_reader, r_events, r_rlock,
  r_ctl, r_ask, r_stopper, r_hist

R == INSTANCE ClaudeSession WITH
       Ctls <- {"c1"}, Asks <- {"q1"}, MaxTurns <- 0, MaxSteers <- 0,
       Chatter <- {"long"}, MaxChatter <- 2, EventBuffer <- 1,
       life <- r_life, table <- r_table, cli <- r_cli, stdout <- r_stdout,
       pipe <- r_pipe, reader <- r_reader, events <- r_events,
       rlock <- r_rlock, ctl <- r_ctl, ask <- r_ask, stopper <- r_stopper,
       hist <- r_hist

varsR == <<r_life, r_table, r_cli, r_stdout, r_pipe, r_reader, r_events, r_rlock,
    r_ctl, r_ask, r_stopper, r_hist>>
MCvars == <<scenario, vars, varsR>>

MCInit ==
  /\ scenario \in {"turns", "requests"}
  /\ Init
  /\ R!Init

TurnsScenario ==
  /\ scenario = "turns" /\ Next
  /\ UNCHANGED <<scenario, varsR>>

RequestsScenario ==
  /\ scenario = "requests" /\ R!Next
  /\ UNCHANGED <<scenario, vars>>

MCNext ==
  \/ TurnsScenario
  \/ RequestsScenario

MCSpec ==
  /\ MCInit /\ [][MCNext]_MCvars
  /\ WF_vars(scenario = "turns" /\ (ReaderStep))
  /\ WF_vars(scenario = "turns" /\ (WaitLoop))
  /\ WF_vars(scenario = "turns" /\ (Consume))
  /\ WF_vars(scenario = "turns" /\ (StopWait \/ StopClose))
  /\ WF_vars(scenario = "turns" /\ (CliReads \/ CliResult))
  /\ WF_varsR(scenario = "requests" /\ (R!ReaderStep))
  /\ WF_varsR(scenario = "requests" /\ (R!WaitLoop))
  /\ WF_varsR(scenario = "requests" /\ (R!Consume))
  /\ WF_varsR(scenario = "requests" /\ (R!StopWait \/ R!StopClose))
  /\ WF_varsR(scenario = "requests" /\ (R!CliReads \/ R!CliResult))
  /\ WF_varsR(scenario = "requests" /\ (R!CtlWrite("c1") \/ R!CtlReturn("c1")))
  /\ WF_varsR(scenario = "requests" /\ (R!CliResponds("c1")))
  /\ WF_varsR(scenario = "requests" /\ (R!AskStep("q1")))
-----------------------------------------------------------------------------
\* SessionReleases in the scenario "requests".
NothingOutlives == R!SessionReleases
=============================================================================

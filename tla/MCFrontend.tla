------------------------------ MODULE MCFrontend ------------------------------
(***************************************************************************)
(* The path of a message to its workspace: GroupRouting with two bots and  *)
(* two assignments, and with copies of a forward, a reply and a control    *)
(* text, GroupBindings, WorkspaceLifecycle and WorkspaceCreation for a     *)
(* clone in a private chat and a worktree in a group, SubmissionQueue when *)
(* a completion is reconciled while the next turn starts, and when two     *)
(* chats share one thread.                                                 *)
(***************************************************************************)
EXTENDS Integers, Sequences, GroupRouting, WorkspaceLifecycle, WorkspaceCreation

VARIABLES scenario,
  r_sent, r_copies, r_members, r_queue, r_primary, r_init, r_run,
  r_inflight, r_done, r_answered, r_applied, r_faults, b_binding, inbox,
  chat, forward, b_card, replays, replay, completed, enqueued, b_count,
  stored, recalled, replayed, sess, sub, starts, actor, wake, pending,
  bindings, loc, inputs, created, failures, q_inbox, resp, turns, wire,
  outcome, panicked, h_sess, h_sub, h_starts, h_actor, h_wake, h_pending,
  h_bindings, h_loc, h_inputs, h_created, h_failures, h_inbox, h_resp,
  h_turns, h_wire, h_outcome, h_panicked, now, started, f_profile, lastTry,
  seen, handed, f_count, forest, missing, expanded

Received ==
  <<[user |-> "u", type |-> "merge", group |-> FALSE, mentions |-> {}, bare |-> FALSE,
     valid |-> TRUE, ids |-> <<1, 2>>],
    [user |-> "u", type |-> "text", group |-> TRUE, mentions |-> {7}, bare |-> TRUE,
     valid |-> FALSE, ids |-> <<>>]>>
Content(kind, ids) == [kind |-> kind, ids |-> ids]
Contained ==
  {Content("text", <<>>)} \cup
  {Content("merge", ids) : ids \in {<<2, 3>>, <<3, 1>>, <<3, 3>>}}
Msg(kind, to, root) == [kind |-> kind, to |-> to, root |-> root]
ToTwo == <<Msg("assign", 1, 0), Msg("assign", 2, 0)>>
Numbers == [m \in 1 .. 2 |-> m]
ForwardReplyControl ==
  <<Msg("forward", 0, 0), Msg("reply", 0, 1), Msg("control", 0, 0)>>

R == INSTANCE GroupRouting WITH
       Bots <- {1}, Messages <- ForwardReplyControl,
       CreatedAt <- [m \in 1 .. 3 |-> m], Configured <- {1}, MaxCopies <- 2,
       MaxUnknown <- 1, MaxErrors <- 1, DedupCap <- 9, sent <- r_sent,
       copies <- r_copies, members <- r_members, queue <- r_queue,
       primary <- r_primary, init <- r_init, run <- r_run,
       inflight <- r_inflight, done <- r_done, answered <- r_answered,
       applied <- r_applied, faults <- r_faults

B == INSTANCE GroupBindings WITH
       Messages <- <<1, 2>>, MaxSelections <- 2, MaxSettings <- 1,
       MaxFailures <- 1, MaxCrashes <- 1, binding <- b_binding,
       card <- b_card, count <- b_count

G == INSTANCE WorkspaceCreation WITH
       Kind <- "worktree", InGroup <- TRUE, Targets <- {1, 2},
       MaxClicks <- 4, MaxWorkers <- 2, MaxFaults <- 1, MaxRestarts <- 1

Q == INSTANCE SubmissionQueue WITH
       Sessions <- {"a", "b"}, Serial <- FALSE, MaxSubs <- 4,
       MaxFailures <- 0, ChatInputs <- FALSE, ActorInputs <- TRUE,
       Reconciles <- TRUE, inbox <- q_inbox

H == INSTANCE SubmissionQueue WITH
       Sessions <- {"a", "b"}, Serial <- TRUE, MaxSubs <- 3,
       MaxFailures <- 0, ChatInputs <- TRUE, ActorInputs <- FALSE,
       Reconciles <- TRUE, sess <- h_sess, sub <- h_sub, starts <- h_starts,
       actor <- h_actor, wake <- h_wake, pending <- h_pending,
       bindings <- h_bindings, loc <- h_loc, inputs <- h_inputs,
       created <- h_created, failures <- h_failures, inbox <- h_inbox,
       resp <- h_resp, turns <- h_turns, wire <- h_wire,
       outcome <- h_outcome, panicked <- h_panicked

F == INSTANCE FeishuInbound WITH
       Messages <- Received, Allowed <- {"u"}, Self <- 7, Window <- 0,
       Retry <- 1, MaxDepth <- 2, Stored <- 1 .. 3, Contents <- Contained,
       MaxTime <- 1, MaxDeliveries <- 2, profile <- f_profile,
       count <- f_count

varsR == <<r_sent, r_copies, r_members, r_queue, r_primary, r_init, r_run,
    r_inflight, r_done, r_answered, r_applied, r_faults>>
varsB == <<b_binding, inbox, chat, forward, b_card, replays, replay, completed,
    enqueued, b_count, stored, recalled, replayed>>
varsQ == <<sess, sub, starts, actor, wake, pending, bindings, loc, inputs, created,
    failures, q_inbox, resp, turns, wire, outcome, panicked>>
varsH == <<h_sess, h_sub, h_starts, h_actor, h_wake, h_pending, h_bindings, h_loc,
    h_inputs, h_created, h_failures, h_inbox, h_resp, h_turns, h_wire,
    h_outcome, h_panicked>>
varsF == <<now, started, f_profile, lastTry, seen, handed, f_count, forest,
    missing, expanded>>
MCvars == <<scenario, vars, varsR, varsB, lifecycleVars, creationVars, varsQ, varsH,
    varsF>>

MCInit ==
  /\ scenario \in {"assignments", "replies", "bindings", "workspaces", "clone", "worktree",
    "reconcile", "shared", "forwards"}
  /\ Init /\ (scenario # "assignments" => members = {1})
  /\ R!Init /\ (scenario # "replies" => r_members = {1})
  /\ B!Init
  /\ LifecycleInit
  /\ IF scenario = "worktree" THEN G!CreationInit
     ELSE CreationInit
  /\ Q!Init
  /\ H!Init
  /\ F!Init /\ (scenario # "forwards" => missing = {} /\ forest = [s \in 1 .. 3 |-> Content("text", <<>>)])

AssignmentsScenario ==
  /\ scenario = "assignments" /\ Next
  /\ UNCHANGED <<scenario, varsR, varsB, lifecycleVars, creationVars, varsQ, varsH, varsF>>

RepliesScenario ==
  /\ scenario = "replies" /\ R!Next
  /\ UNCHANGED <<scenario, vars, varsB, lifecycleVars, creationVars, varsQ, varsH, varsF>>

BindingsScenario ==
  /\ scenario = "bindings" /\ B!Next
  /\ UNCHANGED <<scenario, vars, varsR, lifecycleVars, creationVars, varsQ, varsH, varsF>>

WorkspacesScenario ==
  /\ scenario = "workspaces" /\ LifecycleNext
  /\ UNCHANGED <<scenario, vars, varsR, varsB, creationVars, varsQ, varsH, varsF>>

CloneScenario ==
  /\ scenario = "clone" /\ CreationNext
  /\ UNCHANGED <<scenario, vars, varsR, varsB, lifecycleVars, varsQ, varsH, varsF>>

WorktreeScenario ==
  /\ scenario = "worktree" /\ G!CreationNext
  /\ UNCHANGED <<scenario, vars, varsR, varsB, lifecycleVars, varsQ, varsH, varsF>>

ReconcileScenario ==
  /\ scenario = "reconcile" /\ Q!Next
  /\ UNCHANGED <<scenario, vars, varsR, varsB, lifecycleVars, creationVars, varsH, varsF>>

SharedScenario ==
  /\ scenario = "shared" /\ H!Next
  /\ UNCHANGED <<scenario, vars, varsR, varsB, lifecycleVars, creationVars, varsQ, varsF>>

ForwardsScenario ==
  /\ scenario = "forwards" /\ F!Next
  /\ UNCHANGED <<scenario, vars, varsR, varsB, lifecycleVars, creationVars, varsQ, varsH>>

MCNext ==
  \/ AssignmentsScenario
  \/ RepliesScenario
  \/ BindingsScenario
  \/ WorkspacesScenario
  \/ CloneScenario
  \/ WorktreeScenario
  \/ ReconcileScenario
  \/ SharedScenario
  \/ ForwardsScenario

MCSpec ==
  /\ MCInit /\ [][MCNext]_MCvars
-----------------------------------------------------------------------------
StoredIsReplayed == B!StoredIsReplayed
OwnCompletion == Q!OwnCompletion
ForwardsExpanded == F!ForwardsExpanded
=============================================================================

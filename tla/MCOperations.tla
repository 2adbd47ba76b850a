------------------------------ MODULE MCOperations ------------------------------
(***************************************************************************)
(* SessionActors; AutoRetry with two inputs and two stops; StateStore with *)
(* the session keys of an older version and two frontends whose names are  *)
(* sanitized to one; ModelSettings; FeishuApi with two created messages and *)
(* two patches of one, and with a message, a reply, and a reaction added   *)
(* and removed while the token changes; ToolCalls; and SharedFiles with two *)
(* jobs at once, with a download, and with a text of four links.           *)
(***************************************************************************)
EXTENDS Integers, Sequences, SessionActors, AutoRetry, StateStore, FeishuApi, ToolCalls, SharedFiles

VARIABLES scenario,
  backend, group, config, options, profile, binding, session, handlers,
  blocked, n_turn, saved, mode, applies, changes, n_failures

To(name, t) == [label |-> name, target |-> t]
Texts ==
  [j \in {"text", "file", "mixed"} |->
     CASE j = "text" -> <<To("x", 1), To("y", 1)>>
       [] j = "file" -> <<To("x", 2)>>
       [] OTHER -> <<To("x", 3), To("y", 4), To("z", 4), To("x", 1)>>]
Local == <<"regular", "regular", "empty">>
Sharing == <<"user", "chat">>
SessionsOfCallers == <<"a", "b", "c">>
\* The jobs of a scenario; the others are never begun.
OnlyJobs(some) ==
  \A j \in Jobs \ some : stage'[j] = "idle" /\ (j \in Downloads => form'[j] = "none")
OneMessage == <<1, 1, 1, 1>>
PacedCalls == <<"patch", "patch", "create", "create">>
ReactionCalls == <<"create", "react", "unreact", "reply">>
OneID == [f \in {"f", "g"} |-> "_"]
NoSessions == [k \in {} |-> "none"]
FileOf(ss, rec) ==
  [sessions |-> ss, records |-> rec, profiles |-> NoSessions,
   notes |-> [f \in {"f", "g"} |-> <<>>]]
OldSession(thread, name, backends, when) ==
  [thread |-> thread, name |-> name, plan |-> "none",
   backends |-> [b \in backends |-> thread], queue |-> <<>>, turn |-> "none", at |-> when]
OldKey(f, topic) == [f |-> f, chat |-> "c", topic |-> topic]
OldSessions ==
  [k \in {OldKey("f", "t"), OldKey("f", "u"), OldKey("f", "none"), OldKey("none", "none")} |->
     CASE k.topic = "t" -> OldSession("x", "none", {"codex"}, 1)
       [] k.topic = "u" -> OldSession("none", "y", {}, 2)
       [] k.f = "f" /\ k.topic = "none" -> OldSession("y", "x", {"claude"}, 0)
       [] OTHER -> OldSession("x", "none", {}, 2)]
StateFiles ==
  {FileOf(NoSessions, NoSessions),
   FileOf(OldSessions, [id \in {<<"_", "c">>} |->
     [f |-> "f", chat |-> "c", value |-> "x", waiting |-> <<OldKey("none", "none"), OldKey("f", "t")>>]])}

N == INSTANCE ModelSettings WITH
       Backends <- {"codex", "claude"}, MaxChanges <- 2, MaxFailures <- 1,
       turn <- n_turn, failures <- n_failures

P == INSTANCE FeishuApi WITH
       Kind <- PacedCalls, MaxTime <- 3, MaxRotations <- 0, MaxTimeouts <- 0

varsN == <<backend, group, config, options, profile, binding, session, handlers,
    blocked, n_turn, saved, mode, applies, changes, n_failures>>
MCvars == <<scenario, vars, retryVars, storeVars, varsN, apiVars, toolVars,
    filesVars>>

MCInit ==
  /\ scenario \in {"actors", "retries", "store", "models", "reactions", "patches", "tools",
    "stores", "downloads", "links"}
  /\ Init
  /\ RetryInit
  /\ StoreInit /\ (scenario # "store" => disk.sessions = NoSessions)
  /\ N!Init /\ (scenario # "models" => backend = "codex" /\ ~group)
  /\ IF scenario = "patches" THEN P!ApiInit
     ELSE ApiInit /\ (scenario # "reactions" => cache = 0)
  /\ ToolInit
  /\ FilesInit

ActorsScenario ==
  /\ scenario = "actors" /\ Next
  /\ UNCHANGED <<scenario, retryVars, storeVars, varsN, apiVars, toolVars, filesVars>>

RetriesScenario ==
  /\ scenario = "retries" /\ RetryNext
  /\ UNCHANGED <<scenario, vars, storeVars, varsN, apiVars, toolVars, filesVars>>

StoreScenario ==
  /\ scenario = "store" /\ StoreNext
  /\ UNCHANGED <<scenario, vars, retryVars, varsN, apiVars, toolVars, filesVars>>

ModelsScenario ==
  /\ scenario = "models" /\ N!Next
  /\ UNCHANGED <<scenario, vars, retryVars, storeVars, apiVars, toolVars, filesVars>>

ReactionsScenario ==
  /\ scenario = "reactions" /\ ApiNext
  /\ UNCHANGED <<scenario, vars, retryVars, storeVars, varsN, toolVars, filesVars>>

PatchesScenario ==
  /\ scenario = "patches" /\ P!ApiNext
  /\ UNCHANGED <<scenario, vars, retryVars, storeVars, varsN, toolVars, filesVars>>

ToolsScenario ==
  /\ scenario = "tools" /\ ToolNext
  /\ UNCHANGED <<scenario, vars, retryVars, storeVars, varsN, apiVars, filesVars>>

StoresScenario ==
  /\ scenario = "stores" /\ FilesNext /\ OnlyJobs({"text", "file"}) /\ faults' = 0 /\ reboots' = 0
  /\ UNCHANGED <<scenario, vars, retryVars, storeVars, varsN, apiVars, toolVars>>

DownloadsScenario ==
  /\ scenario = "downloads" /\ FilesNext /\ OnlyJobs({"file"})
  /\ UNCHANGED <<scenario, vars, retryVars, storeVars, varsN, apiVars, toolVars>>

LinksScenario ==
  /\ scenario = "links" /\ FilesNext /\ OnlyJobs({"mixed"}) /\ faults' <= 1
  /\ UNCHANGED <<scenario, vars, retryVars, storeVars, varsN, apiVars, toolVars>>

MCNext ==
  \/ ActorsScenario
  \/ RetriesScenario
  \/ StoreScenario
  \/ ModelsScenario
  \/ ReactionsScenario
  \/ PatchesScenario
  \/ ToolsScenario
  \/ StoresScenario
  \/ DownloadsScenario
  \/ LinksScenario

MCSpec ==
  /\ MCInit /\ [][MCNext]_MCvars
-----------------------------------------------------------------------------
SettingPersists == N!SettingPersists
=============================================================================

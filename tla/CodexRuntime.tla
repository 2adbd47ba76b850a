----------------------------- MODULE CodexRuntime -----------------------------
(***************************************************************************)
(* The Codex process of one frontend and the three operations that replace *)
(* it: transport recovery, the restart or upgrade of the CLI, and the      *)
(* switch of the backend.  They share RecoveryState, whose methods are     *)
(* atomic, and otherwise run on goroutines of their own:                   *)
(*   - rec[c]: RecoverAfterTransportFailure for the failed client c;       *)
(*   - ref: the maintenance operation and RefreshRuntimeAfterMaintenance;  *)
(*   - sw: Switch, one at a time under LockSwitch.                         *)
(* Every operation is cut where it reads or writes shared state or starts  *)
(* a process.  One session stands for all: whether it has a queued message *)
(* and whether a start of its next submission is pending on its actor.     *)
(* What the CLI installs, sessions rewritten by a switch and the work that *)
(* FailActiveWork ends (see Interactions) are left out; a start that fails *)
(* has closed its process (see CodexClient).                               *)
(***************************************************************************)
EXTENDS Naturals

CONSTANTS MaxClients,   \* processes started, the first one included
          MaxRestarts,  \* restarts or upgrades the users ask for
          MaxSwitches,  \* backend switches the users ask for
          MaxMessages,  \* messages that enqueue a submission
          MaxDeaths     \* processes that die by themselves

ASSUME RuntimeBounds ==
  /\ MaxClients \in Nat \ {0}
  /\ MaxRestarts \in Nat /\ MaxSwitches \in Nat
  /\ MaxMessages \in Nat /\ MaxDeaths \in Nat

Clients == 1 .. MaxClients
NoClient == 0
Backends == {"codex", "claude"}

VARIABLES
  proc,        \* proc[c]: the client's process and connection
  told,        \* clients whose errorOnce has called the error handler
  slot,        \* RecoveryState.client
  recovering,  \* RecoveryState.recovering
  source,      \* RecoveryState.recoverySource
  backend,     \* FrontendOwner's backend
  switching,   \* BackendTransition.switching
  restoring,   \* StartupRecovery's RecoveryMu and the auto-thread scope
  rec, ref, sw,
  queued,      \* the session's queue has a submission
  start,       \* StartNextSubmission is pending on the session's actor
  lost,        \* history: the last recovery did not install its client
  displaced,   \* history: clients replaced by someone who had not read them
  unheard,     \* history: clients whose failure was not acted on
  overlap,     \* history: a switch and a maintenance operation overlapped
  wedged,      \* history: the process of a replaced client was not killed
  restarts, switches, messages, deaths

state == <<slot, recovering, source>>
work == <<queued, start>>
history == <<lost, displaced, unheard, overlap, wedged>>
bounds == <<restarts, switches, messages, deaths>>
vars == <<proc, told, state, backend, switching, restoring, rec, ref, sw,
          work, history, bounds>>

NoRecovery == [at |-> "none", next |-> NoClient, skip |-> FALSE]
NoRefresh == [at |-> "idle", next |-> NoClient, old |-> NoClient]
NoSwitch == [at |-> "idle", next |-> NoClient, old |-> NoClient, target |-> "codex"]

\* The frontend is prepared: its configured client runs.
Init ==
  /\ proc = [c \in Clients |-> IF c = 1 THEN "up" ELSE "unborn"]
  /\ told = {}
  /\ slot = 1 /\ recovering = FALSE /\ source = NoClient
  /\ backend = "codex" /\ switching = FALSE /\ restoring = "free"
  /\ rec = [c \in Clients |-> NoRecovery]
  /\ ref = NoRefresh /\ sw = NoSwitch
  /\ queued = FALSE /\ start = FALSE
  /\ lost = FALSE /\ displaced = {} /\ unheard = {}
  /\ overlap = FALSE /\ wedged = FALSE
  /\ restarts = 0 /\ switches = 0 /\ messages = 0 /\ deaths = 0

\* The next process to start, if the bound leaves one.
Fresh == {c \in Clients : proc[c] = "unborn" /\ \A d \in 1 .. c - 1 : proc[d] # "unborn"}
Launched(c) == [proc EXCEPT ![c] = "up"]
CloseClient(c) == IF c = NoClient THEN proc ELSE [proc EXCEPT ![c] = "closed"]

MaintenanceActive == ref.at \notin {"idle", "admitted"}
RecoveryRuns(c) == rec[c].at \in {"start", "complete"}

(***************************************************************************)
(* The transport (external) and its error handler.                         *)
(***************************************************************************)

ClientDies(c) ==
  /\ proc[c] = "up" /\ deaths < MaxDeaths
  /\ proc' = [proc EXCEPT ![c] = "down"]
  /\ deaths' = deaths + 1
  /\ UNCHANGED <<told, state, backend, switching, restoring, rec, ref, sw, work,
                 history, restarts, switches, messages>>

\* Mutant of BeginRecovery: a failure starts a recovery although one runs.
BeginRecoveryAlways(c) == backend = "codex" /\ (recovering \/ slot = c)

\* The test of BeginRecovery, under RecoveryState.mu.
BeginRecovery(c) == backend = "codex" /\ ~recovering /\ slot = c

\* The client's error handler, called once: by the reader of a dead process,
\* or by a write that passed send's check before Close closed the pipe; the
\* report of a closed client can matter only while that client is installed.
\* skip is read right after BeginRecovery, before any other step of it.
HandleTransportFailure(c) ==
  /\ proc[c] = "down" \/ (proc[c] = "closed" /\ slot = c)
  /\ c \notin told
  /\ told' = told \cup {c}
  /\ \/ /\ BeginRecovery(c)
        /\ recovering' = TRUE /\ source' = c /\ slot' = NoClient
        /\ rec' = [rec EXCEPT ![c] = [at |-> "start", next |-> NoClient,
                                      skip |-> restoring = "auto"]]
        /\ lost' = FALSE
        /\ UNCHANGED unheard
     \/ /\ ~BeginRecovery(c)
        /\ unheard' = IF backend # "codex" \/ slot # c \/ \E d \in Clients : RecoveryRuns(d)
                      THEN unheard \cup {c} ELSE unheard
        /\ UNCHANGED <<state, rec, lost>>
  /\ UNCHANGED <<proc, backend, switching, restoring, ref, sw, work, displaced,
                 overlap, wedged, bounds>>

(***************************************************************************)
(* RecoverAfterTransportFailure.                                           *)
(***************************************************************************)

RecoverStart(c) ==
  /\ rec[c].at = "start"
  /\ \E n \in Fresh : /\ proc' = Launched(n)
                      /\ rec' = [rec EXCEPT ![c].at = "complete", ![c].next = n]
  /\ UNCHANGED <<told, state, backend, switching, restoring, ref, sw, work,
                 history, bounds>>

\* CompleteRecovery's test: the recovery may set the client.
MayInstall == backend = "codex" /\ slot \in {NoClient, source}

\* Mutant of RecoverStartFails: the error is logged and nothing else.
RecoverStartAbandoned(c) ==
  /\ rec[c].at = "start"
  /\ lost' = TRUE
  /\ rec' = [rec EXCEPT ![c].at = "close"]
  /\ UNCHANGED <<proc, told, state, backend, switching, restoring, ref, sw, work,
                 displaced, unheard, overlap, wedged, bounds>>

\* The client does not start within 30 seconds: CompleteRecovery(nil).
RecoverStartFails(c) ==
  /\ rec[c].at = "start"
  /\ recovering' = FALSE /\ source' = NoClient
  /\ slot' = IF MayInstall THEN NoClient ELSE slot
  /\ lost' = TRUE
  /\ rec' = [rec EXCEPT ![c].at = "close"]
  /\ UNCHANGED <<proc, told, backend, switching, restoring, ref, sw, work,
                 displaced, unheard, overlap, wedged, bounds>>

\* Mutant of CompleteRecovery: the backend is not asked for again.
CompleteRecoveryBlind(c) ==
  /\ rec[c].at = "complete"
  /\ recovering' = FALSE /\ source' = NoClient
  /\ slot' = IF slot \in {NoClient, source} THEN rec[c].next ELSE slot
  /\ rec' = [rec EXCEPT ![c].at = IF slot \in {NoClient, source} THEN "restore" ELSE "lose"]
  /\ lost' = (slot \notin {NoClient, source})
  /\ UNCHANGED <<proc, told, backend, switching, restoring, ref, sw, work,
                 displaced, unheard, overlap, wedged, bounds>>

CompleteRecovery(c) ==
  /\ rec[c].at = "complete"
  /\ recovering' = FALSE /\ source' = NoClient
  /\ slot' = IF MayInstall THEN rec[c].next ELSE slot
  /\ rec' = [rec EXCEPT ![c].next = IF MayInstall THEN NoClient ELSE @,
                        ![c].at = IF ~MayInstall THEN "lose"
                                  ELSE IF rec[c].skip THEN "resume" ELSE "restore"]
  /\ lost' = ~MayInstall
  /\ UNCHANGED <<proc, told, backend, switching, restoring, ref, sw, work,
                 displaced, unheard, overlap, wedged, bounds>>

\* Mutant of RecoverLose: the client that was not installed is kept.
RecoverLoseOpen(c) ==
  /\ rec[c].at = "lose"
  /\ rec' = [rec EXCEPT ![c].at = "close"]
  /\ UNCHANGED <<proc, told, state, backend, switching, restoring, ref, sw, work,
                 history, bounds>>

RecoverLose(c) ==
  /\ rec[c].at = "lose"
  /\ proc' = CloseClient(rec[c].next)
  /\ rec' = [rec EXCEPT ![c].at = "close"]
  /\ UNCHANGED <<told, state, backend, switching, restoring, ref, sw, work,
                 history, bounds>>

\* RecoverFrontendRuntimeState takes RecoveryMu; the Codex scope is open
\* exactly while it resumes threads.
Restoring == IF backend = "codex" THEN "auto" ELSE "locked"

RecoverRestore(c) ==
  /\ rec[c].at = "restore" /\ restoring = "free"
  /\ restoring' = Restoring
  /\ rec' = [rec EXCEPT ![c].at = "restoring"]
  /\ UNCHANGED <<proc, told, state, backend, switching, ref, sw, work, history, bounds>>

RecoverRestored(c) ==
  /\ rec[c].at = "restoring"
  /\ restoring' = "free"
  /\ rec' = [rec EXCEPT ![c].at = "resume"]
  /\ UNCHANGED <<proc, told, state, backend, switching, ref, sw, work, history, bounds>>

\* Mutant of ResumeQueuedSessions: nothing is resumed when the frontend's
\* threads are left to the restore that was running.
ResumeUnlessSkipped(c) ==
  /\ rec[c].at = "resume"
  /\ start' = (start \/ (queued /\ ~rec[c].skip))
  /\ rec' = [rec EXCEPT ![c].at = "close"]
  /\ UNCHANGED <<proc, told, state, backend, switching, restoring, ref, sw, queued,
                 history, bounds>>

ResumeQueuedSessions(c) ==
  /\ rec[c].at = "resume"
  /\ start' = (start \/ queued)
  /\ rec' = [rec EXCEPT ![c].at = "close"]
  /\ UNCHANGED <<proc, told, state, backend, switching, restoring, ref, sw, queued,
                 history, bounds>>

\* The deferred Close of the failed client.
RecoverClose(c) ==
  /\ rec[c].at = "close"
  /\ proc' = CloseClient(c)
  /\ rec' = [rec EXCEPT ![c] = [NoRecovery EXCEPT !.at = "done"]]
  /\ UNCHANGED <<told, state, backend, switching, restoring, ref, sw, work,
                 history, bounds>>

(***************************************************************************)
(* Restart and upgrade of the CLI.                                         *)
(***************************************************************************)

\* The command or card passes the gate of the backend switch.
RestartAdmit ==
  /\ ref.at = "idle" /\ restarts < MaxRestarts /\ ~switching
  /\ ref' = [ref EXCEPT !.at = "admitted"]
  /\ restarts' = restarts + 1
  /\ UNCHANGED <<proc, told, state, backend, switching, restoring, rec, sw, work,
                 history, switches, messages, deaths>>

\* BeginRestart or BeginUpgrade: the tracker runs from here on.
RestartBegin ==
  /\ ref.at = "admitted"
  /\ ref' = [ref EXCEPT !.at = "run"]
  /\ overlap' = (overlap \/ sw.at # "idle")
  /\ UNCHANGED <<proc, told, state, backend, switching, restoring, rec, sw, work,
                 lost, displaced, unheard, wedged, bounds>>

\* Work is running, the probe or the installation fails.
RestartGivesUp ==
  /\ ref.at \in {"admitted", "run"}
  /\ ref' = NoRefresh
  /\ UNCHANGED <<proc, told, state, backend, switching, restoring, rec, sw, work,
                 history, bounds>>

\* With another backend the CLI is only tried out.
RefreshCheck ==
  /\ ref.at = "run"
  /\ ref' = IF backend = "codex" THEN [ref EXCEPT !.at = "start"] ELSE NoRefresh
  /\ UNCHANGED <<proc, told, state, backend, switching, restoring, rec, sw, work,
                 history, bounds>>

RefreshStart ==
  /\ ref.at = "start"
  /\ \/ /\ ref' = NoRefresh
        /\ UNCHANGED proc
     \/ \E n \in Fresh : /\ proc' = Launched(n)
                         /\ ref' = [ref EXCEPT !.at = "read", !.next = n]
  /\ UNCHANGED <<told, state, backend, switching, restoring, rec, sw, work,
                 history, bounds>>

RefreshRead ==
  /\ ref.at = "read"
  /\ ref' = [ref EXCEPT !.old = slot, !.at = IF slot = NoClient THEN "replace" ELSE "close"]
  /\ UNCHANGED <<proc, told, state, backend, switching, restoring, rec, sw, work,
                 history, bounds>>

\* Close fails only when the process could not be killed: the old client is
\* closed and stays where it is.
RefreshClose ==
  /\ ref.at = "close"
  /\ \/ /\ proc' = CloseClient(ref.old)
        /\ ref' = [ref EXCEPT !.at = "replace"]
        /\ UNCHANGED wedged
     \/ /\ proc' = [CloseClient(ref.old) EXCEPT ![ref.next] = "closed"]
        /\ ref' = NoRefresh
        /\ wedged' = TRUE
  /\ UNCHANGED <<told, state, backend, switching, restoring, rec, sw, work, lost,
                 displaced, unheard, overlap, bounds>>

\* Clients that ReplaceClient removes although its caller did not read them.
Displaced(old) == displaced \cup ({slot} \ {old, NoClient})

RefreshReplace ==
  /\ ref.at = "replace"
  /\ slot' = ref.next
  /\ displaced' = Displaced(ref.old)
  /\ ref' = [ref EXCEPT !.at = "restore"]
  /\ UNCHANGED <<proc, told, recovering, source, backend, switching, restoring, rec,
                 sw, work, lost, unheard, overlap, wedged, bounds>>

RefreshRestore ==
  /\ ref.at = "restore" /\ restoring = "free"
  /\ restoring' = Restoring
  /\ ref' = [ref EXCEPT !.at = "restoring"]
  /\ UNCHANGED <<proc, told, state, backend, switching, rec, sw, work, history, bounds>>

RefreshRestored ==
  /\ ref.at = "restoring"
  /\ restoring' = "free"
  /\ ref' = NoRefresh
  /\ UNCHANGED <<proc, told, state, backend, switching, rec, sw, work, history, bounds>>

(***************************************************************************)
(* The switch of the backend.                                              *)
(***************************************************************************)

\* IdleBlockedReason and the early return for a backend that is ready.
SwitchCheck(target) ==
  /\ sw.at = "idle" /\ switches < MaxSwitches
  /\ ~MaintenanceActive /\ ~queued /\ ~start
  /\ ~(backend = target /\ (target = "claude" \/ slot # NoClient))
  /\ sw' = [NoSwitch EXCEPT !.at = "checked", !.target = target]
  /\ switches' = switches + 1
  /\ UNCHANGED <<proc, told, state, backend, switching, restoring, rec, ref, work,
                 history, restarts, messages, deaths>>

SwitchBegin ==
  /\ sw.at = "checked"
  /\ switching' = TRUE
  /\ sw' = [sw EXCEPT !.at = "prepare"]
  /\ overlap' = (overlap \/ ref.at # "idle")
  /\ UNCHANGED <<proc, told, state, backend, restoring, rec, ref, work, lost,
                 displaced, unheard, wedged, bounds>>

\* Prepare builds the target's runtime and starts it.
SwitchPrepare ==
  /\ sw.at = "prepare"
  /\ \/ /\ sw.target = "claude"
        /\ sw' = [sw EXCEPT !.at = "snapshot"]
        /\ UNCHANGED <<proc, switching>>
     \/ /\ sw.target = "codex"
        /\ \E n \in Fresh : /\ proc' = Launched(n)
                            /\ sw' = [sw EXCEPT !.at = "snapshot", !.next = n]
        /\ UNCHANGED switching
     \/ /\ sw.target = "codex"
        /\ sw' = NoSwitch /\ switching' = FALSE
        /\ UNCHANGED proc
  /\ UNCHANGED <<told, state, backend, restoring, rec, ref, work, history, bounds>>

SwitchSnapshot ==
  /\ sw.at = "snapshot"
  /\ sw' = [sw EXCEPT !.at = "commit", !.old = slot]
  /\ UNCHANGED <<proc, told, state, backend, switching, restoring, rec, ref, work,
                 history, bounds>>

\* CommitBackend writes the configuration and the sessions, or conflicts.
SwitchCommit ==
  /\ sw.at = "commit"
  /\ \/ /\ sw' = [sw EXCEPT !.at = "install"]
        /\ UNCHANGED <<proc, switching>>
     \/ /\ proc' = CloseClient(sw.next)
        /\ sw' = NoSwitch /\ switching' = FALSE
  /\ UNCHANGED <<told, state, backend, restoring, rec, ref, work, history, bounds>>

\* Install sets the backend first, the client second.
SwitchSetBackend ==
  /\ sw.at = "install"
  /\ backend' = sw.target
  /\ sw' = [sw EXCEPT !.at = "replace"]
  /\ UNCHANGED <<proc, told, state, switching, restoring, rec, ref, work, history, bounds>>

SwitchReplace ==
  /\ sw.at = "replace"
  /\ slot' = sw.next
  /\ displaced' = Displaced(sw.old)
  /\ sw' = [sw EXCEPT !.at = "restore"]
  /\ UNCHANGED <<proc, told, recovering, source, backend, switching, restoring, rec,
                 ref, work, lost, unheard, overlap, wedged, bounds>>

SwitchRecover ==
  /\ sw.at = "restore" /\ restoring = "free"
  /\ restoring' = Restoring
  /\ sw' = [sw EXCEPT !.at = "restoring"]
  /\ UNCHANGED <<proc, told, state, backend, switching, rec, ref, work, history, bounds>>

SwitchRecovered ==
  /\ sw.at = "restoring"
  /\ restoring' = "free"
  /\ sw' = [sw EXCEPT !.at = "close"]
  /\ UNCHANGED <<proc, told, state, backend, switching, rec, ref, work, history, bounds>>

SwitchClose ==
  /\ sw.at = "close"
  /\ proc' = CloseClient(sw.old)
  /\ switching' = FALSE
  /\ sw' = NoSwitch
  /\ UNCHANGED <<told, state, backend, restoring, rec, ref, work, history, bounds>>

(***************************************************************************)
(* Messages and the queue (see SubmissionQueue for the whole of it).       *)
(***************************************************************************)

\* A message that neither a switch nor maintenance refuses is stored in the
\* queue, and its handler then tries to start it.
Message ==
  /\ messages < MaxMessages /\ ~switching /\ ~MaintenanceActive
  /\ messages' = messages + 1
  /\ queued' = TRUE /\ start' = TRUE
  /\ UNCHANGED <<proc, told, state, backend, switching, restoring, rec, ref, sw,
                 history, restarts, switches, deaths>>

\* The submission stays queued while the Codex runtime recovers; otherwise it
\* is started, or fails for want of a client.
StartNextSubmission ==
  /\ start
  /\ start' = FALSE
  /\ queued' = (queued /\ backend = "codex" /\ recovering)
  /\ UNCHANGED <<proc, told, state, backend, switching, restoring, rec, ref, sw,
                 history, bounds>>

(***************************************************************************)
(* The specification.                                                      *)
(***************************************************************************)

Recovery(c) ==
  \/ RecoverStart(c) \/ RecoverStartFails(c) \/ CompleteRecovery(c) \/ RecoverLose(c)
  \/ RecoverRestore(c) \/ RecoverRestored(c) \/ ResumeQueuedSessions(c) \/ RecoverClose(c)

Refresh ==
  \/ RestartBegin \/ RestartGivesUp \/ RefreshCheck \/ RefreshStart \/ RefreshRead
  \/ RefreshClose \/ RefreshReplace \/ RefreshRestore \/ RefreshRestored

Switch ==
  \/ SwitchBegin \/ SwitchPrepare \/ SwitchSnapshot \/ SwitchCommit \/ SwitchSetBackend
  \/ SwitchReplace \/ SwitchRecover \/ SwitchRecovered \/ SwitchClose

Next ==
  \/ \E c \in Clients : \/ ClientDies(c) \/ HandleTransportFailure(c) \/ Recovery(c)
  \/ RestartAdmit \/ Refresh
  \/ (\E b \in Backends : SwitchCheck(b)) \/ Switch
  \/ Message \/ StartNextSubmission

Spec == Init /\ [][Next]_vars

(***************************************************************************)
(* Properties.                                                             *)
(***************************************************************************)

\* Every variable has its type, and RecoveryState agrees with the goroutines:
\* recovering means that exactly the recovery of source has yet to complete.
MaybeClient == Clients \cup {NoClient}
RecoveryPlaces == {"none", "start", "complete", "lose", "restore", "restoring", "resume",
                   "close", "done"}
RefreshPlaces == {"idle", "admitted", "run", "start", "read", "close", "replace", "restore",
                  "restoring"}
SwitchPlaces == {"idle", "checked", "prepare", "snapshot", "commit", "install", "replace",
                 "restore", "restoring", "close"}
ProcType == proc \in [Clients -> {"unborn", "up", "down", "closed"}]
StateType ==
  /\ slot \in MaybeClient /\ source \in MaybeClient
  /\ recovering \in BOOLEAN /\ switching \in BOOLEAN
  /\ backend \in Backends /\ restoring \in {"free", "auto", "locked"}
RecType == rec \in [Clients -> [at : RecoveryPlaces, next : MaybeClient, skip : BOOLEAN]]
RefType == ref \in [at : RefreshPlaces, next : MaybeClient, old : MaybeClient]
SwType == sw \in [at : SwitchPlaces, next : MaybeClient, old : MaybeClient, target : Backends]
RestType ==
  /\ queued \in BOOLEAN /\ start \in BOOLEAN /\ lost \in BOOLEAN
  /\ told \in SUBSET Clients /\ unheard \in SUBSET Clients /\ displaced \in SUBSET Clients
  /\ overlap \in BOOLEAN /\ wedged \in BOOLEAN
  /\ restarts \in Nat /\ switches \in Nat /\ messages \in Nat /\ deaths \in Nat
Agreement ==
  /\ recovering => source # NoClient
  /\ \A c \in Clients : RecoveryRuns(c) <=> recovering /\ source = c
TypeOK == ProcType /\ StateType /\ RecType /\ RefType /\ SwType /\ RestType /\ Agreement

\* No process is forgotten: a client that runs is installed, or an operation
\* in progress holds it and will install or close it.  The exception is a
\* client that recovery installed between another operation's read of the old
\* client and its ReplaceClient, which drops it unread.
HeldByRecovery(c) == \E d \in Clients : rec[d].next = c /\ rec[d].at \in {"complete", "lose"}
HeldByRefresh(c) ==
  \/ c = ref.next /\ ref.at \in {"read", "close", "replace"}
  \/ c = ref.old /\ ref.at = "close"
HeldBySwitch(c) ==
  \/ c = sw.next /\ sw.at \in {"snapshot", "commit", "install", "replace"}
  \/ c = sw.old /\ sw.at \in {"commit", "install", "replace", "restore", "restoring", "close"}
ClientsAccounted ==
  \A c \in Clients : proc[c] = "up" =>
    c = slot \/ HeldByRecovery(c) \/ HeldByRefresh(c) \/ HeldBySwitch(c) \/ c \in displaced

\* Once all operations have ended, the installed client is not one that was
\* closed (unless its process could not be killed), and no Codex client is
\* installed under Claude (unless a restart slipped between the two halves of
\* a switch's check).
AtRest ==
  /\ \A c \in Clients : rec[c].at \in {"none", "done"}
  /\ ref.at = "idle" /\ sw.at = "idle"
RestClean ==
  AtRest => /\ slot # NoClient /\ ~wedged => proc[slot] # "closed"
            /\ backend = "claude" /\ ~overlap => slot = NoClient

\* A message deferred by a recovery is not forgotten: as long as it is queued,
\* a start is pending, or a recovery is on its way to ResumeQueuedSessions.
\* The exception is a recovery that did not install its client: nobody resumes
\* the queue then, not even the restart that installs another one.
DeferredWorkHasResumer ==
  queued /\ ~lost =>
    \/ start
    \/ \E c \in Clients : rec[c].at \in {"start", "complete", "restore", "restoring", "resume"}

\* A dead client does not stay installed once its failure is reported.  Only a
\* report that came before the client was installed, during another recovery
\* or under Claude goes unheard.
DeadClientRemoved ==
  \A c \in Clients :
    slot = c /\ proc[c] = "down" /\ c \in told => c \in unheard

(***************************************************************************)
(* The inductive invariant of the proofs: a client that somebody is going  *)
(* to install has run neither in the slot nor through a recovery, and      *)
(* nobody else is going to install it.                                     *)
(***************************************************************************)
Untouched(c) == slot # c /\ rec[c].at = "none"
RecoveryBrings(c) == \E d \in Clients : rec[d].at = "complete" /\ rec[d].next = c
RefreshBrings(c) == ref.at \in {"read", "close", "replace"} /\ ref.next = c
SwitchBrings(c) == sw.at \in {"snapshot", "commit", "install", "replace"} /\ sw.next = c

Unborn == \A c \in Clients : proc[c] = "unborn" =>
  Untouched(c) /\ c \notin told
  /\ ~RecoveryBrings(c) /\ ~RefreshBrings(c) /\ ~SwitchBrings(c)
Brought == \A c \in Clients :
  /\ RecoveryBrings(c) => Untouched(c) /\ ~RefreshBrings(c) /\ ~SwitchBrings(c)
  /\ RefreshBrings(c) => Untouched(c) /\ ~SwitchBrings(c)
  /\ SwitchBrings(c) => Untouched(c)
Reported == \A c \in told : c \in unheard \/ rec[c].at # "none"
Recovered == \A c \in Clients : rec[c].at # "none" => slot # c
Preparing == sw.at \in {"checked", "prepare"} => sw.next = NoClient

RuntimeInv ==
  TypeOK /\ DeferredWorkHasResumer /\ Unborn /\ Brought /\ Reported /\ Recovered /\ Preparing

=============================================================================

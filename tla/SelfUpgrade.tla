----------------------------- MODULE SelfUpgrade -----------------------------
(***************************************************************************)
(* /upgrade: the daemon replaces its own binary (application/upgrade,      *)
(* adapter/feishu/upgradecmd, runtime/upgrade, release/github.go,          *)
(* daemon/upgrade_linux.go, maintenance/runtime_service.go).               *)
(*                                                                         *)
(* A confirmed request is saved as launching, then systemd-run starts a    *)
(* runner of its own, which stages the new binary, stops the service,      *)
(* moves the old binary away and the new one in, starts the service and    *)
(* waits until it runs; on a failure it puts the old binary back.  The     *)
(* service's process, which the runner ends, polls at its next start and   *)
(* every 30 seconds for the runner's result, and patches the card.         *)
(***************************************************************************)
EXTENDS Integers, Sequences, FiniteSets

CONSTANTS
  Requests,     \* upgrade requests, the positive numbers of their identifiers
  Version,      \* the running version: [num, pre]
  Releases,     \* versions of the published releases
  Faults,       \* steps that may fail
  MaxConfirms,  \* bound: confirmations of a request
  MaxFaults,    \* bound: failed steps, a binary that cannot run included
  MaxCrashes    \* bound: crashes of the service's process

ASSUME UpgradeAssumption ==
  /\ Requests \subseteq Nat \ {0} /\ IsFiniteSet(Requests)
  /\ MaxConfirms \in Nat /\ MaxFaults \in Nat

VARIABLES
  form,     \* the stored request: status, expiry and attempt of its launch
  call,     \* the step of Confirm, in the process
  poll,     \* the request as a poll read it: its status and attempt, or <<>>
  runner,   \* the step of the upgrade runner; "none" before it is launched
  backup,   \* what the runner moved away; a binary is the request it is of
  binary,   \* what is at the daemon's path: 0, the old one, a request's or Missing
  service,  \* "running", "stopped", or "failed": systemd starts it again
  notice,   \* what the request's card says of the upgrade
  bad,      \* requests whose binary cannot run
  faults, crashes

upgradeVars == <<form, call, poll, runner, backup, binary, service, notice, bad, faults, crashes>>

Missing == -1
Old == 0
Up == service = "running"
Works(b) == b # Missing /\ b \notin bad
Busy(r) == runner[r] \notin {"none", "succeeded", "failed"}
Fault(f) == /\ f \in Faults /\ faults < MaxFaults /\ faults' = faults + 1
Sound == UNCHANGED faults
-----------------------------------------------------------------------------
(* Versions.  A part of a suffix is a number, or [text |-> rank].          *)
Lower(a, b) == \E i \in 1..3 : a[i] < b[i] /\ \A j \in 1..(i - 1) : a[j] = b[j]

\* compareSuffix, part by part: a number is below a text
PartLower(p, q) ==
  \/ p.number /\ ~q.number
  \/ p.number = q.number /\ p.rank < q.rank

\* no suffix is above every suffix, and a longer one above its prefix
SuffixLower(s, t) ==
  \/ s # <<>> /\ t = <<>>
  \/ /\ s # <<>> /\ t # <<>>
     /\ \/ \E i \in DOMAIN s \cap DOMAIN t :
             PartLower(s[i], t[i]) /\ \A j \in 1..(i - 1) : s[j] = t[j]
        \/ Len(s) < Len(t) /\ s = SubSeq(t, 1, Len(s))

\* CompareVersions: both must be versions, a development build is not one
Older(v, w) == Lower(v.num, w.num) \/ (v.num = w.num /\ SuffixLower(v.pre, w.pre))
IsCurrent(v, w) == v.num # <<>> /\ w.num # <<>> /\ ~Older(v, w)
-----------------------------------------------------------------------------
NoForm == [status |-> "none", expired |-> FALSE, attempt |-> 0]

UpgradeInit ==
  /\ form = [r \in Requests |-> NoForm]
  /\ call = [r \in Requests |-> "none"]
  /\ poll = [r \in Requests |-> <<>>]
  /\ runner = [r \in Requests |-> "none"]
  /\ backup = [r \in Requests |-> Missing]
  /\ notice = [r \in Requests |-> "none"]
  /\ binary = Old /\ service = "running"
  /\ bad \in {b \in SUBSET Requests : Cardinality(b) <= MaxFaults}
  /\ faults = Cardinality(bad) /\ crashes = 0

SetStatus(r, s) == form' = [form EXCEPT ![r].status = s]
Step(r, s) == runner' = [runner EXCEPT ![r] = s]
Opens(r) == form[r].status = "none" /\ \A q \in Requests : q < r => form[q].status # "none"
-----------------------------------------------------------------------------
(* The request.                                                            *)
\* Prepare: an unforced check opens a request only for a newer release
Prepare(r, v, forced) ==
  /\ Up /\ Opens(r)
  /\ forced \/ ~IsCurrent(Version, v)
  /\ SetStatus(r, "pending")
  /\ UNCHANGED <<call, poll, runner, backup, binary, service, notice, bad, faults, crashes>>

\* PrepareLocal: the artifact is copied and hashed before the request exists
PrepareLocal(r) ==
  /\ Up /\ Opens(r)
  /\ SetStatus(r, "pending")
  /\ UNCHANGED <<call, poll, runner, backup, binary, service, notice, bad, faults, crashes>>

Cancel(r) ==
  /\ Up /\ form[r].status = "pending" /\ ~form[r].expired
  /\ SetStatus(r, "resolved")
  /\ UNCHANGED <<call, poll, runner, backup, binary, service, notice, bad, faults, crashes>>

\* 30 minutes pass
Lapse(r) ==
  /\ form[r].status \in {"pending", "processing"} /\ ~form[r].expired
  /\ form' = [form EXCEPT ![r].expired = TRUE]
  /\ UNCHANGED <<call, poll, runner, backup, binary, service, notice, bad, faults, crashes>>
-----------------------------------------------------------------------------
(* Confirm: claim, save the launch, launch, save its outcome.              *)
Claim(r) ==
  /\ Up /\ form[r].status = "pending" /\ ~form[r].expired
  /\ form[r].attempt < MaxConfirms
  /\ SetStatus(r, "processing")
  /\ call' = [call EXCEPT ![r] = "claimed"]
  /\ UNCHANGED <<poll, runner, backup, binary, service, notice, bad, faults, crashes>>

SaveLaunch(r) ==
  /\ call[r] = "claimed"
  /\ \/ /\ Sound
        /\ form' = [form EXCEPT ![r].status = "launching", ![r].attempt = @ + 1]
        /\ call' = [call EXCEPT ![r] = "saved"]
     \/ /\ Fault("inspect")     \* restore: an expired form takes no draft
        /\ IF form[r].expired THEN UNCHANGED form ELSE SetStatus(r, "pending")
        /\ call' = [call EXCEPT ![r] = "none"]
  /\ UNCHANGED <<poll, runner, backup, binary, service, notice, bad, crashes>>

\* systemd refuses the name of a unit it still holds; its reply may be lost
Launch(r) ==
  /\ call[r] = "saved"
  /\ LET held == runner[r] \notin {"none", "succeeded"}
         starts == Step(r, "stage") /\ UNCHANGED backup
     IN  \/ ~held /\ Sound /\ starts /\ call' = [call EXCEPT ![r] = "launched"]
         \/ ~held /\ Fault("reply") /\ starts /\ call' = [call EXCEPT ![r] = "refused"]
         \/ /\ IF held THEN Sound ELSE Fault("launch")
            /\ call' = [call EXCEPT ![r] = "refused"]
            /\ UNCHANGED <<runner, backup>>
  /\ UNCHANGED <<form, poll, binary, service, notice, bad, crashes>>

\* a poll may have resolved the request meanwhile: then it stays resolved
Confirmed(r) ==
  /\ call[r] \in {"launched", "refused"}
  /\ \/ /\ form[r].status = "launching" /\ Sound
        /\ SetStatus(r, IF call[r] = "launched" THEN "upgrading" ELSE "pending")
     \/ /\ (form[r].status # "launching" /\ Sound) \/ Fault("save")
        /\ UNCHANGED form
  /\ notice' = IF call[r] = "launched" THEN [notice EXCEPT ![r] = "started"] ELSE notice
  /\ call' = [call EXCEPT ![r] = "none"]
  /\ UNCHANGED <<poll, runner, backup, binary, service, bad, crashes>>
-----------------------------------------------------------------------------
(* The service, as systemd runs it (Type=simple, Restart=on-failure).      *)
ProcessEnds ==
  /\ call' = [r \in Requests |-> "none"]
  /\ poll' = [r \in Requests |-> <<>>]

Stop == service' = "stopped" /\ ProcessEnds

\* a start reports success once the process is forked, whatever it then does
Start ==
  /\ service' = IF Up \/ Works(binary) THEN "running" ELSE "failed"
  /\ UNCHANGED <<call, poll>>

Respawn ==
  /\ service = "failed" /\ Works(binary)
  /\ service' = "running"
  /\ UNCHANGED <<form, call, poll, runner, backup, binary, notice, bad, faults, crashes>>

Crash ==
  /\ Up /\ crashes < MaxCrashes
  /\ crashes' = crashes + 1
  /\ service' = "failed" /\ ProcessEnds
  /\ UNCHANGED <<form, runner, backup, binary, notice, bad, faults>>
-----------------------------------------------------------------------------
(* The runner (runUpgradeWithManager).  Its directory, backup included, is *)
(* removed when it ends.                                                   *)
Ends(r, s) == Step(r, s) /\ backup' = [backup EXCEPT ![r] = Missing]
Fails(r, f) == Fault(f) /\ Ends(r, "failed")
Rest == UNCHANGED <<form, notice, bad, crashes>>

\* staging: a download or the local artifact, and its checksum
Stage(r) ==
  /\ runner[r] = "stage"
  /\ (Step(r, "stop") /\ Sound /\ UNCHANGED backup) \/ Fails(r, "stage")
  /\ Rest /\ UNCHANGED <<call, poll, binary, service>>

StopService(r) ==
  /\ runner[r] = "stop"
  /\ \/ Stop /\ Step(r, "backup") /\ Sound /\ UNCHANGED backup
     \/ Fails(r, "stop") /\ UNCHANGED <<service, call, poll>>
  /\ Rest /\ UNCHANGED binary

\* a runner that cannot move the binary away ends, and starts nothing
MoveAway(r) ==
  /\ runner[r] = "backup"
  /\ \/ /\ binary # Missing /\ Sound
        /\ backup' = [backup EXCEPT ![r] = binary]
        /\ binary' = Missing /\ Step(r, "activate")
     \/ /\ IF binary = Missing THEN Sound /\ Ends(r, "failed") ELSE Fails(r, "backup")
        /\ UNCHANGED binary
  /\ Rest /\ UNCHANGED <<call, poll, service>>

\* Mutant: a failed move in ends the runner.
ActivateNoRollback(r) ==
  /\ runner[r] = "activate"
  /\ \/ binary' = r /\ Step(r, "start") /\ Sound /\ UNCHANGED backup
     \/ Fails(r, "activate") /\ UNCHANGED binary
  /\ Rest /\ UNCHANGED <<call, poll, service>>

Activate(r) ==
  /\ runner[r] = "activate"
  /\ \/ binary' = r /\ Step(r, "start") /\ Sound
     \/ Fault("activate") /\ Step(r, "restore") /\ UNCHANGED binary
  /\ Rest /\ UNCHANGED <<call, poll, service, backup>>

StartService(r) ==
  /\ runner[r] = "start"
  /\ \/ Start /\ Step(r, "health") /\ Sound
     \/ Fault("start") /\ Step(r, "restore") /\ UNCHANGED <<service, call, poll>>
  /\ Rest /\ UNCHANGED <<binary, backup>>

\* waitForServiceHealthy: in 15 seconds, one look that finds a process is
\* enough, and a service that keeps failing has one now and then
Health(r) ==
  /\ runner[r] = "health" /\ Sound
  /\ LET failing == service = "failed" /\ ~Works(binary)
     IN  \/ (Up \/ failing) /\ Ends(r, "succeeded")
         \/ (service = "stopped" \/ failing) /\ Step(r, "restore") /\ UNCHANGED backup
  /\ Rest /\ UNCHANGED <<call, poll, service, binary>>

Restore(r) ==
  /\ runner[r] = "restore"
  /\ Stop /\ Step(r, "remove") /\ Sound
  /\ Rest /\ UNCHANGED <<binary, backup>>

Remove(r) ==
  /\ runner[r] = "remove"
  /\ binary' = Missing /\ Step(r, "return") /\ Sound
  /\ Rest /\ UNCHANGED <<call, poll, service, backup>>

PutBack(r) ==
  /\ runner[r] = "return"
  /\ \/ binary' = backup[r] /\ Step(r, "restart") /\ Sound
        /\ backup' = [backup EXCEPT ![r] = Missing]
     \/ Fails(r, "restore") /\ UNCHANGED binary
  /\ Rest /\ UNCHANGED <<call, poll, service>>

Restart(r) ==
  /\ runner[r] = "restart"
  /\ \/ Start /\ Sound /\ Step(r, "failed")
     \/ Fault("start") /\ Step(r, "failed") /\ UNCHANGED <<service, call, poll>>
  /\ Rest /\ UNCHANGED <<binary, backup>>

Runner(r) ==
  \/ Stage(r) \/ StopService(r) \/ MoveAway(r) \/ Activate(r) \/ StartService(r)
  \/ Health(r) \/ Restore(r) \/ Remove(r) \/ PutBack(r) \/ Restart(r)
-----------------------------------------------------------------------------
(* The poll.                                                               *)
\* systemctl without --user asks the system's manager, which has no such
\* unit, and of a unit it does not have it shows these values
Shown == [ActiveState |-> "inactive", Result |-> "success"]

\* Mutant: a request whose launch was not confirmed is no upgrade.
OnlyUpgrading(r) == form[r].status = "upgrading"

IsRunning(r) == form[r].status \in {"launching", "upgrading"}

PollRead(r) ==
  /\ Up /\ poll[r] = <<>> /\ IsRunning(r)
  /\ poll' = [poll EXCEPT ![r] = <<form[r].status, form[r].attempt>>]
  /\ UNCHANGED <<form, call, runner, backup, binary, service, notice, bad, faults, crashes>>

\* Check, and the patch of the card
PollCheck(r) ==
  /\ poll[r] # <<>>
  /\ poll' = [poll EXCEPT ![r] = <<>>]
  /\ IF /\ Shown.ActiveState \notin {"active", "activating"}
        /\ poll[r] = <<form[r].status, form[r].attempt>>
     THEN \/ /\ Sound /\ SetStatus(r, "resolved")
             /\ notice' = [notice EXCEPT ![r] = Shown.Result]
          \/ Fault("save") /\ UNCHANGED <<form, notice>>
     ELSE Sound /\ UNCHANGED <<form, notice>>
  /\ UNCHANGED <<call, runner, backup, binary, service, bad, crashes>>

Poll(r) == PollRead(r) \/ PollCheck(r)
-----------------------------------------------------------------------------
UpgradeNext ==
  \/ \E r \in Requests :
       \/ \E v \in Releases, forced \in BOOLEAN : Prepare(r, v, forced)
       \/ PrepareLocal(r) \/ Cancel(r) \/ Lapse(r)
       \/ Claim(r) \/ SaveLaunch(r) \/ Launch(r) \/ Confirmed(r)
       \/ Runner(r) \/ Poll(r)
  \/ Respawn \/ Crash

UpgradeSpec ==
  /\ UpgradeInit /\ [][UpgradeNext]_upgradeVars
  /\ WF_upgradeVars(Respawn)
  /\ \A r \in Requests :
       WF_upgradeVars(Runner(r)) /\ SF_upgradeVars(PollCheck(r)) /\ SF_upgradeVars(PollRead(r))
-----------------------------------------------------------------------------
UpgradeTypeOK ==
  /\ \A r \in Requests :
       /\ form[r].status \in {"none", "pending", "processing", "launching", "upgrading", "resolved"}
       /\ form[r].expired \in BOOLEAN /\ form[r].attempt \in Nat
       /\ call[r] \in {"none", "claimed", "saved", "launched", "refused"}
       /\ notice[r] \in {"none", "started", "success"}
  /\ binary \in Requests \cup {Old, Missing}
  /\ service \in {"running", "stopped", "failed"}

\* Once the runners have ended, the daemon is neither stopped nor without a
\* binary, after one failed step of a single upgrade and after two upgrades
\* that ran at once; and a single one that failed leaves the old binary
\* (runUpgradeWithManager, its restore).
FailureRollsBack ==
  LET launched == {r \in DOMAIN runner : runner[r] # "none"}
      single == Cardinality(launched) <= 1
  IN  (\A r \in DOMAIN runner : ~Busy(r)) =>
        /\ single \/ faults = 0 => binary # Missing /\ service # "stopped"
        /\ single /\ (\E r \in launched : runner[r] = "failed") => binary = Old

\* A launched upgrade gets its outcome, also when the process that launched
\* it ended before it saved that, as long as the service comes up again
\* (Poller.Check, IsRunning).
UpgradeSettles ==
  LET Launched(r) == form[r].status \in {"launching", "upgrading"}
  IN  ([]<>Up) => \A r \in Requests : Launched(r) ~> ~Launched(r)

\* A card that says an upgrade is done speaks of a runner that succeeded.
OutcomeIsTrue == \A r \in DOMAIN runner : notice[r] = "success" => runner[r] = "succeeded"
=============================================================================

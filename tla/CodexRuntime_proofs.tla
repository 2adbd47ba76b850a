-------------------------- MODULE CodexRuntime_proofs --------------------------
(***************************************************************************)
(* Invariants of the Codex runtime for every number of processes,          *)
(* restarts, switches, messages and failures, of the server requests that  *)
(* its transport failure ends, and of the cards that show a turn.          *)
(***************************************************************************)
EXTENDS CodexRuntime, Interactions, TurnStream, TLAPS, SequenceTheorems

\* The first client exists, and no client is the absent one.
LEMMA ClientFacts == NoClient \notin Clients /\ Fresh \subseteq Clients /\ 1 \in Clients
  BY RuntimeBounds DEF RuntimeBounds, NoClient, Clients, Fresh

\* Close leaves the table of processes well typed.
LEMMA CloseType ==
  ASSUME ProcType, NEW c \in MaybeClient
  PROVE  CloseClient(c) \in [Clients -> {"unborn", "up", "down", "closed"}]
  BY DEF ProcType, CloseClient, MaybeClient

\* The record of an idle switch is well typed.
LEMMA NoSwitchType ==
  NoSwitch \in [at : SwitchPlaces, next : MaybeClient, old : MaybeClient, target : Backends]
  BY DEF NoSwitch, SwitchPlaces, MaybeClient, Backends

\* A part of the invariant whose variables a step leaves alone still holds.
LEMMA Frames ==
  ASSUME RuntimeInv
  PROVE  /\ UNCHANGED proc => ProcType'
         /\ UNCHANGED <<slot, source, recovering, switching, backend, restoring>> => StateType'
         /\ UNCHANGED rec => RecType'
         /\ UNCHANGED ref => RefType'
         /\ UNCHANGED sw => SwType'
         /\ UNCHANGED <<queued, start, lost, told, unheard, displaced, overlap, wedged,
                        restarts, switches, messages, deaths>> => RestType'
         /\ UNCHANGED <<recovering, source, rec>> => Agreement'
         /\ UNCHANGED <<queued, lost, start, rec>> => DeferredWorkHasResumer'
         /\ UNCHANGED <<proc, slot, rec, told, ref, sw>> => Unborn'
         /\ UNCHANGED <<slot, rec, ref, sw>> => Brought'
         /\ UNCHANGED <<told, unheard, rec>> => Reported'
         /\ UNCHANGED <<rec, slot>> => Recovered'
         /\ UNCHANGED sw => Preparing'
<1> USE DEF RuntimeInv, TypeOK
<1>1. UNCHANGED proc => ProcType' BY DEF ProcType
<1>2. UNCHANGED <<slot, source, recovering, switching, backend, restoring>> => StateType'
  BY DEF StateType
<1>3. UNCHANGED rec => RecType' BY DEF RecType
<1>4. UNCHANGED ref => RefType' BY DEF RefType
<1>5. UNCHANGED sw => SwType' BY DEF SwType
<1>6. UNCHANGED <<queued, start, lost, told, unheard, displaced, overlap, wedged, restarts,
                  switches, messages, deaths>> => RestType'
  BY DEF RestType
<1>7. UNCHANGED <<recovering, source, rec>> => Agreement' BY DEF Agreement, RecoveryRuns
<1>8. UNCHANGED <<queued, lost, start, rec>> => DeferredWorkHasResumer'
  BY DEF DeferredWorkHasResumer
<1>9. UNCHANGED <<proc, slot, rec, told, ref, sw>> => Unborn'
  BY DEF Unborn, Untouched, RecoveryBrings, RefreshBrings, SwitchBrings
<1>10. UNCHANGED <<slot, rec, ref, sw>> => Brought'
  BY DEF Brought, Untouched, RecoveryBrings, RefreshBrings, SwitchBrings
<1>11. UNCHANGED <<told, unheard, rec>> => Reported' BY DEF Reported
<1>12. UNCHANGED <<rec, slot>> => Recovered' BY DEF Recovered
<1>13. UNCHANGED sw => Preparing' BY DEF Preparing
<1> QED BY <1>1, <1>2, <1>3, <1>4, <1>5, <1>6, <1>7, <1>8, <1>9, <1>10, <1>11, <1>12, <1>13

\* The prepared frontend satisfies the invariant.
LEMMA InitInv == Init => RuntimeInv
<1> SUFFICES ASSUME Init PROVE RuntimeInv OBVIOUS
<1> USE ClientFacts DEF Init, MaybeClient
<1>1. ProcType BY DEF ProcType
<1>2. StateType BY DEF StateType, Backends
<1>3. RecType BY DEF RecType, RecoveryPlaces, NoRecovery
<1>4. RefType BY DEF RefType, RefreshPlaces, NoRefresh
<1>5. SwType BY DEF SwType, SwitchPlaces, NoSwitch, Backends
<1>6. RestType BY DEF RestType
<1>7. Agreement BY DEF Agreement, RecoveryRuns, NoRecovery
<1>8. DeferredWorkHasResumer /\ Reported /\ Recovered /\ Preparing
  BY DEF DeferredWorkHasResumer, Reported, Recovered, Preparing, NoRecovery, NoSwitch
<1>9. Unborn /\ Brought
  BY DEF Unborn, Brought, Untouched, RecoveryBrings, RefreshBrings, SwitchBrings,
         NoRecovery, NoRefresh, NoSwitch
<1> QED BY <1>1, <1>2, <1>3, <1>4, <1>5, <1>6, <1>7, <1>8, <1>9 DEF RuntimeInv, TypeOK

(***************************************************************************)
(* One lemma per action: the action keeps the invariant.  Each has a step   *)
(* for every part of the invariant that the action can disturb; Frames      *)
(* gives the others.                                                        *)
(***************************************************************************)

LEMMA ClientDiesInv ==
  ASSUME RuntimeInv, NEW c \in Clients, ClientDies(c)
  PROVE  RuntimeInv'
<1> USE ClientFacts DEF RuntimeInv, TypeOK, ClientDies, MaybeClient, state, work, history, bounds
<1>1. ProcType' BY CloseType DEF ProcType, RefType, SwType, RecType, Launched
<1>2. RestType' BY DEF RestType, Displaced, StateType
<1>3. Unborn' BY DEF Unborn, Brought, Untouched, RecoveryBrings, RefreshBrings, SwitchBrings,
    ProcType, RecType, RefType, SwType, NoRecovery, NoRefresh, NoSwitch, CloseClient, Launched,
    Fresh
<1> QED BY <1>1, <1>2, <1>3, Frames

LEMMA HandleTransportFailureInv ==
  ASSUME RuntimeInv, NEW c \in Clients, HandleTransportFailure(c)
  PROVE  RuntimeInv'
<1> USE ClientFacts DEF RuntimeInv, TypeOK, HandleTransportFailure, MaybeClient, state, work, history, bounds, BeginRecovery
<1>1. StateType' BY DEF StateType, Restoring, RecType, RefType, SwType, Backends
<1>2. RecType'
  <2>1. (restoring = "auto") \in BOOLEAN OBVIOUS
  <2> DEFINE r == [at |-> "start", next |-> NoClient, skip |-> restoring = "auto"]
  <2>2. r \in [at : RecoveryPlaces, next : MaybeClient, skip : BOOLEAN]
    BY <2>1, Zenon DEF RecoveryPlaces
  <2>3. rec' = rec \/ rec' = [rec EXCEPT ![c] = r] OBVIOUS
  <2> HIDE DEF r
  <2> QED BY ONLY <2>2, <2>3, RecType, c \in Clients DEF RecType
<1>3. RestType' BY DEF RestType, Displaced, StateType
<1>4. Agreement' BY DEF Agreement, RecoveryRuns, RecType, NoRecovery
<1>5. DeferredWorkHasResumer' BY DEF DeferredWorkHasResumer, Agreement, RecoveryRuns, RecType,
    StateType, NoRecovery
<1>6. Unborn' BY DEF Unborn, Brought, Untouched, RecoveryBrings, RefreshBrings, SwitchBrings,
    ProcType, RecType, RefType, SwType, NoRecovery, NoRefresh, NoSwitch, CloseClient, Launched,
    Fresh
<1>7. Brought' BY DEF Unborn, Brought, Untouched, RecoveryBrings, RefreshBrings, SwitchBrings,
    RecType, RefType, SwType, Agreement, RecoveryRuns, NoRecovery, NoRefresh, NoSwitch, Fresh
<1>8. Reported' BY DEF Reported, Agreement, RecoveryRuns, RecType, RestType, StateType,
    NoRecovery
<1>9. Recovered' BY DEF Recovered, Brought, Untouched, RecoveryBrings, RefreshBrings,
    SwitchBrings, RecType, StateType, NoRecovery
<1> QED BY <1>1, <1>2, <1>3, <1>4, <1>5, <1>6, <1>7, <1>8, <1>9, Frames

LEMMA RecoverStartInv ==
  ASSUME RuntimeInv, NEW c \in Clients, RecoverStart(c)
  PROVE  RuntimeInv'
<1> USE ClientFacts DEF RuntimeInv, TypeOK, RecoverStart, MaybeClient, state, work, history, bounds
<1>1. ProcType' BY CloseType DEF ProcType, RefType, SwType, RecType, Launched
<1>2. RecType'
  <2>1. PICK n \in Fresh : rec' = [rec EXCEPT ![c].at = "complete", ![c].next = n] OBVIOUS
  <2>2. n \in MaybeClient /\ c \in Clients OBVIOUS
  <2> QED BY ONLY <2>1, <2>2, RecType DEF RecType, RecoveryPlaces
<1>3. Agreement' BY DEF Agreement, RecoveryRuns, RecType, NoRecovery
<1>4. DeferredWorkHasResumer' BY DEF DeferredWorkHasResumer, Agreement, RecoveryRuns, RecType,
    StateType, NoRecovery
<1>5. Unborn' BY DEF Unborn, Brought, Untouched, RecoveryBrings, RefreshBrings, SwitchBrings,
    ProcType, RecType, RefType, SwType, NoRecovery, NoRefresh, NoSwitch, CloseClient, Launched,
    Fresh
<1>6. Brought' BY DEF Unborn, Brought, Untouched, RecoveryBrings, RefreshBrings, SwitchBrings,
    RecType, RefType, SwType, Agreement, RecoveryRuns, NoRecovery, NoRefresh, NoSwitch, Fresh
<1>7. Reported' BY DEF Reported, Agreement, RecoveryRuns, RecType, RestType, StateType,
    NoRecovery
<1>8. Recovered' BY DEF Recovered, Brought, Untouched, RecoveryBrings, RefreshBrings,
    SwitchBrings, RecType, StateType, NoRecovery
<1> QED BY <1>1, <1>2, <1>3, <1>4, <1>5, <1>6, <1>7, <1>8, Frames

LEMMA RecoverStartFailsInv ==
  ASSUME RuntimeInv, NEW c \in Clients, RecoverStartFails(c)
  PROVE  RuntimeInv'
<1> USE ClientFacts DEF RuntimeInv, TypeOK, RecoverStartFails, MaybeClient, state, work, history, bounds, MayInstall
<1>1. StateType' BY DEF StateType, Restoring, RecType, RefType, SwType, Backends
<1>2. RecType' BY DEF RecType, RecoveryPlaces, NoRecovery
<1>3. RestType' BY DEF RestType, Displaced, StateType
<1>4. Agreement' BY DEF Agreement, RecoveryRuns, RecType, NoRecovery
<1>5. DeferredWorkHasResumer' BY DEF DeferredWorkHasResumer, Agreement, RecoveryRuns, RecType,
    StateType, NoRecovery
<1>6. Unborn' BY DEF Unborn, Brought, Untouched, RecoveryBrings, RefreshBrings, SwitchBrings,
    ProcType, RecType, RefType, SwType, NoRecovery, NoRefresh, NoSwitch, CloseClient, Launched,
    Fresh
<1>7. Brought' BY DEF Unborn, Brought, Untouched, RecoveryBrings, RefreshBrings, SwitchBrings,
    RecType, RefType, SwType, Agreement, RecoveryRuns, NoRecovery, NoRefresh, NoSwitch, Fresh
<1>8. Reported' BY DEF Reported, Agreement, RecoveryRuns, RecType, RestType, StateType,
    NoRecovery
<1>9. Recovered' BY DEF Recovered, Brought, Untouched, RecoveryBrings, RefreshBrings,
    SwitchBrings, RecType, StateType, NoRecovery
<1> QED BY <1>1, <1>2, <1>3, <1>4, <1>5, <1>6, <1>7, <1>8, <1>9, Frames

LEMMA CompleteRecoveryInv ==
  ASSUME RuntimeInv, NEW c \in Clients, CompleteRecovery(c)
  PROVE  RuntimeInv'
<1> USE ClientFacts DEF RuntimeInv, TypeOK, CompleteRecovery, MaybeClient, state, work, history, bounds, MayInstall
<1>1. StateType' BY DEF StateType, Restoring, RecType, RefType, SwType, Backends
<1>2. RecType' BY DEF RecType, RecoveryPlaces, NoRecovery
<1>3. RestType' BY DEF RestType, Displaced, StateType
<1>4. Agreement' BY DEF Agreement, RecoveryRuns, RecType, NoRecovery
<1>5. DeferredWorkHasResumer' BY DEF DeferredWorkHasResumer, Agreement, RecoveryRuns, RecType,
    StateType, NoRecovery
<1>6. Unborn' BY DEF Unborn, Brought, Untouched, RecoveryBrings, RefreshBrings, SwitchBrings,
    ProcType, RecType, RefType, SwType, NoRecovery, NoRefresh, NoSwitch, CloseClient, Launched,
    Fresh
<1>7. Brought' BY DEF Unborn, Brought, Untouched, RecoveryBrings, RefreshBrings, SwitchBrings,
    RecType, RefType, SwType, Agreement, RecoveryRuns, NoRecovery, NoRefresh, NoSwitch, Fresh
<1>8. Reported' BY DEF Reported, Agreement, RecoveryRuns, RecType, RestType, StateType,
    NoRecovery
<1>9. Recovered' BY DEF Recovered, Brought, Untouched, RecoveryBrings, RefreshBrings,
    SwitchBrings, RecType, StateType, NoRecovery
<1> QED BY <1>1, <1>2, <1>3, <1>4, <1>5, <1>6, <1>7, <1>8, <1>9, Frames

LEMMA RecoverLoseInv ==
  ASSUME RuntimeInv, NEW c \in Clients, RecoverLose(c)
  PROVE  RuntimeInv'
<1> USE ClientFacts DEF RuntimeInv, TypeOK, RecoverLose, MaybeClient, state, work, history, bounds
<1>1. ProcType' BY CloseType DEF ProcType, RefType, SwType, RecType, Launched
<1>2. RecType' BY DEF RecType, RecoveryPlaces, NoRecovery
<1>3. Agreement' BY DEF Agreement, RecoveryRuns, RecType, NoRecovery
<1>4. DeferredWorkHasResumer' BY DEF DeferredWorkHasResumer, Agreement, RecoveryRuns, RecType,
    StateType, NoRecovery
<1>5. Unborn' BY DEF Unborn, Brought, Untouched, RecoveryBrings, RefreshBrings, SwitchBrings,
    ProcType, RecType, RefType, SwType, NoRecovery, NoRefresh, NoSwitch, CloseClient, Launched,
    Fresh
<1>6. Brought' BY DEF Unborn, Brought, Untouched, RecoveryBrings, RefreshBrings, SwitchBrings,
    RecType, RefType, SwType, Agreement, RecoveryRuns, NoRecovery, NoRefresh, NoSwitch, Fresh
<1>7. Reported' BY DEF Reported, Agreement, RecoveryRuns, RecType, RestType, StateType,
    NoRecovery
<1>8. Recovered' BY DEF Recovered, Brought, Untouched, RecoveryBrings, RefreshBrings,
    SwitchBrings, RecType, StateType, NoRecovery
<1> QED BY <1>1, <1>2, <1>3, <1>4, <1>5, <1>6, <1>7, <1>8, Frames

LEMMA RecoverRestoreInv ==
  ASSUME RuntimeInv, NEW c \in Clients, RecoverRestore(c)
  PROVE  RuntimeInv'
<1> USE ClientFacts DEF RuntimeInv, TypeOK, RecoverRestore, MaybeClient, state, work, history, bounds
<1>1. StateType' BY DEF StateType, Restoring, RecType, RefType, SwType, Backends
<1>2. RecType' BY DEF RecType, RecoveryPlaces, NoRecovery
<1>3. Agreement' BY DEF Agreement, RecoveryRuns, RecType, NoRecovery
<1>4. DeferredWorkHasResumer' BY DEF DeferredWorkHasResumer, Agreement, RecoveryRuns, RecType,
    StateType, NoRecovery
<1>5. Unborn' BY DEF Unborn, Brought, Untouched, RecoveryBrings, RefreshBrings, SwitchBrings,
    ProcType, RecType, RefType, SwType, NoRecovery, NoRefresh, NoSwitch, CloseClient, Launched,
    Fresh
<1>6. Brought' BY DEF Unborn, Brought, Untouched, RecoveryBrings, RefreshBrings, SwitchBrings,
    RecType, RefType, SwType, Agreement, RecoveryRuns, NoRecovery, NoRefresh, NoSwitch, Fresh
<1>7. Reported' BY DEF Reported, Agreement, RecoveryRuns, RecType, RestType, StateType,
    NoRecovery
<1>8. Recovered' BY DEF Recovered, Brought, Untouched, RecoveryBrings, RefreshBrings,
    SwitchBrings, RecType, StateType, NoRecovery
<1> QED BY <1>1, <1>2, <1>3, <1>4, <1>5, <1>6, <1>7, <1>8, Frames

LEMMA RecoverRestoredInv ==
  ASSUME RuntimeInv, NEW c \in Clients, RecoverRestored(c)
  PROVE  RuntimeInv'
<1> USE ClientFacts DEF RuntimeInv, TypeOK, RecoverRestored, MaybeClient, state, work, history, bounds
<1>1. StateType' BY DEF StateType, Restoring, RecType, RefType, SwType, Backends
<1>2. RecType' BY DEF RecType, RecoveryPlaces, NoRecovery
<1>3. Agreement' BY DEF Agreement, RecoveryRuns, RecType, NoRecovery
<1>4. DeferredWorkHasResumer' BY DEF DeferredWorkHasResumer, Agreement, RecoveryRuns, RecType,
    StateType, NoRecovery
<1>5. Unborn' BY DEF Unborn, Brought, Untouched, RecoveryBrings, RefreshBrings, SwitchBrings,
    ProcType, RecType, RefType, SwType, NoRecovery, NoRefresh, NoSwitch, CloseClient, Launched,
    Fresh
<1>6. Brought' BY DEF Unborn, Brought, Untouched, RecoveryBrings, RefreshBrings, SwitchBrings,
    RecType, RefType, SwType, Agreement, RecoveryRuns, NoRecovery, NoRefresh, NoSwitch, Fresh
<1>7. Reported' BY DEF Reported, Agreement, RecoveryRuns, RecType, RestType, StateType,
    NoRecovery
<1>8. Recovered' BY DEF Recovered, Brought, Untouched, RecoveryBrings, RefreshBrings,
    SwitchBrings, RecType, StateType, NoRecovery
<1> QED BY <1>1, <1>2, <1>3, <1>4, <1>5, <1>6, <1>7, <1>8, Frames

LEMMA ResumeQueuedSessionsInv ==
  ASSUME RuntimeInv, NEW c \in Clients, ResumeQueuedSessions(c)
  PROVE  RuntimeInv'
<1> USE ClientFacts DEF RuntimeInv, TypeOK, ResumeQueuedSessions, MaybeClient, state, work, history, bounds
<1>1. RecType' BY DEF RecType, RecoveryPlaces, NoRecovery
<1>2. RestType' BY DEF RestType, Displaced, StateType
<1>3. Agreement' BY DEF Agreement, RecoveryRuns, RecType, NoRecovery
<1>4. DeferredWorkHasResumer' BY DEF DeferredWorkHasResumer, Agreement, RecoveryRuns, RecType,
    StateType, NoRecovery
<1>5. Unborn' BY DEF Unborn, Brought, Untouched, RecoveryBrings, RefreshBrings, SwitchBrings,
    ProcType, RecType, RefType, SwType, NoRecovery, NoRefresh, NoSwitch, CloseClient, Launched,
    Fresh
<1>6. Brought' BY DEF Unborn, Brought, Untouched, RecoveryBrings, RefreshBrings, SwitchBrings,
    RecType, RefType, SwType, Agreement, RecoveryRuns, NoRecovery, NoRefresh, NoSwitch, Fresh
<1>7. Reported' BY DEF Reported, Agreement, RecoveryRuns, RecType, RestType, StateType,
    NoRecovery
<1>8. Recovered' BY DEF Recovered, Brought, Untouched, RecoveryBrings, RefreshBrings,
    SwitchBrings, RecType, StateType, NoRecovery
<1> QED BY <1>1, <1>2, <1>3, <1>4, <1>5, <1>6, <1>7, <1>8, Frames

LEMMA RecoverCloseInv ==
  ASSUME RuntimeInv, NEW c \in Clients, RecoverClose(c)
  PROVE  RuntimeInv'
<1> USE ClientFacts DEF RuntimeInv, TypeOK, RecoverClose, MaybeClient, state, work, history, bounds
<1>1. ProcType' BY CloseType DEF ProcType, RefType, SwType, RecType, Launched
<1>2. RecType' BY DEF RecType, RecoveryPlaces, NoRecovery
<1>3. Agreement' BY DEF Agreement, RecoveryRuns, RecType, NoRecovery
<1>4. DeferredWorkHasResumer' BY DEF DeferredWorkHasResumer, Agreement, RecoveryRuns, RecType,
    StateType, NoRecovery
<1>5. Unborn' BY DEF Unborn, Brought, Untouched, RecoveryBrings, RefreshBrings, SwitchBrings,
    ProcType, RecType, RefType, SwType, NoRecovery, NoRefresh, NoSwitch, CloseClient, Launched,
    Fresh
<1>6. Brought' BY DEF Unborn, Brought, Untouched, RecoveryBrings, RefreshBrings, SwitchBrings,
    RecType, RefType, SwType, Agreement, RecoveryRuns, NoRecovery, NoRefresh, NoSwitch, Fresh
<1>7. Reported' BY DEF Reported, Agreement, RecoveryRuns, RecType, RestType, StateType,
    NoRecovery
<1>8. Recovered' BY DEF Recovered, Brought, Untouched, RecoveryBrings, RefreshBrings,
    SwitchBrings, RecType, StateType, NoRecovery
<1> QED BY <1>1, <1>2, <1>3, <1>4, <1>5, <1>6, <1>7, <1>8, Frames

LEMMA RestartAdmitInv ==
  ASSUME RuntimeInv, RestartAdmit
  PROVE  RuntimeInv'
<1> USE ClientFacts DEF RuntimeInv, TypeOK, RestartAdmit, MaybeClient, state, work, history, bounds
<1>1. RefType' BY DEF RefType, RefreshPlaces, NoRefresh, StateType
<1>2. RestType' BY DEF RestType, Displaced, StateType
<1>3. Unborn' BY DEF Unborn, Brought, Untouched, RecoveryBrings, RefreshBrings, SwitchBrings,
    ProcType, RecType, RefType, SwType, NoRecovery, NoRefresh, NoSwitch, CloseClient, Launched,
    Fresh
<1>4. Brought' BY DEF Unborn, Brought, Untouched, RecoveryBrings, RefreshBrings, SwitchBrings,
    RecType, RefType, SwType, Agreement, RecoveryRuns, NoRecovery, NoRefresh, NoSwitch, Fresh
<1> QED BY <1>1, <1>2, <1>3, <1>4, Frames

LEMMA RestartBeginInv ==
  ASSUME RuntimeInv, RestartBegin
  PROVE  RuntimeInv'
<1> USE ClientFacts DEF RuntimeInv, TypeOK, RestartBegin, MaybeClient, state, work, history, bounds
<1>1. RefType' BY DEF RefType, RefreshPlaces, NoRefresh, StateType
<1>2. RestType' BY DEF RestType, Displaced, StateType
<1>3. Unborn' BY DEF Unborn, Brought, Untouched, RecoveryBrings, RefreshBrings, SwitchBrings,
    ProcType, RecType, RefType, SwType, NoRecovery, NoRefresh, NoSwitch, CloseClient, Launched,
    Fresh
<1>4. Brought' BY DEF Unborn, Brought, Untouched, RecoveryBrings, RefreshBrings, SwitchBrings,
    RecType, RefType, SwType, Agreement, RecoveryRuns, NoRecovery, NoRefresh, NoSwitch, Fresh
<1> QED BY <1>1, <1>2, <1>3, <1>4, Frames

LEMMA RestartGivesUpInv ==
  ASSUME RuntimeInv, RestartGivesUp
  PROVE  RuntimeInv'
<1> USE ClientFacts DEF RuntimeInv, TypeOK, RestartGivesUp, MaybeClient, state, work, history, bounds
<1>1. RefType' BY DEF RefType, RefreshPlaces, NoRefresh, StateType
<1>2. Unborn' BY DEF Unborn, Brought, Untouched, RecoveryBrings, RefreshBrings, SwitchBrings,
    ProcType, RecType, RefType, SwType, NoRecovery, NoRefresh, NoSwitch, CloseClient, Launched,
    Fresh
<1>3. Brought' BY DEF Unborn, Brought, Untouched, RecoveryBrings, RefreshBrings, SwitchBrings,
    RecType, RefType, SwType, Agreement, RecoveryRuns, NoRecovery, NoRefresh, NoSwitch, Fresh
<1> QED BY <1>1, <1>2, <1>3, Frames

LEMMA RefreshCheckInv ==
  ASSUME RuntimeInv, RefreshCheck
  PROVE  RuntimeInv'
<1> USE ClientFacts DEF RuntimeInv, TypeOK, RefreshCheck, MaybeClient, state, work, history, bounds
<1>1. RefType' BY DEF RefType, RefreshPlaces, NoRefresh, StateType
<1>2. Unborn' BY DEF Unborn, Brought, Untouched, RecoveryBrings, RefreshBrings, SwitchBrings,
    ProcType, RecType, RefType, SwType, NoRecovery, NoRefresh, NoSwitch, CloseClient, Launched,
    Fresh
<1>3. Brought' BY DEF Unborn, Brought, Untouched, RecoveryBrings, RefreshBrings, SwitchBrings,
    RecType, RefType, SwType, Agreement, RecoveryRuns, NoRecovery, NoRefresh, NoSwitch, Fresh
<1> QED BY <1>1, <1>2, <1>3, Frames

LEMMA RefreshStartInv ==
  ASSUME RuntimeInv, RefreshStart
  PROVE  RuntimeInv'
<1> USE ClientFacts DEF RuntimeInv, TypeOK, RefreshStart, MaybeClient, state, work, history, bounds
<1>1. ProcType' BY CloseType DEF ProcType, RefType, SwType, RecType, Launched
<1>2. RefType'
  <2>1. CASE ref' = NoRefresh BY <2>1 DEF RefType, RefreshPlaces, NoRefresh
  <2>2. CASE \E n \in Fresh : ref' = [ref EXCEPT !.at = "read", !.next = n]
    <3>1. PICK n \in Fresh : ref' = [ref EXCEPT !.at = "read", !.next = n] BY <2>2
    <3>2. n \in MaybeClient OBVIOUS
    <3> QED BY ONLY <3>1, <3>2, RefType DEF RefType, RefreshPlaces
  <2> QED BY <2>1, <2>2
<1>3. Unborn'
  <2>1. CASE ref' = NoRefresh /\ UNCHANGED proc
    BY <2>1 DEF Unborn, Brought, Untouched, RecoveryBrings, RefreshBrings, SwitchBrings, ProcType, NoRefresh
  <2>2. CASE \E n \in Fresh : proc' = Launched(n) /\ ref' = [ref EXCEPT !.at = "read", !.next = n]
    <3>1. PICK n \in Fresh : proc' = Launched(n) /\ ref' = [ref EXCEPT !.at = "read", !.next = n]
      BY <2>2
    <3>2. ref'.at = "read" /\ ref'.next = n BY <3>1 DEF RefType
    <3>3. proc[n] = "unborn" /\ proc' = [proc EXCEPT ![n] = "up"] BY <3>1 DEF Fresh, Launched
    <3>4. UNCHANGED <<slot, rec, told, sw>> OBVIOUS
    <3>5. n \in Clients OBVIOUS
    <3> QED BY ONLY <3>2, <3>3, <3>4, <3>5, Unborn, Brought, ProcType
         DEF Unborn, Brought, Untouched, RecoveryBrings, RefreshBrings, SwitchBrings, ProcType
  <2> QED BY <2>1, <2>2
<1>4. Brought'
  <2>1. CASE ref' = NoRefresh /\ UNCHANGED proc
    BY <2>1 DEF Unborn, Brought, Untouched, RecoveryBrings, RefreshBrings, SwitchBrings, ProcType, NoRefresh
  <2>2. CASE \E n \in Fresh : proc' = Launched(n) /\ ref' = [ref EXCEPT !.at = "read", !.next = n]
    <3>1. PICK n \in Fresh : proc' = Launched(n) /\ ref' = [ref EXCEPT !.at = "read", !.next = n]
      BY <2>2
    <3>2. ref'.at = "read" /\ ref'.next = n BY <3>1 DEF RefType
    <3>3. proc[n] = "unborn" /\ proc' = [proc EXCEPT ![n] = "up"] BY <3>1 DEF Fresh, Launched
    <3>4. UNCHANGED <<slot, rec, told, sw>> OBVIOUS
    <3>5. n \in Clients OBVIOUS
    <3> QED BY ONLY <3>2, <3>3, <3>4, <3>5, Unborn, Brought, ProcType
         DEF Unborn, Brought, Untouched, RecoveryBrings, RefreshBrings, SwitchBrings, ProcType
  <2> QED BY <2>1, <2>2
<1> QED BY <1>1, <1>2, <1>3, <1>4, Frames

LEMMA RefreshReadInv ==
  ASSUME RuntimeInv, RefreshRead
  PROVE  RuntimeInv'
<1> USE ClientFacts DEF RuntimeInv, TypeOK, RefreshRead, MaybeClient, state, work, history, bounds
<1>1. RefType' BY DEF RefType, RefreshPlaces, NoRefresh, StateType
<1>2. Unborn' BY DEF Unborn, Brought, Untouched, RecoveryBrings, RefreshBrings, SwitchBrings,
    ProcType, RecType, RefType, SwType, NoRecovery, NoRefresh, NoSwitch, CloseClient, Launched,
    Fresh
<1>3. Brought' BY DEF Unborn, Brought, Untouched, RecoveryBrings, RefreshBrings, SwitchBrings,
    RecType, RefType, SwType, Agreement, RecoveryRuns, NoRecovery, NoRefresh, NoSwitch, Fresh
<1> QED BY <1>1, <1>2, <1>3, Frames

LEMMA RefreshCloseInv ==
  ASSUME RuntimeInv, RefreshClose
  PROVE  RuntimeInv'
<1> USE ClientFacts DEF RuntimeInv, TypeOK, RefreshClose, MaybeClient, state, work, history, bounds
<1>1. ProcType' BY CloseType DEF ProcType, RefType, SwType, RecType, Launched
<1>2. RefType' BY DEF RefType, RefreshPlaces, NoRefresh, StateType
<1>3. RestType' BY DEF RestType, Displaced, StateType
<1>4. Unborn' BY DEF Unborn, Brought, Untouched, RecoveryBrings, RefreshBrings, SwitchBrings,
    ProcType, RecType, RefType, SwType, NoRecovery, NoRefresh, NoSwitch, CloseClient, Launched,
    Fresh
<1>5. Brought' BY DEF Unborn, Brought, Untouched, RecoveryBrings, RefreshBrings, SwitchBrings,
    RecType, RefType, SwType, Agreement, RecoveryRuns, NoRecovery, NoRefresh, NoSwitch, Fresh
<1> QED BY <1>1, <1>2, <1>3, <1>4, <1>5, Frames

LEMMA RefreshReplaceInv ==
  ASSUME RuntimeInv, RefreshReplace
  PROVE  RuntimeInv'
<1> USE ClientFacts DEF RuntimeInv, TypeOK, RefreshReplace, MaybeClient, state, work, history, bounds
<1>1. StateType' BY DEF StateType, Restoring, RecType, RefType, SwType, Backends
<1>2. RefType' BY DEF RefType, RefreshPlaces, NoRefresh, StateType
<1>3. RestType' BY DEF RestType, Displaced, StateType
<1>4. Unborn' BY DEF Unborn, Brought, Untouched, RecoveryBrings, RefreshBrings, SwitchBrings,
    ProcType, RecType, RefType, SwType, NoRecovery, NoRefresh, NoSwitch, CloseClient, Launched,
    Fresh
<1>5. Brought' BY DEF Unborn, Brought, Untouched, RecoveryBrings, RefreshBrings, SwitchBrings,
    RecType, RefType, SwType, Agreement, RecoveryRuns, NoRecovery, NoRefresh, NoSwitch, Fresh
<1>6. Recovered' BY DEF Recovered, Brought, Untouched, RecoveryBrings, RefreshBrings,
    SwitchBrings, RecType, StateType, NoRecovery
<1> QED BY <1>1, <1>2, <1>3, <1>4, <1>5, <1>6, Frames

LEMMA RefreshRestoreInv ==
  ASSUME RuntimeInv, RefreshRestore
  PROVE  RuntimeInv'
<1> USE ClientFacts DEF RuntimeInv, TypeOK, RefreshRestore, MaybeClient, state, work, history, bounds
<1>1. StateType' BY DEF StateType, Restoring, RecType, RefType, SwType, Backends
<1>2. RefType' BY DEF RefType, RefreshPlaces, NoRefresh, StateType
<1>3. Unborn' BY DEF Unborn, Brought, Untouched, RecoveryBrings, RefreshBrings, SwitchBrings,
    ProcType, RecType, RefType, SwType, NoRecovery, NoRefresh, NoSwitch, CloseClient, Launched,
    Fresh
<1>4. Brought' BY DEF Unborn, Brought, Untouched, RecoveryBrings, RefreshBrings, SwitchBrings,
    RecType, RefType, SwType, Agreement, RecoveryRuns, NoRecovery, NoRefresh, NoSwitch, Fresh
<1> QED BY <1>1, <1>2, <1>3, <1>4, Frames

LEMMA RefreshRestoredInv ==
  ASSUME RuntimeInv, RefreshRestored
  PROVE  RuntimeInv'
<1> USE ClientFacts DEF RuntimeInv, TypeOK, RefreshRestored, MaybeClient, state, work, history, bounds
<1>1. StateType' BY DEF StateType, Restoring, RecType, RefType, SwType, Backends
<1>2. RefType' BY DEF RefType, RefreshPlaces, NoRefresh, StateType
<1>3. Unborn' BY DEF Unborn, Brought, Untouched, RecoveryBrings, RefreshBrings, SwitchBrings,
    ProcType, RecType, RefType, SwType, NoRecovery, NoRefresh, NoSwitch, CloseClient, Launched,
    Fresh
<1>4. Brought' BY DEF Unborn, Brought, Untouched, RecoveryBrings, RefreshBrings, SwitchBrings,
    RecType, RefType, SwType, Agreement, RecoveryRuns, NoRecovery, NoRefresh, NoSwitch, Fresh
<1> QED BY <1>1, <1>2, <1>3, <1>4, Frames

LEMMA SwitchCheckInv ==
  ASSUME RuntimeInv, NEW b \in Backends, SwitchCheck(b)
  PROVE  RuntimeInv'
<1> USE ClientFacts DEF RuntimeInv, TypeOK, SwitchCheck, MaybeClient, state, work, history, bounds
<1>1. SwType' BY DEF SwType, SwitchPlaces, NoSwitch, StateType
<1>2. RestType' BY DEF RestType, Displaced, StateType
<1>3. Unborn' BY DEF Unborn, Brought, Untouched, RecoveryBrings, RefreshBrings, SwitchBrings,
    ProcType, RecType, RefType, SwType, NoRecovery, NoRefresh, NoSwitch, CloseClient, Launched,
    Fresh
<1>4. Brought' BY DEF Unborn, Brought, Untouched, RecoveryBrings, RefreshBrings, SwitchBrings,
    RecType, RefType, SwType, Agreement, RecoveryRuns, NoRecovery, NoRefresh, NoSwitch, Fresh
<1>5. Preparing' BY DEF Preparing, SwType, NoSwitch
<1> QED BY <1>1, <1>2, <1>3, <1>4, <1>5, Frames

LEMMA SwitchBeginInv ==
  ASSUME RuntimeInv, SwitchBegin
  PROVE  RuntimeInv'
<1> USE ClientFacts DEF RuntimeInv, TypeOK, SwitchBegin, MaybeClient, state, work, history, bounds
<1>1. StateType' BY DEF StateType, Restoring, RecType, RefType, SwType, Backends
<1>2. SwType' BY DEF SwType, SwitchPlaces, NoSwitch, StateType
<1>3. RestType' BY DEF RestType, Displaced, StateType
<1>4. Unborn' BY DEF Unborn, Brought, Untouched, RecoveryBrings, RefreshBrings, SwitchBrings,
    ProcType, RecType, RefType, SwType, NoRecovery, NoRefresh, NoSwitch, CloseClient, Launched,
    Fresh
<1>5. Brought' BY DEF Unborn, Brought, Untouched, RecoveryBrings, RefreshBrings, SwitchBrings,
    RecType, RefType, SwType, Agreement, RecoveryRuns, NoRecovery, NoRefresh, NoSwitch, Fresh
<1>6. Preparing' BY DEF Preparing, SwType, NoSwitch
<1> QED BY <1>1, <1>2, <1>3, <1>4, <1>5, <1>6, Frames

LEMMA SwitchPrepareInv ==
  ASSUME RuntimeInv, SwitchPrepare
  PROVE  RuntimeInv'
<1> USE ClientFacts DEF RuntimeInv, TypeOK, SwitchPrepare, MaybeClient, state, work, history, bounds
<1>1. ProcType' BY CloseType DEF ProcType, RefType, SwType, RecType, Launched
<1>2. StateType' BY DEF StateType, Restoring, RecType, RefType, SwType, Backends
<1>3. SwType'
  <2>1. CASE sw' = NoSwitch BY ONLY <2>1, NoSwitchType DEF SwType
  <2>2. CASE sw' = [sw EXCEPT !.at = "snapshot"] BY ONLY <2>2, SwType DEF SwType, SwitchPlaces
  <2>3. CASE \E n \in Fresh : sw' = [sw EXCEPT !.at = "snapshot", !.next = n]
    <3>1. PICK n \in Fresh : sw' = [sw EXCEPT !.at = "snapshot", !.next = n] BY <2>3
    <3>2. n \in MaybeClient OBVIOUS
    <3> QED BY ONLY <3>1, <3>2, SwType DEF SwType, SwitchPlaces
  <2> QED BY <2>1, <2>2, <2>3
<1>4. Unborn'
  <2>1. CASE sw.target = "claude" /\ sw' = [sw EXCEPT !.at = "snapshot"] /\ UNCHANGED proc
    <3>1. sw'.next = sw.next /\ sw'.at = "snapshot" BY <2>1 DEF SwType
    <3>2. sw.next = NoClient BY DEF Preparing
    <3>3. UNCHANGED <<proc, slot, rec, told, ref>> BY <2>1
    <3> QED BY ONLY <3>1, <3>2, <3>3, NoClient \notin Clients, Unborn, Brought DEF Unborn, Brought, Untouched, RecoveryBrings, RefreshBrings, SwitchBrings, ProcType
  <2>2. CASE sw' = NoSwitch /\ UNCHANGED proc
    BY <2>2 DEF Unborn, Brought, Untouched, RecoveryBrings, RefreshBrings, SwitchBrings, ProcType, NoSwitch
  <2>3. CASE \E n \in Fresh : proc' = Launched(n) /\ sw' = [sw EXCEPT !.at = "snapshot", !.next = n]
    <3>1. PICK n \in Fresh : proc' = Launched(n) /\ sw' = [sw EXCEPT !.at = "snapshot", !.next = n]
      BY <2>3
    <3>2. sw'.at = "snapshot" /\ sw'.next = n BY <3>1 DEF SwType
    <3>3. proc[n] = "unborn" /\ proc' = [proc EXCEPT ![n] = "up"] BY <3>1 DEF Fresh, Launched
    <3>4. UNCHANGED <<slot, rec, told, ref>> OBVIOUS
    <3>5. n \in Clients OBVIOUS
    <3> QED BY ONLY <3>2, <3>3, <3>4, <3>5, Unborn, Brought, ProcType
         DEF Unborn, Brought, Untouched, RecoveryBrings, RefreshBrings, SwitchBrings, ProcType
  <2> QED BY <2>1, <2>2, <2>3
<1>5. Brought'
  <2>1. CASE sw.target = "claude" /\ sw' = [sw EXCEPT !.at = "snapshot"] /\ UNCHANGED proc
    <3>1. sw'.next = sw.next /\ sw'.at = "snapshot" BY <2>1 DEF SwType
    <3>2. sw.next = NoClient BY DEF Preparing
    <3>3. UNCHANGED <<proc, slot, rec, told, ref>> BY <2>1
    <3> QED BY ONLY <3>1, <3>2, <3>3, NoClient \notin Clients, Unborn, Brought DEF Unborn, Brought, Untouched, RecoveryBrings, RefreshBrings, SwitchBrings, ProcType
  <2>2. CASE sw' = NoSwitch /\ UNCHANGED proc
    BY <2>2 DEF Unborn, Brought, Untouched, RecoveryBrings, RefreshBrings, SwitchBrings, ProcType, NoSwitch
  <2>3. CASE \E n \in Fresh : proc' = Launched(n) /\ sw' = [sw EXCEPT !.at = "snapshot", !.next = n]
    <3>1. PICK n \in Fresh : proc' = Launched(n) /\ sw' = [sw EXCEPT !.at = "snapshot", !.next = n]
      BY <2>3
    <3>2. sw'.at = "snapshot" /\ sw'.next = n BY <3>1 DEF SwType
    <3>3. proc[n] = "unborn" /\ proc' = [proc EXCEPT ![n] = "up"] BY <3>1 DEF Fresh, Launched
    <3>4. UNCHANGED <<slot, rec, told, ref>> OBVIOUS
    <3>5. n \in Clients OBVIOUS
    <3> QED BY ONLY <3>2, <3>3, <3>4, <3>5, Unborn, Brought, ProcType
         DEF Unborn, Brought, Untouched, RecoveryBrings, RefreshBrings, SwitchBrings, ProcType
  <2> QED BY <2>1, <2>2, <2>3
<1>6. Preparing'
  <2>1. CASE sw' = NoSwitch BY <2>1 DEF Preparing, NoSwitch
  <2>2. CASE sw'.at = "snapshot" BY <2>2 DEF Preparing
  <2> QED BY <2>1, <2>2 DEF SwType
<1> QED BY <1>1, <1>2, <1>3, <1>4, <1>5, <1>6, Frames

LEMMA SwitchSnapshotInv ==
  ASSUME RuntimeInv, SwitchSnapshot
  PROVE  RuntimeInv'
<1> USE ClientFacts DEF RuntimeInv, TypeOK, SwitchSnapshot, MaybeClient, state, work, history, bounds
<1>1. SwType' BY DEF SwType, SwitchPlaces, NoSwitch, StateType
<1>2. Unborn' BY DEF Unborn, Brought, Untouched, RecoveryBrings, RefreshBrings, SwitchBrings,
    ProcType, RecType, RefType, SwType, NoRecovery, NoRefresh, NoSwitch, CloseClient, Launched,
    Fresh
<1>3. Brought' BY DEF Unborn, Brought, Untouched, RecoveryBrings, RefreshBrings, SwitchBrings,
    RecType, RefType, SwType, Agreement, RecoveryRuns, NoRecovery, NoRefresh, NoSwitch, Fresh
<1>4. Preparing' BY DEF Preparing, SwType, NoSwitch
<1> QED BY <1>1, <1>2, <1>3, <1>4, Frames

LEMMA SwitchCommitInv ==
  ASSUME RuntimeInv, SwitchCommit
  PROVE  RuntimeInv'
<1> USE ClientFacts DEF RuntimeInv, TypeOK, SwitchCommit, MaybeClient, state, work, history, bounds
<1>1. ProcType' BY CloseType DEF ProcType, RefType, SwType, RecType, Launched
<1>2. StateType' BY DEF StateType, Restoring, RecType, RefType, SwType, Backends
<1>3. SwType'
  <2>1. CASE sw' = NoSwitch BY ONLY <2>1, NoSwitchType DEF SwType
  <2>2. CASE sw' = [sw EXCEPT !.at = "install"] BY ONLY <2>2, SwType DEF SwType, SwitchPlaces
  <2> QED BY <2>1, <2>2
<1>4. Unborn' BY DEF Unborn, Brought, Untouched, RecoveryBrings, RefreshBrings, SwitchBrings,
    ProcType, RecType, RefType, SwType, NoRecovery, NoRefresh, NoSwitch, CloseClient, Launched,
    Fresh
<1>5. Brought' BY DEF Unborn, Brought, Untouched, RecoveryBrings, RefreshBrings, SwitchBrings,
    RecType, RefType, SwType, Agreement, RecoveryRuns, NoRecovery, NoRefresh, NoSwitch, Fresh
<1>6. Preparing' BY DEF Preparing, SwType, NoSwitch
<1> QED BY <1>1, <1>2, <1>3, <1>4, <1>5, <1>6, Frames

LEMMA SwitchSetBackendInv ==
  ASSUME RuntimeInv, SwitchSetBackend
  PROVE  RuntimeInv'
<1> USE ClientFacts DEF RuntimeInv, TypeOK, SwitchSetBackend, MaybeClient, state, work, history, bounds
<1>1. StateType' BY DEF StateType, Restoring, RecType, RefType, SwType, Backends
<1>2. SwType' BY DEF SwType, SwitchPlaces, NoSwitch, StateType
<1>3. Unborn' BY DEF Unborn, Brought, Untouched, RecoveryBrings, RefreshBrings, SwitchBrings,
    ProcType, RecType, RefType, SwType, NoRecovery, NoRefresh, NoSwitch, CloseClient, Launched,
    Fresh
<1>4. Brought' BY DEF Unborn, Brought, Untouched, RecoveryBrings, RefreshBrings, SwitchBrings,
    RecType, RefType, SwType, Agreement, RecoveryRuns, NoRecovery, NoRefresh, NoSwitch, Fresh
<1>5. Preparing' BY DEF Preparing, SwType, NoSwitch
<1> QED BY <1>1, <1>2, <1>3, <1>4, <1>5, Frames

LEMMA SwitchReplaceInv ==
  ASSUME RuntimeInv, SwitchReplace
  PROVE  RuntimeInv'
<1> USE ClientFacts DEF RuntimeInv, TypeOK, SwitchReplace, MaybeClient, state, work, history, bounds
<1>1. StateType' BY DEF StateType, Restoring, RecType, RefType, SwType, Backends
<1>2. SwType' BY DEF SwType, SwitchPlaces, NoSwitch, StateType
<1>3. RestType' BY DEF RestType, Displaced, StateType
<1>4. Unborn' BY DEF Unborn, Brought, Untouched, RecoveryBrings, RefreshBrings, SwitchBrings,
    ProcType, RecType, RefType, SwType, NoRecovery, NoRefresh, NoSwitch, CloseClient, Launched,
    Fresh
<1>5. Brought' BY DEF Unborn, Brought, Untouched, RecoveryBrings, RefreshBrings, SwitchBrings,
    RecType, RefType, SwType, Agreement, RecoveryRuns, NoRecovery, NoRefresh, NoSwitch, Fresh
<1>6. Recovered' BY DEF Recovered, Brought, Untouched, RecoveryBrings, RefreshBrings,
    SwitchBrings, RecType, StateType, NoRecovery
<1>7. Preparing' BY DEF Preparing, SwType, NoSwitch
<1> QED BY <1>1, <1>2, <1>3, <1>4, <1>5, <1>6, <1>7, Frames

LEMMA SwitchRecoverInv ==
  ASSUME RuntimeInv, SwitchRecover
  PROVE  RuntimeInv'
<1> USE ClientFacts DEF RuntimeInv, TypeOK, SwitchRecover, MaybeClient, state, work, history, bounds
<1>1. StateType' BY DEF StateType, Restoring, RecType, RefType, SwType, Backends
<1>2. SwType' BY DEF SwType, SwitchPlaces, NoSwitch, StateType
<1>3. Unborn' BY DEF Unborn, Brought, Untouched, RecoveryBrings, RefreshBrings, SwitchBrings,
    ProcType, RecType, RefType, SwType, NoRecovery, NoRefresh, NoSwitch, CloseClient, Launched,
    Fresh
<1>4. Brought' BY DEF Unborn, Brought, Untouched, RecoveryBrings, RefreshBrings, SwitchBrings,
    RecType, RefType, SwType, Agreement, RecoveryRuns, NoRecovery, NoRefresh, NoSwitch, Fresh
<1>5. Preparing' BY DEF Preparing, SwType, NoSwitch
<1> QED BY <1>1, <1>2, <1>3, <1>4, <1>5, Frames

LEMMA SwitchRecoveredInv ==
  ASSUME RuntimeInv, SwitchRecovered
  PROVE  RuntimeInv'
<1> USE ClientFacts DEF RuntimeInv, TypeOK, SwitchRecovered, MaybeClient, state, work, history, bounds
<1>1. StateType' BY DEF StateType, Restoring, RecType, RefType, SwType, Backends
<1>2. SwType' BY DEF SwType, SwitchPlaces, NoSwitch, StateType
<1>3. Unborn' BY DEF Unborn, Brought, Untouched, RecoveryBrings, RefreshBrings, SwitchBrings,
    ProcType, RecType, RefType, SwType, NoRecovery, NoRefresh, NoSwitch, CloseClient, Launched,
    Fresh
<1>4. Brought' BY DEF Unborn, Brought, Untouched, RecoveryBrings, RefreshBrings, SwitchBrings,
    RecType, RefType, SwType, Agreement, RecoveryRuns, NoRecovery, NoRefresh, NoSwitch, Fresh
<1>5. Preparing' BY DEF Preparing, SwType, NoSwitch
<1> QED BY <1>1, <1>2, <1>3, <1>4, <1>5, Frames

LEMMA SwitchCloseInv ==
  ASSUME RuntimeInv, SwitchClose
  PROVE  RuntimeInv'
<1> USE ClientFacts DEF RuntimeInv, TypeOK, SwitchClose, MaybeClient, state, work, history, bounds
<1>1. ProcType' BY CloseType DEF ProcType, RefType, SwType, RecType, Launched
<1>2. StateType' BY DEF StateType, Restoring, RecType, RefType, SwType, Backends
<1>3. SwType' BY NoSwitchType DEF SwType
<1>4. Unborn' BY DEF Unborn, Brought, Untouched, RecoveryBrings, RefreshBrings, SwitchBrings,
    ProcType, RecType, RefType, SwType, NoRecovery, NoRefresh, NoSwitch, CloseClient, Launched,
    Fresh
<1>5. Brought' BY DEF Unborn, Brought, Untouched, RecoveryBrings, RefreshBrings, SwitchBrings,
    RecType, RefType, SwType, Agreement, RecoveryRuns, NoRecovery, NoRefresh, NoSwitch, Fresh
<1>6. Preparing' BY DEF Preparing, SwType, NoSwitch
<1> QED BY <1>1, <1>2, <1>3, <1>4, <1>5, <1>6, Frames

LEMMA MessageInv ==
  ASSUME RuntimeInv, Message
  PROVE  RuntimeInv'
<1> USE ClientFacts DEF RuntimeInv, TypeOK, Message, MaybeClient, state, work, history, bounds
<1>1. RestType' BY DEF RestType, Displaced, StateType
<1>2. DeferredWorkHasResumer' BY DEF DeferredWorkHasResumer, Agreement, RecoveryRuns, RecType,
    StateType, NoRecovery
<1> QED BY <1>1, <1>2, Frames

LEMMA StartNextSubmissionInv ==
  ASSUME RuntimeInv, StartNextSubmission
  PROVE  RuntimeInv'
<1> USE ClientFacts DEF RuntimeInv, TypeOK, StartNextSubmission, MaybeClient, state, work, history, bounds
<1>1. RestType' BY DEF RestType, Displaced, StateType
<1>2. DeferredWorkHasResumer' BY DEF DeferredWorkHasResumer, Agreement, RecoveryRuns, RecType,
    StateType, NoRecovery
<1> QED BY <1>1, <1>2, Frames

\* Every step keeps the invariant.
LEMMA StepInv == RuntimeInv /\ [Next]_vars => RuntimeInv'
<1> SUFFICES ASSUME RuntimeInv, [Next]_vars PROVE RuntimeInv' OBVIOUS
<1>1. ASSUME NEW c \in Clients, ClientDies(c) \/ HandleTransportFailure(c) PROVE RuntimeInv'
  BY <1>1, ClientDiesInv, HandleTransportFailureInv
<1>2. ASSUME NEW c \in Clients, Recovery(c) PROVE RuntimeInv'
  BY <1>2, RecoverStartInv, RecoverStartFailsInv, CompleteRecoveryInv, RecoverLoseInv,
     RecoverRestoreInv, RecoverRestoredInv, ResumeQueuedSessionsInv, RecoverCloseInv
     DEF Recovery
<1>3. CASE RestartAdmit \/ Refresh
  BY <1>3, RestartAdmitInv, RestartBeginInv, RestartGivesUpInv, RefreshCheckInv,
     RefreshStartInv, RefreshReadInv, RefreshCloseInv, RefreshReplaceInv, RefreshRestoreInv,
     RefreshRestoredInv DEF Refresh
<1>4. ASSUME NEW b \in Backends, SwitchCheck(b) PROVE RuntimeInv'
  BY <1>4, SwitchCheckInv
<1>5. CASE Switch
  BY <1>5, SwitchBeginInv, SwitchPrepareInv, SwitchSnapshotInv, SwitchCommitInv,
     SwitchSetBackendInv, SwitchReplaceInv, SwitchRecoverInv, SwitchRecoveredInv,
     SwitchCloseInv DEF Switch
<1>6. CASE Message \/ StartNextSubmission
  BY <1>6, MessageInv, StartNextSubmissionInv
<1>7. CASE UNCHANGED vars
  BY <1>7, Frames DEF vars, state, work, history, bounds, RuntimeInv, TypeOK
<1> QED BY <1>1, <1>2, <1>3, <1>4, <1>5, <1>6, <1>7 DEF Next

\* Hence the invariant holds in every state.
LEMMA RuntimeInvariant == Spec => []RuntimeInv
  BY InitInv, StepInv, PTL DEF Spec

(***************************************************************************)
(* RecoveryState always agrees with the goroutines that use it: recovering *)
(* is set exactly while the recovery of its source has yet to complete, so *)
(* no recovery is begun twice and none completes in the place of another.  *)
(***************************************************************************)
THEOREM RuntimeTypeCorrect == Spec => []TypeOK
<1>1. RuntimeInv => TypeOK BY DEF RuntimeInv
<1> QED BY <1>1, RuntimeInvariant, PTL

(***************************************************************************)
(* A message that StartNextSubmission deferred because the runtime was     *)
(* recovering always has a start pending, or a recovery on its way to      *)
(* ResumeQueuedSessions, unless the last recovery installed no client.     *)
(***************************************************************************)
THEOREM RuntimeDeferredWork == Spec => []DeferredWorkHasResumer
<1>1. RuntimeInv => DeferredWorkHasResumer BY DEF RuntimeInv
<1> QED BY <1>1, RuntimeInvariant, PTL

(***************************************************************************)
(* A dead client whose failure HandleTransportFailure could hear is never  *)
(* the installed one: its recovery took it out, and no recovery, restart   *)
(* or switch puts a client in that was in before.                          *)
(***************************************************************************)
THEOREM RuntimeDeadClient == Spec => []DeadClientRemoved
<1>1. RuntimeInv => DeadClientRemoved
  BY DEF RuntimeInv, Reported, Recovered, DeadClientRemoved
<1> QED BY <1>1, RuntimeInvariant, PTL

-----------------------------------------------------------------------------
(* Server requests and their cards.                                        *)

MaybeTurn == {NoTurn} \cup Turns
MaybeRequest == {{}} \cup Requests
DispSteps == {"idle", "existing", "expire", "save", "wait", "send", "record", "blocked",
              "resume", "finalize", "session", "clean", "delete", "panic"}
Event == {e \in [kind : {"ask", "resolved", "completed"}, r : MaybeRequest, turn : MaybeTurn] :
            e.kind # "completed" => e.r \in Requests}
Place == {p \in [at : DispSteps, r : MaybeRequest, turn : MaybeTurn, card : BOOLEAN] :
            p.at = "existing" => p.r \in Requests}
NextSteps == DispSteps \ {"existing"}
ServerView == [state : {"unused", "asked", "answered", "closed"}, turn : MaybeTurn]

\* The types of the store, and what the dispatcher, the wire and the App Server
\* hold between two steps.
RequestTypes ==
  /\ pend \in [Requests -> Request] /\ sub \in [Turns -> Submission] /\ active \in MaybeTurn
  /\ wire \in Seq(Event) /\ srvTurn \in MaybeTurn /\ srv \in [Requests -> ServerView]
  /\ disp \in Place

\* A request that is about to be saved is new: no other goroutine creates one
\* between the look at the store and the save.
SavesNew == \A r \in Requests : disp.at = "save" /\ disp.r = r => pend[r].status = "none"

RequestsInv == RequestTypes /\ SavesNew

NotReopened ==
  \A r \in Requests :
    /\ pend[r].status = "replied" => pend'[r].status # "pending"
    /\ pend[r].status \in Closed => pend'[r].status \notin OpenStates

FailsAtOnce ==
  \A t \in Turns :
    sub[t].status # "failed" /\ sub'[t].status = "failed"
      => /\ active' # t
         /\ \A r \in Requests : pend'[r].turn = t => pend'[r].status \notin OpenStates

LEMMA RequestRecords ==
  ASSUME NEW p \in [Requests -> Request], NEW x
  PROVE  /\ \A s \in RequestStates : [p EXCEPT ![x].status = s] \in [Requests -> Request]
         /\ [p EXCEPT ![x].card = TRUE] \in [Requests -> Request]
         /\ \A q \in Request : [p EXCEPT ![x] = q] \in [Requests -> Request]
  BY DEF Request

LEMMA SubmissionRecords ==
  ASSUME NEW u \in [Turns -> Submission], NEW x
  PROVE  /\ \A s \in {"running", "waiting", "completed", "failed", "deleted"} :
              [u EXCEPT ![x].status = s] \in [Turns -> Submission]
         /\ \A q \in Submission : [u EXCEPT ![x] = q] \in [Turns -> Submission]
  BY DEF Submission

LEMMA ViewRecords ==
  ASSUME NEW v \in [Requests -> ServerView], NEW x
  PROVE  \A s \in {"unused", "asked", "answered", "closed"} :
            [v EXCEPT ![x].state = s] \in [Requests -> ServerView]
  BY DEF ServerView

LEMMA PlaceRecords ==
  ASSUME NEW d \in Place
  PROVE  /\ \A s \in NextSteps : [d EXCEPT !.at = s] \in Place
         /\ \A b \in BOOLEAN : [d EXCEPT !.at = "wait", !.card = b] \in Place
         /\ \A y \in Requests, w \in MaybeTurn :
              [at |-> "existing", r |-> y, turn |-> w, card |-> FALSE] \in Place
         /\ \A y \in MaybeRequest, w \in MaybeTurn :
              [Idle EXCEPT !.at = "blocked", !.r = y, !.turn = w] \in Place
         /\ \A w \in MaybeTurn : [Idle EXCEPT !.at = "finalize", !.turn = w] \in Place
         /\ Idle \in Place
         /\ d.turn \in MaybeTurn /\ (d.at = "existing" => d.r \in Requests)
  <1>1. Idle \in Place
    BY DEF Place, Idle, DispSteps, MaybeRequest, MaybeTurn
  <1>2. \A s \in NextSteps : [d EXCEPT !.at = s] \in Place
    BY DEF Place, NextSteps
  <1>3. \A b \in BOOLEAN : [d EXCEPT !.at = "wait", !.card = b] \in Place
    BY DEF Place, DispSteps
  <1>4. \A y \in Requests, w \in MaybeTurn :
           [at |-> "existing", r |-> y, turn |-> w, card |-> FALSE] \in Place
    BY DEF Place, DispSteps, MaybeRequest
  <1>5. \A y \in MaybeRequest, w \in MaybeTurn :
           [Idle EXCEPT !.at = "blocked", !.r = y, !.turn = w] \in Place
    BY DEF Place, DispSteps, Idle
  <1>6. \A w \in MaybeTurn : [Idle EXCEPT !.at = "finalize", !.turn = w] \in Place
    BY DEF Place, DispSteps, Idle, MaybeRequest
  <1>7. d.turn \in MaybeTurn /\ (d.at = "existing" => d.r \in Requests)
    BY DEF Place
  <1> QED
    BY <1>1, <1>2, <1>3, <1>4, <1>5, <1>6, <1>7

LEMMA EventFields ==
  ASSUME NEW w \in Seq(Event), w # <<>>
  PROVE  /\ Tail(w) \in Seq(Event) /\ Head(w).turn \in MaybeTurn
         /\ Head(w).kind # "completed" => Head(w).r \in Requests
  <1>1. Head(w) \in Event /\ Tail(w) \in Seq(Event)
    OBVIOUS
  <1> QED
    BY <1>1 DEF Event

LEMMA PendKept ==
  ASSUME RequestsInv, [RequestsNext]_requestsVars
  PROVE  pend' \in [Requests -> Request]
  <1> USE DEF RequestsInv, RequestTypes, store, others, server
  <1>1. CASE OpenExpire
    BY <1>1, RequestRecords DEF OpenExpire, RequestStates, Closed
  <1>2. CASE OpenSave
    <2>1. [NoRequest EXCEPT !.status = "pending", !.turn = disp.turn] \in Request
      BY PlaceRecords DEF NoRequest, Request, RequestStates, OpenStates, MaybeTurn
    <2> QED
      BY <1>2, <2>1, RequestRecords DEF OpenSave
  <1>3. CASE OpenRecord
    BY <1>3, RequestRecords DEF OpenRecord
  <1>4. CASE Resolve
    <2>1. pend' = pend \/ pend' = [pend EXCEPT ![Head(wire).r].status = "resolved"]
      BY <1>4 DEF Resolve
    <2>2. [pend EXCEPT ![Head(wire).r].status = "resolved"] \in [Requests -> Request]
      BY RequestRecords DEF RequestStates, Closed
    <2> QED
      BY <2>1, <2>2
  <1>5. CASE FinishCleanRequests
    <2>1. NoRequest \in Request
      BY DEF NoRequest, Request, RequestStates, NoTurn
    <2> QED
      BY <1>5, <2>1 DEF FinishCleanRequests, WithoutRequests
  <1>6. CASE FinalizeReply
    BY <1>6, RequestRecords DEF FinalizeReply, ReplyAccepted, RequestStates, OpenStates
  <1>7. CASE FailCommit
    <2>1. CASE ReadSetUnchanged
      <3>1. \A r \in Requests : [pend[r] EXCEPT !.status = "resolved"] \in Request
        BY DEF Request, RequestStates, Closed
      <3> QED
        BY <1>7, <2>1, <3>1 DEF FailCommit, ReadSetUnchanged
    <2>2. CASE ~ReadSetUnchanged
      BY <1>7, <2>2 DEF FailCommit
    <2> QED
      BY <2>1, <2>2
  <1>8. CASE FailCleanRequests
    <2>1. NoRequest \in Request
      BY DEF NoRequest, Request, RequestStates, NoTurn
    <2> QED
      BY <1>8, <2>1 DEF FailCleanRequests, WithoutRequests
  <1>9. CASE (\E t \in Turns : StartTurn(t))
             \/ (\E r \in Requests : ServerAsks(r) \/ ServerRepeats(r) \/ ServerResolves(r) \/ Press(r))
             \/ ServerCompletes \/ FailTransport \/ OpenFind \/ OpenExisting
             \/ OpenExistingLate \/ OpenWait \/ OpenSend \/ OpenSendFails \/ ResumeCheck
             \/ ResumeSubmission \/ FinishFind \/ FinishFinalize \/ FinishSession
             \/ FinishDelete \/ ClickReply \/ FailSessions \/ FailRead \/ FailDelete
             \/ UNCHANGED requestsVars
    BY <1>9 DEF StartTurn, ServerAsks, ServerRepeats, ServerResolves, Press, ServerCompletes,
                FailTransport, OpenFind, OpenExisting, OpenExistingLate, OpenWait, OpenSend,
                OpenSendFails, ResumeCheck, ResumeSubmission, FinishFind, FinishFinalize,
                FinishSession, FinishDelete, ClickReply, FailSessions, FailRead, FailDelete,
                requestsVars
  <1> QED
    BY <1>1, <1>2, <1>3, <1>4, <1>5, <1>6, <1>7, <1>8, <1>9
       DEF RequestsNext, Dispatcher, Clicker, Failer

LEMMA SubKept ==
  ASSUME RequestsInv, [RequestsNext]_requestsVars
  PROVE  sub' \in [Turns -> Submission] /\ active' \in MaybeTurn
  <1> USE DEF RequestsInv, RequestTypes, store, others, server
  <1>1. ASSUME NEW t \in Turns, StartTurn(t) PROVE sub' \in [Turns -> Submission] /\ active' \in MaybeTurn
    BY <1>1, SubmissionRecords DEF StartTurn, MaybeTurn
  <1>2. CASE OpenWait
    <2>1. sub' = sub \/ sub' = [sub EXCEPT ![disp.turn].status = "waiting"]
      BY <1>2 DEF MaybeTurn, OpenWait
    <2>2. [sub EXCEPT ![disp.turn].status = "waiting"] \in [Turns -> Submission]
      BY SubmissionRecords
    <2> QED
      BY <1>2, <2>1, <2>2 DEF MaybeTurn, OpenWait
  <1>3. CASE ResumeSubmission
    BY <1>3, SubmissionRecords DEF ResumeSubmission, MaybeTurn
  <1>4. CASE FinishFinalize
    <2>1. [status |-> "completed", final |-> TRUE] \in Submission
      BY DEF Submission
    <2> QED
      BY <1>4, <2>1, SubmissionRecords DEF MaybeTurn, FinishFinalize
  <1>5. CASE FinishSession
    BY <1>5 DEF FinishSession, MaybeTurn
  <1>6. CASE FinishDelete
    BY <1>6, SubmissionRecords DEF FinishDelete, MaybeTurn
  <1>7. CASE FailCommit
    <2>1. sub' = sub \/ sub' = [sub EXCEPT ![fail.turn] = [status |-> "failed", final |-> TRUE]]
      BY <1>7 DEF MaybeTurn, FailCommit
    <2>2. [status |-> "failed", final |-> TRUE] \in Submission
      BY DEF Submission
    <2>3. [sub EXCEPT ![fail.turn] = [status |-> "failed", final |-> TRUE]] \in [Turns -> Submission]
      BY <2>2, SubmissionRecords
    <2>4. active' \in {active, NoTurn}
      BY <1>7 DEF MaybeTurn, FailCommit
    <2> QED
      BY <2>1, <2>3, <2>4 DEF MaybeTurn
  <1>8. CASE FailDelete
    BY <1>8, SubmissionRecords DEF FailDelete, MaybeTurn
  <1>9. CASE
             \/ (\E r \in Requests : ServerAsks(r) \/ ServerRepeats(r) \/ ServerResolves(r) \/ Press(r))
             \/ ServerCompletes \/ FailTransport \/ OpenFind \/ OpenExisting
             \/ OpenExistingLate \/ OpenExpire \/ OpenSave \/ OpenSend \/ OpenSendFails
             \/ OpenRecord \/ Resolve \/ ResumeCheck \/ FinishFind \/ FinishCleanRequests
             \/ ClickReply \/ FinalizeReply \/ FailSessions \/ FailRead \/ FailCleanRequests
             \/ UNCHANGED requestsVars
    BY <1>9 DEF ServerAsks, ServerRepeats, ServerResolves, Press, ServerCompletes,
                FailTransport, OpenFind, OpenExisting, OpenExistingLate, OpenExpire, OpenSave,
                OpenSend, OpenSendFails, OpenRecord, Resolve, ResumeCheck, FinishFind,
                FinishCleanRequests, ClickReply, FinalizeReply, FailSessions, FailRead,
                FailCleanRequests, requestsVars
  <1> QED
    BY <1>1, <1>2, <1>3, <1>4, <1>5, <1>6, <1>7, <1>8, <1>9
       DEF RequestsNext, Dispatcher, Clicker, Failer

LEMMA WireKept ==
  ASSUME RequestsInv, [RequestsNext]_requestsVars
  PROVE  wire' \in Seq(Event)
  <1> USE DEF RequestsInv, RequestTypes, store, others, server
  <1>1. ASSUME NEW r \in Requests, ServerAsks(r) PROVE wire' \in Seq(Event)
    <2>1. [kind |-> "ask", r |-> r, turn |-> srvTurn] \in Event
      BY <1>1 DEF ServerAsks, Event, ServerView, MaybeRequest, MaybeTurn
    <2> QED
      BY <1>1, <2>1 DEF ServerAsks
  <1>2. ASSUME NEW r \in Requests, ServerRepeats(r) PROVE wire' \in Seq(Event)
    <2>1. [kind |-> "ask", r |-> r, turn |-> srv[r].turn] \in Event
      BY <1>2 DEF ServerRepeats, Event, ServerView, MaybeRequest, MaybeTurn
    <2> QED
      BY <1>2, <2>1 DEF ServerRepeats
  <1>3. ASSUME NEW r \in Requests, ServerResolves(r) PROVE wire' \in Seq(Event)
    <2>1. [kind |-> "resolved", r |-> r, turn |-> srv[r].turn] \in Event
      BY <1>3 DEF ServerResolves, Event, ServerView, MaybeRequest, MaybeTurn
    <2> QED
      BY <1>3, <2>1 DEF ServerResolves
  <1>4. CASE ServerCompletes
    <2>1. [kind |-> "completed", r |-> {}, turn |-> srvTurn] \in Event
      BY <1>4 DEF ServerCompletes, Event, ServerView, MaybeRequest, MaybeTurn
    <2> QED
      BY <1>4, <2>1 DEF ServerCompletes
  <1>5. CASE OpenFind
    BY <1>5, EventFields DEF OpenFind, Arrives
  <1>6. CASE Resolve
    BY <1>6, EventFields DEF Resolve, Arrives
  <1>7. CASE FinishFind
    BY <1>7, EventFields DEF FinishFind, Arrives
  <1>8. CASE (\E t \in Turns : StartTurn(t)) \/ (\E r \in Requests : Press(r))
             \/ FailTransport \/ OpenExisting \/ OpenExistingLate \/ OpenExpire \/ OpenSave
             \/ OpenWait \/ OpenSend \/ OpenSendFails \/ OpenRecord \/ ResumeCheck
             \/ ResumeSubmission \/ FinishFinalize \/ FinishSession \/ FinishCleanRequests
             \/ FinishDelete \/ ClickReply \/ FinalizeReply \/ FailSessions \/ FailRead
             \/ FailCommit \/ FailCleanRequests \/ FailDelete \/ UNCHANGED requestsVars
    BY <1>8 DEF StartTurn, Press, FailTransport, OpenExisting, OpenExistingLate, OpenExpire,
                OpenSave, OpenWait, OpenSend, OpenSendFails, OpenRecord, ResumeCheck,
                ResumeSubmission, FinishFinalize, FinishSession, FinishCleanRequests,
                FinishDelete, ClickReply, FinalizeReply, FailSessions, FailRead, FailCommit,
                FailCleanRequests, FailDelete, requestsVars
  <1> QED
    BY <1>1, <1>2, <1>3, <1>4, <1>5, <1>6, <1>7, <1>8
       DEF RequestsNext, Dispatcher, Clicker, Failer

LEMMA AnsweredType ==
  ASSUME srv \in [Requests -> ServerView], NEW x
  PROVE  Answered(x) \in [Requests -> ServerView]
  <1>1. Answered(x) = [srv EXCEPT ![x].state = "answered"] \/ Answered(x) = srv
    <2>1. CASE x \in Requests
      <3>1. srv[x] \in ServerView
        BY <2>1
      <3> DEFINE kept == [srv[x] EXCEPT !.state = srv[x].state]
      <3>2. kept = srv[x]
        BY <3>1 DEF ServerView
      <3>3. [srv EXCEPT ![x] = kept] = srv
        BY <3>2
      <3> QED
        BY <3>3 DEF Answered
    <2>2. CASE x \notin Requests
      BY <2>2 DEF Answered
    <2> QED
      BY <2>1, <2>2
  <1>2. [srv EXCEPT ![x].state = "answered"] \in [Requests -> ServerView]
    BY ViewRecords
  <1> QED
    BY <1>1, <1>2

LEMMA ServerKept ==
  ASSUME RequestsInv, [RequestsNext]_requestsVars
  PROVE  srvTurn' \in MaybeTurn /\ srv' \in [Requests -> ServerView]
  <1> USE DEF RequestsInv, RequestTypes, store, others, server
  <1>1. ASSUME NEW t \in Turns, StartTurn(t) PROVE srvTurn' \in MaybeTurn /\ srv' \in [Requests -> ServerView]
    BY <1>1 DEF StartTurn, MaybeTurn
  <1>2. ASSUME NEW r \in Requests, ServerAsks(r) PROVE srvTurn' \in MaybeTurn /\ srv' \in [Requests -> ServerView]
    <2>1. [state |-> "asked", turn |-> srvTurn] \in ServerView
      BY DEF ServerView
    <2> QED
      BY <1>2, <2>1 DEF ServerAsks
  <1>3. ASSUME NEW r \in Requests, ServerResolves(r) PROVE srvTurn' \in MaybeTurn /\ srv' \in [Requests -> ServerView]
    BY <1>3, ViewRecords DEF ServerResolves
  <1>4. CASE ServerCompletes
    <2>1. \A r \in Requests : [srv[r] EXCEPT !.state = "closed"] \in ServerView
      BY DEF ServerView
    <2> QED
      BY <1>4, <2>1 DEF ServerCompletes, MaybeTurn
  <1>5. CASE FailTransport
    BY <1>5 DEF FailTransport, MaybeTurn
  <1>6. CASE OpenFind
    <2>1. srv' = srv \/ srv' = Answered(Head(wire).r)
      BY <1>6 DEF OpenFind, ReplyCodexError
    <2> QED
      BY <1>6, <2>1, AnsweredType DEF OpenFind
  <1>7. CASE OpenWait
    <2>1. srv' = srv \/ srv' = Answered(disp.r)
      BY <1>7 DEF OpenWait, ReplyCodexError
    <2> QED
      BY <1>7, <2>1, AnsweredType DEF OpenWait
  <1>8. CASE OpenSendFails
    <2>1. srv' = srv \/ srv' = Answered(disp.r)
      BY <1>8 DEF OpenSendFails, ReplyCodexError
    <2> QED
      BY <1>8, <2>1, AnsweredType DEF OpenSendFails
  <1>9. CASE OpenRecord
    <2>1. srv' = srv \/ srv' = Answered(disp.r)
      BY <1>9 DEF OpenRecord, ReplyCodexError
    <2> QED
      BY <1>9, <2>1, AnsweredType DEF OpenRecord
  <1>10. CASE ClickReply
    <2>1. srv' = srv \/ srv' = Answered(click.r)
      BY <1>10 DEF ClickReply, ReplyCodexError
    <2> QED
      BY <1>10, <2>1, AnsweredType DEF ClickReply
  <1>11. CASE (\E r \in Requests : ServerRepeats(r) \/ Press(r)) \/ OpenExisting
              \/ OpenExistingLate \/ OpenExpire \/ OpenSave \/ OpenSend \/ Resolve
              \/ ResumeCheck \/ ResumeSubmission \/ FinishFind \/ FinishFinalize
              \/ FinishSession \/ FinishCleanRequests \/ FinishDelete \/ FinalizeReply
              \/ FailSessions \/ FailRead \/ FailCommit \/ FailCleanRequests \/ FailDelete
              \/ UNCHANGED requestsVars
    BY <1>11 DEF ServerRepeats, Press, OpenExisting, OpenExistingLate, OpenExpire, OpenSave,
                 OpenSend, Resolve, ResumeCheck, ResumeSubmission, FinishFind, FinishFinalize,
                 FinishSession, FinishCleanRequests, FinishDelete, FinalizeReply,
                 FailSessions, FailRead, FailCommit, FailCleanRequests, FailDelete,
                 requestsVars
  <1> QED
    BY <1>1, <1>2, <1>3, <1>4, <1>5, <1>6, <1>7, <1>8, <1>9, <1>10, <1>11
       DEF RequestsNext, Dispatcher, Clicker, Failer

LEMMA DispKept ==
  ASSUME RequestsInv, [RequestsNext]_requestsVars
  PROVE  disp' \in Place
  <1> USE DEF RequestsInv, RequestTypes, store, others, server
  <1>1. CASE OpenFind
    <2>1. Head(wire).r \in Requests /\ Head(wire).turn \in MaybeTurn
      BY <1>1, EventFields DEF OpenFind, Arrives
    <2>2. [at |-> "existing", r |-> Head(wire).r, turn |-> Head(wire).turn, card |-> FALSE] \in Place
      BY <2>1, PlaceRecords
    <2>3. disp' \in {Idle, [at |-> "existing", r |-> Head(wire).r, turn |-> Head(wire).turn, card |-> FALSE]}
      BY <1>1 DEF OpenFind, ReplyCodexError
    <2> QED
      BY <2>2, <2>3, PlaceRecords
  <1>2. CASE OpenExisting
    <2>1. pend[disp.r].card \in BOOLEAN
      BY <1>2, PlaceRecords DEF OpenExisting, Request
    <2>2. [disp EXCEPT !.at = "wait", !.card = pend[disp.r].card] \in Place
      BY <2>1, PlaceRecords
    <2>3. disp' \in {Idle, [disp EXCEPT !.at = "save"],
                     [disp EXCEPT !.at = "wait", !.card = pend[disp.r].card]}
      BY <1>2 DEF OpenExisting
    <2>4. [disp EXCEPT !.at = "save"] \in Place /\ Idle \in Place
      BY PlaceRecords DEF NextSteps, DispSteps
    <2> QED
      BY <2>2, <2>3, <2>4
  <1>3. CASE OpenExistingLate
    BY <1>3, PlaceRecords DEF OpenExistingLate, ReplyCodexError, NextSteps, DispSteps
  <1>4. CASE OpenExpire
    BY <1>4, PlaceRecords DEF OpenExpire, ReplyCodexError, NextSteps, DispSteps
  <1>5. CASE OpenSave
    BY <1>5, PlaceRecords DEF OpenSave, ReplyCodexError, NextSteps, DispSteps
  <1>6. CASE OpenWait
    <2>1. disp' \in {Idle, [disp EXCEPT !.at = "send"]}
      BY <1>6 DEF OpenWait, ReplyCodexError
    <2>2. [disp EXCEPT !.at = "send"] \in Place /\ Idle \in Place
      BY PlaceRecords DEF NextSteps, DispSteps
    <2> QED
      BY <2>1, <2>2
  <1>7. CASE OpenSend
    BY <1>7, PlaceRecords DEF OpenSend, ReplyCodexError, NextSteps, DispSteps
  <1>8. CASE OpenSendFails
    BY <1>8, PlaceRecords DEF OpenSendFails, ReplyCodexError, NextSteps, DispSteps
  <1>9. CASE OpenRecord
    BY <1>9, PlaceRecords DEF OpenRecord, ReplyCodexError, NextSteps, DispSteps
  <1>10. CASE Resolve
    <2>1. Head(wire).r \in Requests
      BY <1>10, EventFields DEF Resolve, Arrives
    <2>2. pend[Head(wire).r].turn \in MaybeTurn
      BY <2>1 DEF Request, MaybeTurn
    <2>3. [Idle EXCEPT !.at = "blocked", !.r = Head(wire).r, !.turn = pend[Head(wire).r].turn] \in Place
      BY <2>1, <2>2, PlaceRecords DEF MaybeRequest
    <2>4. disp' \in {disp, [Idle EXCEPT !.at = "blocked", !.r = Head(wire).r, !.turn = pend[Head(wire).r].turn]}
      BY <1>10 DEF Resolve
    <2> QED
      BY <2>3, <2>4
  <1>11. CASE ResumeCheck
    BY <1>11, PlaceRecords DEF ResumeCheck, ReplyCodexError, NextSteps, DispSteps
  <1>12. CASE ResumeSubmission
    BY <1>12, PlaceRecords DEF ResumeSubmission, ReplyCodexError, NextSteps, DispSteps
  <1>13. CASE FinishFind
    <2>1. Head(wire).turn \in MaybeTurn
      BY <1>13, EventFields DEF FinishFind, Arrives
    <2>2. disp' \in {Idle, [Idle EXCEPT !.at = "finalize", !.turn = Head(wire).turn]}
      BY <1>13 DEF FinishFind
    <2> QED
      BY <2>1, <2>2, PlaceRecords
  <1>14. CASE FinishFinalize
    BY <1>14, PlaceRecords DEF FinishFinalize, ReplyCodexError, NextSteps, DispSteps
  <1>15. CASE FinishSession
    BY <1>15, PlaceRecords DEF FinishSession, ReplyCodexError, NextSteps, DispSteps
  <1>16. CASE FinishCleanRequests
    BY <1>16, PlaceRecords DEF FinishCleanRequests, ReplyCodexError, NextSteps, DispSteps
  <1>17. CASE FinishDelete
    BY <1>17, PlaceRecords DEF FinishDelete, ReplyCodexError, NextSteps, DispSteps
  <1>18. CASE (\E t \in Turns : StartTurn(t))
              \/ (\E r \in Requests : ServerAsks(r) \/ ServerRepeats(r) \/ ServerResolves(r) \/ Press(r))
              \/ ServerCompletes \/ FailTransport \/ ClickReply \/ FinalizeReply
              \/ FailSessions \/ FailRead \/ FailCommit \/ FailCleanRequests \/ FailDelete
              \/ UNCHANGED requestsVars
    BY <1>18 DEF StartTurn, ServerAsks, ServerRepeats, ServerResolves, Press, ServerCompletes,
                 FailTransport, ClickReply, FinalizeReply, FailSessions, FailRead, FailCommit,
                 FailCleanRequests, FailDelete, requestsVars
  <1> QED
    BY <1>1, <1>2, <1>3, <1>4, <1>5, <1>6, <1>7, <1>8, <1>9, <1>10, <1>11, <1>12, <1>13,
       <1>14, <1>15, <1>16, <1>17, <1>18
       DEF RequestsNext, Dispatcher, Clicker, Failer

LEMMA SavesNewKept ==
  ASSUME RequestsInv, [RequestsNext]_requestsVars
  PROVE  SavesNew'
  <1> USE DEF RequestsInv, RequestTypes, store, others, server, SavesNew, Request, Place, OpenStates
  <1>1. ASSUME NEW r \in Requests, Press(r) PROVE SavesNew'
    BY <1>1 DEF Press
  <1>2. CASE OpenFind
    BY <1>2 DEF OpenFind, Arrives, ReplyCodexError, Idle
  <1>3. CASE OpenExisting
    BY <1>3 DEF OpenExisting, Idle
  <1>4. CASE OpenExpire
    BY <1>4 DEF OpenExpire, Idle
  <1>5. CASE OpenSave
    BY <1>5 DEF OpenSave
  <1>6. CASE OpenWait
    BY <1>6 DEF OpenWait, ReplyCodexError, Idle
  <1>7. CASE OpenSendFails
    BY <1>7 DEF OpenSendFails, ReplyCodexError, Idle
  <1>8. CASE OpenRecord
    BY <1>8 DEF OpenRecord, ReplyCodexError, Idle
  <1>9. CASE Resolve
    BY <1>9 DEF Resolve, Arrives, Idle, IsOpen
  <1>10. CASE ResumeCheck
    BY <1>10 DEF ResumeCheck, Idle
  <1>11. CASE ResumeSubmission
    BY <1>11 DEF ResumeSubmission, Idle
  <1>12. CASE FinishFind
    BY <1>12 DEF FinishFind, Arrives, Idle
  <1>13. CASE FinishCleanRequests
    BY <1>13 DEF FinishCleanRequests, WithoutRequests, NoRequest
  <1>14. CASE FinishDelete
    BY <1>14 DEF FinishDelete, Idle
  <1>15. CASE ClickReply
    BY <1>15 DEF ClickReply, Answered, Idle
  <1>16. CASE FinalizeReply
    BY <1>16 DEF FinalizeReply, ReplyAccepted, Idle, IsOpen
  <1>17. CASE FailCommit
    <2>1. CASE ReadSetUnchanged
      <3>1. ASSUME NEW r \in Requests, pend[r].status = "none" PROVE pend'[r] = pend[r]
        BY <1>17, <2>1, <3>1 DEF FailCommit, ReadSetUnchanged, OpenStates
      <3> QED
        BY <1>17, <3>1 DEF FailCommit
    <2>2. CASE ~ReadSetUnchanged
      BY <1>17, <2>2 DEF FailCommit
    <2> QED
      BY <2>1, <2>2
  <1>18. CASE FailCleanRequests
    BY <1>18 DEF FailCleanRequests, WithoutRequests, NoRequest
  <1>19. CASE (\E t \in Turns : StartTurn(t))
              \/ (\E r \in Requests : ServerAsks(r) \/ ServerRepeats(r) \/ ServerResolves(r))
              \/ ServerCompletes \/ FailTransport \/ OpenExistingLate \/ OpenSend
              \/ FinishFinalize \/ FinishSession \/ FailSessions \/ FailRead \/ FailDelete
              \/ UNCHANGED requestsVars
    BY <1>19 DEF StartTurn, ServerAsks, ServerRepeats, ServerResolves, ServerCompletes,
                 FailTransport, OpenExistingLate, OpenSend, FinishFinalize, FinishSession,
                 FailSessions, FailRead, FailDelete, requestsVars
  <1> QED
    BY <1>1, <1>2, <1>3, <1>4, <1>5, <1>6, <1>7, <1>8, <1>9, <1>10, <1>11, <1>12, <1>13,
       <1>14, <1>15, <1>16, <1>17, <1>18, <1>19
       DEF RequestsNext, Dispatcher, Clicker, Failer

LEMMA StepReopensNothing ==
  ASSUME RequestsInv, [RequestsNext]_requestsVars
  PROVE  NotReopened
  <1> USE DEF RequestsInv, RequestTypes, store, others, server, SavesNew, NotReopened, Request, OpenStates, Closed
  <1>1. CASE OpenFind
    BY <1>1 DEF OpenFind, Arrives, ReplyCodexError, Idle
  <1>2. CASE OpenExisting
    BY <1>2 DEF OpenExisting, Idle
  <1>3. CASE OpenExpire
    BY <1>3 DEF OpenExpire, Idle, Closed
  <1>4. CASE OpenSave
    BY <1>4 DEF OpenSave, NoRequest
  <1>5. CASE OpenRecord
    BY <1>5 DEF OpenRecord, ReplyCodexError, Idle
  <1>6. CASE Resolve
    BY <1>6 DEF Resolve, Arrives, Idle, IsOpen
  <1>7. CASE FinishCleanRequests
    BY <1>7 DEF FinishCleanRequests, WithoutRequests, NoRequest
  <1>8. CASE FinalizeReply
    BY <1>8 DEF FinalizeReply, ReplyAccepted, Idle, IsOpen
  <1>9. CASE FailCommit
    <2>1. CASE ReadSetUnchanged
      <3>1. ASSUME NEW r \in Requests, pend[r].status \notin OpenStates PROVE pend'[r] = pend[r]
        BY <1>9, <2>1, <3>1 DEF FailCommit, ReadSetUnchanged
      <3>2. ASSUME NEW r \in Requests, pend[r].status = "replied" PROVE pend'[r].status # "pending"
        <4>1. pend'[r] \in {pend[r], [pend[r] EXCEPT !.status = "resolved"]}
          BY <1>9, <2>1 DEF FailCommit, ReadSetUnchanged
        <4>2. [pend[r] EXCEPT !.status = "resolved"].status # "pending"
          BY DEF Request
        <4> QED
          BY <4>1, <4>2, <3>2
      <3> QED
        BY <3>1, <3>2
    <2>2. CASE ~ReadSetUnchanged
      BY <1>9, <2>2 DEF FailCommit
    <2> QED
      BY <2>1, <2>2
  <1>10. CASE FailCleanRequests
    BY <1>10 DEF FailCleanRequests, WithoutRequests, NoRequest
  <1>11. CASE (\E t \in Turns : StartTurn(t))
              \/ (\E r \in Requests : ServerAsks(r) \/ ServerRepeats(r) \/ ServerResolves(r) \/ Press(r))
              \/ ServerCompletes \/ FailTransport \/ OpenExistingLate \/ OpenWait \/ OpenSend
              \/ OpenSendFails \/ ResumeCheck \/ ResumeSubmission \/ FinishFind
              \/ FinishFinalize \/ FinishSession \/ FinishDelete \/ ClickReply \/ FailSessions
              \/ FailRead \/ FailDelete \/ UNCHANGED requestsVars
    BY <1>11 DEF StartTurn, ServerAsks, ServerRepeats, ServerResolves, Press, ServerCompletes,
                 FailTransport, OpenExistingLate, OpenWait, OpenSend, OpenSendFails,
                 ResumeCheck, ResumeSubmission, FinishFind, FinishFinalize, FinishSession,
                 FinishDelete, ClickReply, FailSessions, FailRead, FailDelete, requestsVars
  <1> QED
    BY <1>1, <1>2, <1>3, <1>4, <1>5, <1>6, <1>7, <1>8, <1>9, <1>10, <1>11
       DEF RequestsNext, Dispatcher, Clicker, Failer

LEMMA StepFailsAtOnce ==
  ASSUME RequestsInv, [RequestsNext]_requestsVars
  PROVE  FailsAtOnce
  <1> USE DEF RequestsInv, RequestTypes, store, others, server, FailsAtOnce, Submission
  <1>1. ASSUME NEW t \in Turns, StartTurn(t) PROVE FailsAtOnce
    BY <1>1 DEF StartTurn
  <1>2. CASE OpenWait
    BY <1>2 DEF OpenWait
  <1>3. CASE ResumeSubmission
    BY <1>3 DEF ResumeSubmission
  <1>4. CASE FinishFinalize
    BY <1>4 DEF FinishFinalize
  <1>5. CASE FinishDelete
    BY <1>5 DEF FinishDelete
  <1>6. CASE FailCommit
    <2>1. CASE ReadSetUnchanged
      <3>1. \A t \in Turns \ {fail.turn} : sub'[t] = sub[t]
        BY <1>6, <2>1 DEF FailCommit
      <3>2. active' # fail.turn \/ fail.turn = NoTurn
        BY <1>6, <2>1 DEF FailCommit
      <3>3. ASSUME NEW r \in Requests, pend'[r].turn = fail.turn PROVE pend'[r].status \notin OpenStates
        <4>1. pend[r] \in Request
          OBVIOUS
        <4>2. CASE pend[r].turn = fail.turn /\ pend[r].status \in OpenStates
          <5>1. pend'[r] = [pend[r] EXCEPT !.status = "resolved"]
            BY <1>6, <2>1, <4>2 DEF FailCommit, ReadSetUnchanged
          <5> QED
            BY <5>1, <4>1 DEF Request, OpenStates
        <4>3. CASE ~(pend[r].turn = fail.turn /\ pend[r].status \in OpenStates)
          <5>1. pend'[r] = pend[r]
            BY <1>6, <2>1, <4>3 DEF FailCommit, ReadSetUnchanged
          <5> QED
            BY <5>1, <4>3, <3>3
        <4> QED
          BY <4>2, <4>3
      <3> QED
        BY <3>1, <3>2, <3>3 DEF NoTurn, Turns
    <2>2. CASE ~ReadSetUnchanged
      BY <1>6, <2>2 DEF FailCommit
    <2> QED
      BY <2>1, <2>2
  <1>7. CASE FailDelete
    BY <1>7 DEF FailDelete
  <1>8. CASE
             \/ (\E r \in Requests : ServerAsks(r) \/ ServerRepeats(r) \/ ServerResolves(r) \/ Press(r))
             \/ ServerCompletes \/ FailTransport \/ OpenFind \/ OpenExisting
             \/ OpenExistingLate \/ OpenExpire \/ OpenSave \/ OpenSend \/ OpenSendFails
             \/ OpenRecord \/ Resolve \/ ResumeCheck \/ FinishFind \/ FinishSession
             \/ FinishCleanRequests \/ ClickReply \/ FinalizeReply \/ FailSessions \/ FailRead
             \/ FailCleanRequests \/ UNCHANGED requestsVars
    BY <1>8 DEF ServerAsks, ServerRepeats, ServerResolves, Press, ServerCompletes,
                FailTransport, OpenFind, OpenExisting, OpenExistingLate, OpenExpire, OpenSave,
                OpenSend, OpenSendFails, OpenRecord, Resolve, ResumeCheck, FinishFind,
                FinishSession, FinishCleanRequests, ClickReply, FinalizeReply, FailSessions,
                FailRead, FailCleanRequests, requestsVars
  <1> QED
    BY <1>1, <1>2, <1>3, <1>4, <1>5, <1>6, <1>7, <1>8
       DEF RequestsNext, Dispatcher, Clicker, Failer

LEMMA RequestsInitially == RequestsInit => RequestsInv
  BY DEF RequestsInit, RequestsInv, RequestTypes, SavesNew, NoRequest, Request, RequestStates,
         Submission, Idle, Place, DispSteps, MaybeRequest, MaybeTurn, NoTurn, Event, ServerView

LEMMA RequestsKept == RequestsInv /\ [RequestsNext]_requestsVars => RequestsInv'
  BY PendKept, SubKept, WireKept, ServerKept, DispKept, SavesNewKept DEF RequestsInv, RequestTypes

\* A request that was replied, resolved or expired is not opened again, for any
\* number of requests, turns, clicks and repeated events and any order of the
\* four goroutines.
THEOREM RequestsNeverReopened == RequestsSpec => NeverReopened
  <1>1. RequestsInv /\ [RequestsNext]_requestsVars => NotReopened
    BY StepReopensNothing
  <1> QED
    BY RequestsInitially, RequestsKept, <1>1, PTL DEF RequestsSpec, NeverReopened, NotReopened

\* A transport failure ends the submission, the session's operation and the
\* turn's requests in one step, for any number of turns and requests.
THEOREM RequestsFailAtOnce == RequestsSpec => FailureIsAtomic
  <1>1. RequestsInv /\ [RequestsNext]_requestsVars => FailsAtOnce
    BY StepFailsAtOnce
  <1> QED
    BY RequestsInitially, RequestsKept, <1>1, PTL DEF RequestsSpec, FailureIsAtomic, FailsAtOnce
-----------------------------------------------------------------------------
(***************************************************************************)
(* The cards of a turn.                                                    *)
(***************************************************************************)
Elements(s) == {s[i] : i \in DOMAIN s}
Sequence(s) == s \in Seq(Elements(s))

LEMMA SequenceOf ==
  ASSUME NEW S, NEW s \in Seq(S)
  PROVE  Sequence(s) /\ Elements(s) \subseteq S
  <1>1. Len(s) \in Nat /\ DOMAIN s = 1..Len(s) /\ \A i \in 1..Len(s) : s[i] \in S
    BY LenProperties
  <1>2. \A i \in 1..Len(s) : s[i] \in Elements(s)
    BY <1>1 DEF Elements
  <1>3. SubSeq(s, 1, Len(s)) \in Seq(Elements(s))
    BY <1>1, <1>2, SubSeqProperties
  <1> QED
    BY <1>1, <1>3, SubSeqFull DEF Elements, Sequence

LEMMA SequenceJoined ==
  ASSUME NEW s, NEW t, Sequence(s), Sequence(t)
  PROVE  Sequence(s \o t) /\ Elements(s \o t) = Elements(s) \cup Elements(t)
  <1> DEFINE S == Elements(s) \cup Elements(t)
  <1>1. s \in Seq(S) /\ t \in Seq(S)
    BY SeqMonotonic DEF Sequence
  <1>2. s \o t \in Seq(S) /\ Len(s \o t) = Len(s) + Len(t)
        /\ \A i \in 1..(Len(s) + Len(t)) : (s \o t)[i] = IF i <= Len(s) THEN s[i] ELSE t[i - Len(s)]
    BY <1>1, ConcatProperties
  <1>3. /\ Len(s) \in Nat /\ DOMAIN s = 1..Len(s) /\ Len(t) \in Nat /\ DOMAIN t = 1..Len(t)
        /\ DOMAIN (s \o t) = 1..(Len(s) + Len(t))
    BY <1>1, <1>2, LenProperties
  <1>4. Sequence(s \o t) /\ Elements(s \o t) \subseteq S
    BY <1>2, SequenceOf
  <1>5. ASSUME NEW i \in DOMAIN s PROVE s[i] \in Elements(s \o t)
    <2>1. i \in 1..(Len(s) + Len(t)) /\ (s \o t)[i] = s[i]
      BY <1>2, <1>3
    <2> QED
      BY <1>3, <2>1 DEF Elements
  <1>6. ASSUME NEW i \in DOMAIN t PROVE t[i] \in Elements(s \o t)
    <2>1. i + Len(s) \in 1..(Len(s) + Len(t)) /\ (s \o t)[i + Len(s)] = t[i]
      BY <1>2, <1>3
    <2> QED
      BY <1>3, <2>1 DEF Elements
  <1> QED
    BY <1>4, <1>5, <1>6 DEF Elements

LEMMA SequenceOfOne ==
  /\ Sequence(<<>>) /\ Elements(<<>>) = {}
  /\ \A x : Sequence(<<x>>) /\ Elements(<<x>>) = {x}
  <1>1. <<>> \in Seq({}) /\ Elements(<<>>) = {}
    BY DEF Elements
  <1>2. ASSUME NEW x PROVE Sequence(<<x>>) /\ Elements(<<x>>) = {x}
    <2>1. <<x>> \in Seq({x}) /\ DOMAIN <<x>> = 1..1 /\ <<x>>[1] = x
      OBVIOUS
    <2>2. Elements(<<x>>) = {x}
      BY <2>1 DEF Elements
    <2> QED
      BY <2>1, <2>2 DEF Sequence
  <1> QED
    BY <1>1, <1>2, SequenceOf

LEMMA SequenceRest ==
  ASSUME NEW s, Sequence(s), s # <<>>
  PROVE  /\ Head(s) \in Elements(s)
         /\ Sequence(Tail(s)) /\ Elements(Tail(s)) \subseteq Elements(s)
  BY HeadTailProperties, SequenceOf DEF Sequence

LEMMA SequenceChanged ==
  ASSUME NEW s, Sequence(s), NEW m, NEW x
  PROVE  /\ Sequence(Append(s, x)) /\ Len(Append(s, x)) = Len(s) + 1
         /\ Sequence([s EXCEPT ![m] = x]) /\ Len([s EXCEPT ![m] = x]) = Len(s)
         /\ Len(s) \in Nat
  <1> DEFINE S == Elements(s) \cup {x}
  <1>1. s \in Seq(S) /\ Len(s) \in Nat /\ DOMAIN s = 1..Len(s)
    BY SeqMonotonic, LenProperties DEF Sequence
  <1>2. Append(s, x) \in Seq(S) /\ Len(Append(s, x)) = Len(s) + 1
    BY <1>1, AppendProperties
  <1>3. CASE m \in 1..Len(s)
    <2>1. [s EXCEPT ![m] = x] \in Seq(S) /\ Len([s EXCEPT ![m] = x]) = Len(s)
      BY <1>1, <1>3, ExceptSeq
    <2> QED
      BY <1>1, <1>2, <2>1, SequenceOf
  <1>4. CASE m \notin 1..Len(s)
    <2>1. [s EXCEPT ![m] = x] = s
      <3>1. s = [i \in DOMAIN s |-> s[i]]
        BY <1>1, LenProperties
      <3> QED
        BY <1>1, <1>4, <3>1
    <2> QED
      BY <1>1, <1>2, <2>1, SequenceOf
  <1> QED
    BY <1>3, <1>4
-----------------------------------------------------------------------------
\* Operations on working cards go to one of the messages M.
OpOk(op, M) == "do" \in DOMAIN op /\ (op.do \in {"work", "commit"} => op.msg \in M)
Aimed(s, M) == Sequence(s) /\ \A op \in Elements(s) : OpOk(op, M)

LEMMA AimedParts ==
  ASSUME NEW M
  PROVE  /\ Aimed(<<>>, M)
         /\ \A m \in M : \A b : Aimed(<<WorkOp(m, b)>>, M)
         /\ \A m \in M : \A b : Aimed(<<[do |-> "commit", msg |-> m, body |-> b]>>, M)
         /\ \A shows, reuse, remember, i : Aimed(<<CardOp(shows, reuse, remember, i)>>, M)
         /\ \A s, t : Aimed(s, M) /\ Aimed(t, M) => Aimed(s \o t, M)
         /\ \A s : Aimed(s, M) /\ s # <<>> => OpOk(Head(s), M) /\ Aimed(Tail(s), M)
         /\ \A op, m : OpOk(op, M) /\ op.do = "card" => Aimed(<<[op EXCEPT !.reuse = m]>>, M)
  <1>1. Aimed(<<>>, M)
    BY SequenceOfOne DEF Aimed
  <1>2. ASSUME NEW op, OpOk(op, M) PROVE Aimed(<<op>>, M)
    BY <1>2, SequenceOfOne DEF Aimed
  <1>3. \A m \in M : \A b : OpOk(WorkOp(m, b), M)
    BY DEF OpOk, WorkOp
  <1>4. \A m \in M : \A b : OpOk([do |-> "commit", msg |-> m, body |-> b], M)
    BY DEF OpOk
  <1>5. \A shows, reuse, remember, i : OpOk(CardOp(shows, reuse, remember, i), M)
    BY DEF OpOk, CardOp
  <1>6. \A s, t : Aimed(s, M) /\ Aimed(t, M) => Aimed(s \o t, M)
    BY SequenceJoined DEF Aimed
  <1>7. \A s : Aimed(s, M) /\ s # <<>> => OpOk(Head(s), M) /\ Aimed(Tail(s), M)
    BY SequenceRest DEF Aimed
  <1>8. ASSUME NEW op, NEW m, OpOk(op, M), op.do = "card"
        PROVE  OpOk([op EXCEPT !.reuse = m], M)
    BY <1>8 DEF OpOk
  <1> QED
    BY <1>1, <1>2, <1>3, <1>4, <1>5, <1>6, <1>7, <1>8

LEMMA AimedWider ==
  ASSUME NEW s, NEW M, NEW N, Aimed(s, M), M \subseteq N
  PROVE  Aimed(s, N)
  BY DEF Aimed, OpOk

QuietFields == {"live", "msg", "lines", "rendered"}
QuietRecord(q) == DOMAIN q = QuietFields /\ q.live \in BOOLEAN

\* What the working card's two operations return.
LEMMA WorkingCard ==
  ASSUME NEW q, QuietRecord(q), NEW kind, NEW i, NEW version
  PROVE  /\ QuietRecord(PrepareUpdate(q, kind, i, version).card)
         /\ PrepareUpdate(q, kind, i, version).card.msg = q.msg
         /\ q.live => PrepareUpdate(q, kind, i, version).card.live
         /\ Aimed(PrepareUpdate(q, kind, i, version).ops, {q.msg})
         /\ Aimed(PrepareBoundary(q).ops, {q.msg})
         /\ PrepareBoundary(q).reuse \in {0, q.msg}
  <1>1. /\ Aimed(PrepareBoundary(q).ops, {q.msg})
        /\ PrepareBoundary(q).reuse \in {0, q.msg}
    BY AimedParts DEF PrepareBoundary
  <1> DEFINE lines == LinesOf(kind, i, version)
             mine == {l \in q.lines : IF kind = "reasoning" THEN l = Reasoning ELSE l[1] = i}
             changed == mine # lines
             body == IF ~changed THEN q.lines
                     ELSE ((q.lines \ mine) \cup lines)
                            \ (IF kind = "reasoning" THEN {} ELSE {Reasoning})
             card == [q EXCEPT !.live = TRUE, !.lines = body]
             draws == IF changed /\ body # {} /\ body # q.rendered
                      THEN <<WorkOp(q.msg, body)>> ELSE <<>>
  <1>2. PrepareUpdate(q, kind, i, version) =
          IF ~q.live /\ lines = {} THEN [card |-> q, ops |-> <<>>]
          ELSE [card |-> card, ops |-> draws]
    BY DEF PrepareUpdate
  <1> HIDE DEF lines, changed
  <1>3. Aimed(draws, {q.msg})
    BY AimedParts
  <1> HIDE DEF body, draws
  <1>4. QuietRecord(card) /\ card.msg = q.msg /\ card.live = TRUE
    BY DEF QuietRecord, QuietFields
  <1> HIDE DEF card
  <1> QED
    BY <1>1, <1>2, <1>3, <1>4, AimedParts
-----------------------------------------------------------------------------
\* Messages of which none is above the newest request.
Usable == {n \in 0..Len(chat) : n = 0 \/ n > floor}

StreamInv ==
  /\ Sequence(chat)
  /\ "live" \in DOMAIN stream
  /\ phase = "running" => stream.live
  /\ QuietRecord(quiet)
  /\ quiet.msg \in Usable
  /\ ~quiet.live => quiet.msg = 0
  /\ ~stream.live => ~quiet.live
  /\ Aimed(ops, 0..Len(chat))
  /\ quiet.live => Aimed(ops, Usable)
  /\ DOMAIN request = {"at", "msg"}
  /\ request.msg \in 0..Len(chat)
  /\ floor \in 0..Len(chat)

LEMMA NoQuietIsFresh ==
  ASSUME Sequence(chat)
  PROVE  /\ Len(chat) \in Nat
         /\ QuietRecord(NoQuiet) /\ NoQuiet.msg = 0 /\ NoQuiet.live = FALSE /\ 0 \in Usable
  BY SequenceChanged DEF NoQuiet, QuietRecord, QuietFields, Usable

\* The chat after a send or a patch.
LEMMA ChatGrows ==
  ASSUME Sequence(chat), NEW m, NEW shows,
         Post(shows) \/ Replace(m, shows) \/ chat' = chat
  PROVE  /\ Sequence(chat') /\ Len(chat') \in Nat /\ Len(chat) \in Nat
         /\ 0..Len(chat) \subseteq 0..Len(chat')
         /\ floor' = floor => Usable \subseteq Usable'
         /\ Post(shows) => Len(chat') = Len(chat) + 1
  <1>1. Post(shows) => Sequence(chat') /\ Len(chat') = Len(chat) + 1
    BY SequenceChanged DEF Post
  <1>2. Replace(m, shows) => Sequence(chat') /\ Len(chat') = Len(chat)
    <2> SUFFICES ASSUME chat' = [chat EXCEPT ![m] = shows]
                 PROVE  Sequence(chat') /\ Len(chat') = Len(chat)
      BY DEF Replace
    <2>1. /\ Sequence([chat EXCEPT ![m] = shows])
          /\ Len([chat EXCEPT ![m] = shows]) = Len(chat)
      BY SequenceChanged
    <2> QED
      BY <2>1
  <1>3. Len(chat) \in Nat
    BY SequenceChanged
  <1> QED
    BY <1>1, <1>2, <1>3 DEF Usable

\* A completed item: whatever it has to send goes to the working card there was.
LEMMA ItemsStep ==
  ASSUME StreamInv, NEW kind \in Kinds, NEW i, CompleteTurnItem(kind, i)
  PROVE  StreamInv'
  <1> DEFINE none == [reuse |-> 0, ops |-> <<>>]
             s1 == IF kind = "plan" THEN [stream EXCEPT !.sawPlan = TRUE] ELSE stream
             planDue == stream.pending \notin {NoPlan, stream.sentPlan}
             planEnd == IF planDue THEN PrepareBoundary(quiet) ELSE none
             s2 == IF planDue THEN [s1 EXCEPT !.sentPlan = @ + 1, !.pending = NoPlan] ELSE s1
             q2 == IF planDue THEN NoQuiet ELSE quiet
             s3 == NoteFinal(s2, kind, i)
             old == IF kind \in {"final", "review"} /\ ~(kind = "final" /\ s2.review)
                    THEN s3.finalMsg ELSE 0
             atBoundary == HasPayload(kind) /\ kind \in Boundary
             close == IF atBoundary THEN PrepareBoundary(q2) ELSE none
             reuse == FirstSet(old, close.reuse)
             upd == PrepareUpdate(q2, kind, i, 2)
             skip == kind = "plan" \/ (s2.review /\ kind \in {"agent", "final"})
             send == HasPayload(kind) /\ ~skip /\ DeliversItem(kind)
             op1 == planEnd.ops
             op2 == IF planDue /\ DeliversPlan
                    THEN <<CardOp("plan", planEnd.reuse, "plan", 0)>> ELSE <<>>
             op3 == close.ops
             op4 == IF ~atBoundary /\ WorkingCardEnabled THEN upd.ops ELSE <<>>
             op5 == IF send THEN <<CardOp(kind, reuse, Remember(kind), i)>> ELSE <<>>
             s4 == IF kind = "plan" /\ q2.live
                   THEN [s3 EXCEPT !.planMsg = FirstSet(reuse,
                           FirstSet(IF close.ops = <<>> THEN 0 ELSE q2.msg, @))]
                   ELSE s3
  <1>1. /\ stream' = s4
        /\ quiet' = IF atBoundary THEN NoQuiet ELSE IF WorkingCardEnabled THEN upd.card ELSE q2
        /\ ops' = op1 \o op2 \o op3 \o op4 \o op5
        /\ phase = "running" /\ ~Busy
        /\ UNCHANGED <<chat, phase, request, floor>>
    BY DEF CompleteTurnItem
  <1>2. /\ QuietRecord(q2) /\ q2.msg \in {0, quiet.msg}
        /\ ~q2.live => q2.msg = 0
    BY NoQuietIsFresh DEF StreamInv
  <1>3. /\ Aimed(op1, {0, quiet.msg})
        /\ Aimed(op3, {0, quiet.msg})
        /\ Aimed(op4, {0, quiet.msg})
        /\ QuietRecord(upd.card) /\ upd.card.msg = q2.msg /\ (q2.live => upd.card.live)
    <2>1. /\ QuietRecord(upd.card) /\ upd.card.msg = q2.msg /\ (q2.live => upd.card.live)
          /\ Aimed(upd.ops, {q2.msg}) /\ Aimed(PrepareBoundary(q2).ops, {q2.msg})
          /\ Aimed(PrepareBoundary(quiet).ops, {quiet.msg})
      <3>1. QuietRecord(quiet)
        BY DEF StreamInv
      <3>2. Aimed(PrepareBoundary(quiet).ops, {quiet.msg})
        BY <3>1, WorkingCard
      <3> HIDE DEF q2
      <3>3. /\ QuietRecord(upd.card) /\ upd.card.msg = q2.msg /\ (q2.live => upd.card.live)
            /\ Aimed(upd.ops, {q2.msg}) /\ Aimed(PrepareBoundary(q2).ops, {q2.msg})
        BY <1>2, WorkingCard
      <3> QED
        BY <3>2, <3>3
    <2>2. Aimed(none.ops, {0, quiet.msg}) /\ Aimed(<<>>, {0, quiet.msg})
      BY AimedParts
    <2> HIDE DEF q2, upd
    <2>3. Aimed(upd.ops, {0, quiet.msg}) /\ Aimed(PrepareBoundary(q2).ops, {0, quiet.msg})
      BY <1>2, <2>1, AimedWider
    <2>4. Aimed(PrepareBoundary(quiet).ops, {0, quiet.msg})
      BY <2>1, AimedWider
    <2> QED
      BY <2>1, <2>2, <2>3, <2>4
  <1>4. Aimed(op2, {0, quiet.msg}) /\ Aimed(op5, {0, quiet.msg})
    BY AimedParts
  <1>5. "live" \in DOMAIN s4 /\ s4.live = stream.live
    <2>1. "live" \in DOMAIN stream
      BY DEF StreamInv
    <2>2. "live" \in DOMAIN s1 /\ s1.live = stream.live
      BY <2>1
    <2> HIDE DEF s1, planDue
    <2>3. "live" \in DOMAIN s2 /\ s2.live = stream.live
      BY <2>2
    <2> HIDE DEF s2
    <2>4. "live" \in DOMAIN s3 /\ s3.live = stream.live
      BY <2>3 DEF NoteFinal, Kinds
    <2> HIDE DEF s3, reuse, close, q2
    <2> QED
      BY <2>4
  <1> HIDE DEF s4, op1, op2, op3, op4, op5, upd, q2, atBoundary
  <1>6. Aimed(ops', {0, quiet.msg})
    BY <1>1, <1>3, <1>4, AimedParts
  <1>7. {0, quiet.msg} \subseteq Usable /\ {0, quiet.msg} \subseteq 0..Len(chat)
    BY NoQuietIsFresh DEF StreamInv, Usable
  <1>8. QuietRecord(quiet') /\ quiet'.msg \in {0, quiet.msg} /\ (~quiet'.live => quiet'.msg = 0)
    BY <1>1, <1>2, <1>3, NoQuietIsFresh DEF StreamInv
  <1>9. Aimed(ops', Usable) /\ Aimed(ops', 0..Len(chat))
    BY <1>6, <1>7, AimedWider
  <1>10. UNCHANGED Usable
    BY <1>1 DEF Usable
  <1> QED
    BY <1>1, <1>5, <1>7, <1>8, <1>9, <1>10 DEF StreamInv

\* Progress of an item, and the end of the turn.
LEMMA ProgressStep ==
  ASSUME StreamInv, UpdateInFlight
  PROVE  StreamInv'
  <1> DEFINE u == PrepareUpdate(quiet, "work", Tool, 1)
             card == <<CardOp("work", 0, "no", Tool)>>
  <1>1. /\ QuietRecord(u.card) /\ u.card.msg = quiet.msg /\ (quiet.live => u.card.live)
        /\ Aimed(u.ops, {quiet.msg})
    BY WorkingCard DEF StreamInv
  <1>2. Aimed(card, {quiet.msg}) /\ Aimed(<<>>, {quiet.msg})
    BY AimedParts
  <1> HIDE DEF u, card
  <1>3. /\ stream' = [stream EXCEPT !.tool = TRUE] /\ phase = "running" /\ ~Busy
        /\ \/ quiet' = u.card /\ ops' = u.ops
           \/ quiet' = quiet /\ ops' \in {card, <<>>}
        /\ UNCHANGED <<chat, phase, request, floor>>
    BY DEF UpdateInFlight, u, card
  <1>4. "live" \in DOMAIN stream' /\ stream'.live = stream.live
    BY <1>3 DEF StreamInv
  <1>5. Aimed(ops', {quiet.msg})
    BY <1>1, <1>2, <1>3
  <1>6. {quiet.msg} \subseteq Usable /\ Usable \subseteq 0..Len(chat) /\ UNCHANGED Usable
    BY <1>3 DEF StreamInv, Usable
  <1>7. Aimed(ops', Usable) /\ Aimed(ops', 0..Len(chat))
    BY <1>5, <1>6, AimedWider
  <1> QED
    BY <1>1, <1>3, <1>4, <1>6, <1>7 DEF StreamInv

LEMMA FinishStep ==
  ASSUME StreamInv, NEW completed \in BOOLEAN, FinishTurn(completed)
  PROVE  StreamInv'
  <1> DEFINE none == [reuse |-> 0, ops |-> <<>>]
             planDue == stream.pending \notin {NoPlan, stream.sentPlan}
             close == IF planDue THEN PrepareBoundary(quiet) ELSE none
             working == IF IsReasoningOnly(quiet) /\ ~planDue THEN quiet.msg ELSE 0
             plan == IF planDue /\ DeliversPlan
                     THEN <<CardOp("plan", close.reuse, "no", 0)>> ELSE <<>>
             last(prompt) == IF ~completed THEN <<CardOp("terminal", working, "no", 0)>>
                             ELSE IF prompt \/ ~stream.sentFinal
                             THEN <<Conclusion(stream, prompt, working, stream.planMsg)>>
                             ELSE <<>>
  <1>1. PICK prompt \in {stream.sawPlan, FALSE} : ops' = close.ops \o plan \o last(prompt)
    BY DEF FinishTurn
  <1>2. Aimed(close.ops, {0, quiet.msg})
    <2>1. Aimed(PrepareBoundary(quiet).ops, {quiet.msg})
      BY WorkingCard DEF StreamInv
    <2>2. Aimed(PrepareBoundary(quiet).ops, {0, quiet.msg}) /\ Aimed(none.ops, {0, quiet.msg})
      BY <2>1, AimedWider, AimedParts
    <2> QED
      BY <2>2
  <1>3. Aimed(plan, {0, quiet.msg})
    BY AimedParts
  <1>4. Aimed(last(prompt), {0, quiet.msg})
    <2>1. Aimed(<<Conclusion(stream, prompt, working, stream.planMsg)>>, {0, quiet.msg})
      <3>1. \E shows, reuse, remember, i :
              Conclusion(stream, prompt, working, stream.planMsg) = CardOp(shows, reuse, remember, i)
        BY DEF Conclusion
      <3> QED
        BY <3>1, AimedParts
    <2> HIDE DEF working
    <2> QED
      BY <2>1, AimedParts
  <1> HIDE DEF close, plan, last
  <1>5. Aimed(ops', {0, quiet.msg})
    BY <1>1, <1>2, <1>3, <1>4, AimedParts
  <1>6. /\ stream' = [stream EXCEPT !.live = FALSE] /\ quiet' = NoQuiet
        /\ phase' # "running"
        /\ UNCHANGED <<chat, request, floor>>
    BY DEF FinishTurn
  <1>7. {0, quiet.msg} \subseteq 0..Len(chat) /\ UNCHANGED Usable
    BY <1>6, NoQuietIsFresh DEF StreamInv, Usable
  <1>8. Aimed(ops', 0..Len(chat))
    BY <1>5, <1>7, AimedWider
  <1>9. "live" \in DOMAIN stream'
    BY <1>6 DEF StreamInv
  <1> QED
    BY <1>6, <1>7, <1>8, <1>9, NoQuietIsFresh DEF StreamInv

\* The sends of the item loop.
LEMMA WorkStep ==
  ASSUME StreamInv, SendWorkingCard
  PROVE  StreamInv'
  <1> DEFINE op == Head(ops)
             commit(m) == <<[do |-> "commit", msg |-> m, body |-> op.body]>>
  <1>1. /\ op.do = "work" /\ Busy
        /\ UNCHANGED <<stream, quiet, phase, request, floor>>
        /\ Post("working") \/ Replace(op.msg, "working") \/ chat' = chat
        /\ \/ Post("working") /\ ops' = commit(Len(chat) + 1) \o Tail(ops)
           \/ op.msg # 0 /\ ops' = commit(op.msg) \o Tail(ops)
           \/ ops' = Tail(ops)
    BY DEF SendWorkingCard
  <1>2. /\ Sequence(chat') /\ Len(chat') \in Nat /\ Len(chat) \in Nat
        /\ 0..Len(chat) \subseteq 0..Len(chat') /\ Usable \subseteq Usable'
        /\ Post("working") => Len(chat') = Len(chat) + 1
    BY <1>1, ChatGrows DEF StreamInv
  <1>3. ASSUME NEW M, NEW N, Aimed(ops, M), M \subseteq N,
               Post("working") => Len(chat) + 1 \in N
        PROVE  Aimed(ops', N)
    <2>1. OpOk(op, N) /\ Aimed(Tail(ops), N)
      BY <1>1, <1>3, AimedWider, AimedParts DEF Busy
    <2>2. op.msg \in N
      BY <1>1, <2>1 DEF OpOk
    <2>3. CASE Post("working") /\ ops' = commit(Len(chat) + 1) \o Tail(ops)
      BY <1>3, <2>1, <2>3, AimedParts
    <2>4. CASE ops' = commit(op.msg) \o Tail(ops)
      BY <2>1, <2>2, <2>4, AimedParts
    <2>5. CASE ops' = Tail(ops)
      BY <2>1, <2>5
    <2> QED
      BY <1>1, <2>3, <2>4, <2>5
  <1>4. Post("working") => Len(chat) + 1 \in 0..Len(chat') /\ Len(chat) + 1 \in Usable'
    BY <1>1, <1>2 DEF StreamInv, Usable
  <1>5. Aimed(ops', 0..Len(chat')) /\ (quiet.live => Aimed(ops', Usable'))
    BY <1>2, <1>3, <1>4 DEF StreamInv
  <1> QED
    BY <1>1, <1>2, <1>5 DEF StreamInv

LEMMA CommitStep ==
  ASSUME StreamInv, CommitRender
  PROVE  StreamInv'
  <1>1. /\ Head(ops).do = "commit" /\ ops # <<>> /\ ops' = Tail(ops)
        /\ \/ quiet' = quiet
           \/ /\ quiet.live
              /\ quiet' = [quiet EXCEPT !.msg = Head(ops).msg, !.rendered = Head(ops).body]
        /\ UNCHANGED <<chat, stream, phase, request, floor, Usable>>
    BY DEF CommitRender, Commit, Busy, Usable
  <1>2. Aimed(ops', 0..Len(chat)) /\ (quiet.live => Aimed(ops', Usable) /\ Head(ops).msg \in Usable)
    BY <1>1, AimedParts DEF StreamInv, OpOk
  <1>3. CASE quiet' = quiet
    BY <1>1, <1>2, <1>3 DEF StreamInv
  <1>4. CASE /\ quiet.live
             /\ quiet' = [quiet EXCEPT !.msg = Head(ops).msg, !.rendered = Head(ops).body]
    <2>1. QuietRecord(quiet') /\ quiet'.msg = Head(ops).msg /\ quiet'.live = quiet.live
      BY <1>4 DEF StreamInv, QuietRecord, QuietFields
    <2> QED
      BY <1>1, <1>2, <1>4, <2>1 DEF StreamInv
  <1> QED
    BY <1>1, <1>3, <1>4

LEMMA CardStep ==
  ASSUME StreamInv, SendCard
  PROVE  StreamInv'
  <1> DEFINE op == Head(ops)
  <1>1. /\ op.do = "card" /\ ops # <<>>
        /\ UNCHANGED <<quiet, phase, request, floor>>
        /\ Post(op.shows) \/ Replace(op.reuse, op.shows) \/ chat' = chat
        /\ (\E m : stream' = Remembered(stream, op, m)) \/ stream' = stream
        /\ (\E m : ops' = After(op, m)) \/ ops' = <<[op EXCEPT !.reuse = 0]>> \o Tail(ops)
           \/ ops' = Tail(ops)
    BY DEF SendCard, Busy
  <1>2. /\ Sequence(chat') /\ Len(chat') \in Nat /\ Len(chat) \in Nat
        /\ 0..Len(chat) \subseteq 0..Len(chat') /\ Usable \subseteq Usable'
    BY <1>1, ChatGrows DEF StreamInv
  <1>3. "live" \in DOMAIN stream' /\ stream'.live = stream.live
    <2>1. ASSUME NEW m, stream' = Remembered(stream, op, m)
          PROVE  "live" \in DOMAIN stream' /\ stream'.live = stream.live
      BY <2>1 DEF Remembered, StreamInv
    <2> QED
      BY <1>1, <2>1 DEF StreamInv
  <1>4. ASSUME NEW M, NEW N, Aimed(ops, M), M \subseteq N
        PROVE  Aimed(ops', N)
    <2>1. OpOk(op, N) /\ Aimed(Tail(ops), N)
      BY <1>1, <1>4, AimedWider, AimedParts
    <2>2. ASSUME NEW m, ops' = After(op, m) PROVE Aimed(ops', N)
      BY <2>1, <2>2, AimedParts DEF After
    <2>3. CASE ops' = <<[op EXCEPT !.reuse = 0]>> \o Tail(ops)
      BY <1>1, <2>1, <2>3, AimedParts
    <2> QED
      BY <1>1, <2>1, <2>2, <2>3
  <1>5. Aimed(ops', 0..Len(chat')) /\ (quiet.live => Aimed(ops', Usable'))
    BY <1>2, <1>4 DEF StreamInv
  <1> QED
    BY <1>1, <1>2, <1>3, <1>5 DEF StreamInv

\* The routine that delivers a request.
LEMMA RequestSteps ==
  ASSUME StreamInv, StartRequest \/ SendRequest \/ DiscardWorkingCard
  PROVE  StreamInv'
  <1>1. CASE StartRequest
    <2> DEFINE m == TakeReasoningOnly(quiet)
    <2>1. m \in {0, quiet.msg}
      BY DEF TakeReasoningOnly
    <2> HIDE DEF m
    <2>2. /\ request' = [at |-> "send", msg |-> m]
          /\ quiet' \in {NoQuiet, quiet}
          /\ UNCHANGED <<chat, stream, ops, phase, floor, Usable>>
      BY <1>1 DEF StartRequest, m, Usable
    <2>3. m \in 0..Len(chat)
      BY <2>1, NoQuietIsFresh DEF StreamInv, Usable
    <2>4. DOMAIN request' = {"at", "msg"} /\ request'.msg \in 0..Len(chat)
      BY <2>2, <2>3
    <2> QED
      BY <2>2, <2>4, NoQuietIsFresh DEF StreamInv
  <1>2. CASE SendRequest
    <2>1. /\ Post("question") \/ Replace(request.msg, "question") \/ chat' = chat
          /\ \/ request' = [request EXCEPT !.at = "sent"]
             \/ request' = [request EXCEPT !.msg = 0]
             \/ Post("question") /\ request' = [at |-> "sent", msg |-> Len(chat) + 1]
             \/ request' = [at |-> "idle", msg |-> 0]
          /\ UNCHANGED <<stream, quiet, ops, phase, floor>>
      BY <1>2 DEF SendRequest
    <2>2. /\ Sequence(chat') /\ Len(chat') \in Nat /\ Len(chat) \in Nat
          /\ 0..Len(chat) \subseteq 0..Len(chat') /\ Usable \subseteq Usable'
          /\ Post("question") => Len(chat') = Len(chat) + 1
      BY <2>1, ChatGrows DEF StreamInv
    <2>3. DOMAIN request' = {"at", "msg"} /\ request'.msg \in 0..Len(chat')
      BY <2>1, <2>2 DEF StreamInv
    <2>4. Aimed(ops', 0..Len(chat')) /\ (quiet.live => Aimed(ops', Usable'))
      BY <2>1, <2>2, AimedWider DEF StreamInv
    <2> QED
      BY <2>1, <2>2, <2>3, <2>4 DEF StreamInv
  <1>3. CASE DiscardWorkingCard
    <2>1. /\ quiet' = IF stream.live THEN NoQuiet ELSE quiet
          /\ floor' = request.msg /\ request' = [at |-> "idle", msg |-> 0]
          /\ UNCHANGED <<chat, stream, ops, phase>>
      BY <1>3 DEF DiscardWorkingCard
    <2>2. QuietRecord(quiet') /\ ~quiet'.live /\ quiet'.msg = 0
      BY <2>1, NoQuietIsFresh DEF StreamInv
    <2>3. DOMAIN request' = {"at", "msg"} /\ request'.msg = 0 /\ 0 \in 0..Len(chat) /\ 0 \in Usable'
      BY <2>1, NoQuietIsFresh DEF StreamInv, Usable
    <2> QED
      BY <2>1, <2>2, <2>3 DEF StreamInv
  <1> QED
    BY <1>1, <1>2, <1>3

\* Once a request card is in the chat and the working card before it is retired, no
\* progress goes to a message above the request, for any number of items, messages,
\* requests and failures and any mode: a card that is retired while one of its
\* renders is being sent stays retired until the loop has nothing left to send.
THEOREM StreamProgressBelow == StreamSpec => []ProgressBelowRequest
  <1>1. StreamInit => StreamInv
    <2> SUFFICES ASSUME StreamInit PROVE StreamInv
      OBVIOUS
    <2>1. Sequence(chat)
      BY SequenceOfOne DEF StreamInit
    <2>2. Aimed(ops, 0..Len(chat)) /\ Aimed(ops, Usable)
      BY AimedParts DEF StreamInit
    <2>3. "live" \in DOMAIN stream /\ stream.live
      BY DEF StreamInit, NewStream
    <2>4. DOMAIN request = {"at", "msg"} /\ request.msg = 0 /\ floor = 0
      BY DEF StreamInit
    <2> QED
      BY <2>1, <2>2, <2>3, <2>4, NoQuietIsFresh DEF StreamInit, StreamInv
  <1>2. StreamInv /\ [StreamNext]_streamVars => StreamInv'
    <2> SUFFICES ASSUME StreamInv, [StreamNext]_streamVars PROVE StreamInv'
      OBVIOUS
    <2>1. CASE UpdatePendingPlan
      <3>1. "live" \in DOMAIN stream' /\ stream'.live = stream.live
        BY <2>1 DEF UpdatePendingPlan, StreamInv
      <3> QED
        BY <2>1, <3>1 DEF UpdatePendingPlan, StreamInv, Usable
    <2>2. CASE UNCHANGED streamVars
      BY <2>2 DEF streamVars, StreamInv, Usable
    <2> QED
      BY <2>1, <2>2, ProgressStep, ItemsStep, FinishStep, WorkStep, CommitStep, CardStep,
         RequestSteps DEF StreamNext
  <1>3. StreamInv => ProgressBelowRequest
    BY DEF StreamInv, Usable, ProgressBelowRequest
  <1> QED
    BY <1>1, <1>2, <1>3, PTL DEF StreamSpec
=============================================================================

----------------------- MODULE ClaudeInteractions_proofs -----------------------
(***************************************************************************)
(* The decision a user was told is submitted is the one the Claude CLI     *)
(* gets: for any set of requests, any number of processes of the session   *)
(* and any interleaving of clicks, withdrawals, clean-ups and restarts.    *)
(* An upgrade of the daemon that failed is rolled back, whatever its       *)
(* confirmations, polls and the crashes of the service do meanwhile.       *)
(* A prompt only reaches a process that runs with the settings resolved    *)
(* for it, and an active submission always has a process that will end it. *)
(***************************************************************************)
EXTENDS ClaudeInteractions, ClaudeRuntime, SelfUpgrade, TLAPS, FiniteSetTheorems,
        SequenceTheorems

(* The inductive invariant.                                                *)

Handling == {"idle", "save", "status", "send", "record", "wait", "release", "done"}

Types ==
  /\ handler \in [Reqs -> Handling]
  /\ ctx \in [Reqs -> {"live", "withdrawn", "stopped"}]
  /\ pending \subseteq Reqs
  /\ resp \in [Reqs -> Decisions \cup {"none", "error"}]
  /\ out \in [Reqs -> Decisions \cup {"none"}]
  /\ card \in [Reqs -> {"none", "buttons", "closed"}]
  /\ click \in [Reqs -> [pc : {"no", "take", "send", "final", "done"},
                         decision : Decisions]]

\* A request is in the table from its registration to the first who takes it:
\* until then nobody has answered it and its handler has not returned.
Listed(r) ==
  /\ r \in pending => handler[r] \in {"save", "status", "send", "record", "wait"}
  /\ r \in pending \/ handler[r] = "idle" => resp[r] = "none"

\* Only a card that was sent is recorded, clicked or closed, and sending follows
\* registration.
CardSent(r) ==
  card[r] # "none" \/ click[r].pc # "no" \/ r \in recorded =>
    handler[r] \in {"record", "wait", "release", "done"}

\* A handler gives up only when its context has ended, and returns once.
Waiting(r) ==
  /\ handler[r] = "release" => ctx[r] # "live"
  /\ handler[r] # "done" => out[r] = "none"

\* Whoever took the request from the table is alone with its channel.
Taker(r) ==
  /\ click[r].pc \in {"send", "final", "done"} => r \notin pending
  /\ click[r].pc = "send" =>
       resp[r] = "none" /\ (ctx[r] = "live" => handler[r] \in {"record", "wait"})
  /\ click[r].pc \in {"final", "done"} /\ ctx[r] = "live" =>
       \/ handler[r] \in {"record", "wait"} /\ resp[r] = click[r].decision
       \/ handler[r] = "done" /\ resp[r] = "none" /\ out[r] = click[r].decision

RequestOk(r) == Listed(r) /\ CardSent(r) /\ Waiting(r) /\ Taker(r)

RequestInv == Types /\ \A r \in Reqs : RequestOk(r)

-----------------------------------------------------------------------------
(* The steps.                                                              *)

\* Registering a request and opening its card.
LEMMA Opening ==
  ASSUME RequestInv, NEW r \in Reqs,
         StorePending(r) \/ DenyUndeliverable(r) \/ OpenSave(r) \/ OpenStatus(r)
           \/ OpenSend(r) \/ OpenSendFails(r) \/ OpenRecord(r)
  PROVE  RequestInv'
<1>1. Types /\ \A q \in Reqs : RequestOk(q) BY DEF RequestInv
<1>2. CASE StorePending(r)
  <2>1. Types'
    BY <1>1, <1>2 DEF Types, StorePending, Handling, Decisions, procs, sub, table,
       request
  <2>2. ASSUME NEW q \in Reqs PROVE RequestOk(q)'
    BY <1>1, <1>2 DEF Types, Decisions, RequestOk, Listed, CardSent, Waiting, Taker,
       StorePending, procs, sub, table, request
  <2> QED BY <2>1, <2>2 DEF RequestInv
<1>3. CASE DenyUndeliverable(r)
  <2>1. Types'
    BY <1>1, <1>3 DEF Types, DenyUndeliverable, Handling, Decisions, procs, sub, table,
       request
  <2>2. ASSUME NEW q \in Reqs PROVE RequestOk(q)'
    BY <1>1, <1>3 DEF Types, Decisions, RequestOk, Listed, CardSent, Waiting, Taker,
       DenyUndeliverable, procs, sub, table, request
  <2> QED BY <2>1, <2>2 DEF RequestInv
<1>4. CASE OpenSave(r)
  <2>1. Types'
    BY <1>1, <1>4 DEF Types, OpenSave, Handling, Decisions, procs, sub, table,
       request
  <2>2. ASSUME NEW q \in Reqs PROVE RequestOk(q)'
    BY <1>1, <1>4 DEF Types, Decisions, RequestOk, Listed, CardSent, Waiting, Taker,
       OpenSave, procs, sub, table, request
  <2> QED BY <2>1, <2>2 DEF RequestInv
<1>5. CASE OpenStatus(r)
  <2>1. Types'
    BY <1>1, <1>5 DEF Types, OpenStatus, Handling, Decisions, procs, sub, table,
       request
  <2>2. ASSUME NEW q \in Reqs PROVE RequestOk(q)'
    BY <1>1, <1>5 DEF Types, Decisions, RequestOk, Listed, CardSent, Waiting, Taker,
       OpenStatus, procs, sub, table, request
  <2> QED BY <2>1, <2>2 DEF RequestInv
<1>6. CASE OpenSend(r)
  <2>1. Types'
    BY <1>1, <1>6 DEF Types, OpenSend, Handling, Decisions, procs, sub, table,
       request
  <2>2. ASSUME NEW q \in Reqs PROVE RequestOk(q)'
    BY <1>1, <1>6 DEF Types, Decisions, RequestOk, Listed, CardSent, Waiting, Taker,
       OpenSend, procs, sub, table, request
  <2> QED BY <2>1, <2>2 DEF RequestInv
<1>7. CASE OpenSendFails(r)
  <2>1. Types'
    BY <1>1, <1>7 DEF Types, OpenSendFails, Handling, Decisions, procs, sub, table,
       request
  <2>2. ASSUME NEW q \in Reqs PROVE RequestOk(q)'
    BY <1>1, <1>7 DEF Types, Decisions, RequestOk, Listed, CardSent, Waiting, Taker,
       OpenSendFails, procs, sub, table, request
  <2> QED BY <2>1, <2>2 DEF RequestInv
<1>8. CASE OpenRecord(r)
  <2>1. Types'
    BY <1>1, <1>8 DEF Types, OpenRecord, Handling, Decisions, procs, sub, table,
       request
  <2>2. ASSUME NEW q \in Reqs PROVE RequestOk(q)'
    BY <1>1, <1>8 DEF Types, Decisions, RequestOk, Listed, CardSent, Waiting, Taker,
       OpenRecord, procs, sub, table, request
  <2> QED BY <2>1, <2>2 DEF RequestInv
<1> QED BY <1>2, <1>3, <1>4, <1>5, <1>6, <1>7, <1>8

\* The handler returns an answer, or gives up.
LEMMA Returning ==
  ASSUME RequestInv, NEW r \in Reqs,
         TakeResponse(r) \/ TakeDone(r) \/ ReleaseCard(r)
  PROVE  RequestInv'
<1>1. Types /\ \A q \in Reqs : RequestOk(q) BY DEF RequestInv
<1>2. CASE TakeResponse(r)
  <2>1. Types'
    BY <1>1, <1>2 DEF Types, TakeResponse, Handling, Decisions, procs, sub, table,
       request, Expire
  <2>2. ASSUME NEW q \in Reqs PROVE RequestOk(q)'
    BY <1>1, <1>2 DEF Types, Decisions, RequestOk, Listed, CardSent, Waiting, Taker,
       TakeResponse, procs, sub, table, request, Expire
  <2> QED BY <2>1, <2>2 DEF RequestInv
<1>3. CASE TakeDone(r)
  <2>1. Types'
    BY <1>1, <1>3 DEF Types, TakeDone, Handling, Decisions, procs, sub, table,
       request, Expire
  <2>2. ASSUME NEW q \in Reqs PROVE RequestOk(q)'
    BY <1>1, <1>3 DEF Types, Decisions, RequestOk, Listed, CardSent, Waiting, Taker,
       TakeDone, procs, sub, table, request, Expire
  <2> QED BY <2>1, <2>2 DEF RequestInv
<1>4. CASE ReleaseCard(r)
  <2>1. Types'
    BY <1>1, <1>4 DEF Types, ReleaseCard, Handling, Decisions, procs, sub, table,
       request, Expire
  <2>2. ASSUME NEW q \in Reqs PROVE RequestOk(q)'
    BY <1>1, <1>4 DEF Types, Decisions, RequestOk, Listed, CardSent, Waiting, Taker,
       ReleaseCard, procs, sub, table, request, Expire
  <2> QED BY <2>1, <2>2 DEF RequestInv
<1> QED BY <1>2, <1>3, <1>4

\* A click takes the request from the table and answers it.
LEMMA Clicking ==
  ASSUME RequestInv, NEW r \in Reqs,
         Press(r) \/ TakePending(r) \/ SendResponse(r) \/ FinalizeReply(r)
  PROVE  RequestInv'
<1>1. Types /\ \A q \in Reqs : RequestOk(q) BY DEF RequestInv
<1>2. CASE Press(r)
  <2>1. Types'
    BY <1>1, <1>2 DEF Types, Press, Handling, Decisions, procs, sub, table,
       request
  <2>2. ASSUME NEW q \in Reqs PROVE RequestOk(q)'
    BY <1>1, <1>2 DEF Types, Decisions, RequestOk, Listed, CardSent, Waiting, Taker,
       Press, procs, sub, table, request
  <2> QED BY <2>1, <2>2 DEF RequestInv
<1>3. CASE TakePending(r)
  <2>1. Types'
    BY <1>1, <1>3 DEF Types, TakePending, Handling, Decisions, procs, sub, table,
       request
  <2>2. ASSUME NEW q \in Reqs PROVE RequestOk(q)'
    BY <1>1, <1>3 DEF Types, Decisions, RequestOk, Listed, CardSent, Waiting, Taker,
       TakePending, procs, sub, table, request
  <2> QED BY <2>1, <2>2 DEF RequestInv
<1>4. CASE SendResponse(r)
  <2>1. Types'
    BY <1>1, <1>4 DEF Types, SendResponse, Handling, Decisions, procs, sub, table,
       request
  <2>2. ASSUME NEW q \in Reqs PROVE RequestOk(q)'
    BY <1>1, <1>4 DEF Types, Decisions, RequestOk, Listed, CardSent, Waiting, Taker,
       SendResponse, procs, sub, table, request
  <2> QED BY <2>1, <2>2 DEF RequestInv
<1>5. CASE FinalizeReply(r)
  <2>1. Types'
    BY <1>1, <1>5 DEF Types, FinalizeReply, Handling, Decisions, procs, sub, table,
       request
  <2>2. ASSUME NEW q \in Reqs PROVE RequestOk(q)'
    BY <1>1, <1>5 DEF Types, Decisions, RequestOk, Listed, CardSent, Waiting, Taker,
       FinalizeReply, procs, sub, table, request
  <2> QED BY <2>1, <2>2 DEF RequestInv
<1> QED BY <1>2, <1>3, <1>4, <1>5

\* The CLI asks and withdraws; a card expires.
LEMMA Others ==
  ASSUME RequestInv, NEW r \in Reqs,
         Ask(r) \/ Withdraw(r) \/ ExpireCard(r)
  PROVE  RequestInv'
<1>1. Types /\ \A q \in Reqs : RequestOk(q) BY DEF RequestInv
<1>2. CASE Ask(r)
  <2>1. Types'
    BY <1>1, <1>2 DEF Types, Ask, Handling, Decisions, procs, sub, table,
       request, Expire
  <2>2. ASSUME NEW q \in Reqs PROVE RequestOk(q)'
    BY <1>1, <1>2 DEF Types, Decisions, RequestOk, Listed, CardSent, Waiting, Taker,
       Ask, procs, sub, table, request, Expire
  <2> QED BY <2>1, <2>2 DEF RequestInv
<1>3. CASE Withdraw(r)
  <2>1. Types'
    BY <1>1, <1>3 DEF Types, Withdraw, Handling, Decisions, procs, sub, table,
       request, Expire
  <2>2. ASSUME NEW q \in Reqs PROVE RequestOk(q)'
    BY <1>1, <1>3 DEF Types, Decisions, RequestOk, Listed, CardSent, Waiting, Taker,
       Withdraw, procs, sub, table, request, Expire
  <2> QED BY <2>1, <2>2 DEF RequestInv
<1>4. CASE ExpireCard(r)
  <2>1. Types'
    BY <1>1, <1>4 DEF Types, ExpireCard, Handling, Decisions, procs, sub, table,
       request, Expire
  <2>2. ASSUME NEW q \in Reqs PROVE RequestOk(q)'
    BY <1>1, <1>4 DEF Types, Decisions, RequestOk, Listed, CardSent, Waiting, Taker,
       ExpireCard, procs, sub, table, request, Expire
  <2> QED BY <2>1, <2>2 DEF RequestInv
<1> QED BY <1>2, <1>3, <1>4

-----------------------------------------------------------------------------
(* The end of a process.                                                   *)

\* expireSessionInteractions answers only requests nobody has taken yet; the
\* contexts that end are those of the process.
LEMMA Expiring ==
  ASSUME RequestInv, ResetSession \/ \E p \in Procs : CleanupStaleSessionOps(p)
  PROVE  RequestInv'
<1>1. Types /\ \A q \in Reqs : RequestOk(q) BY DEF RequestInv
<1>2. /\ ExpireSessionInteractions
      /\ UNCHANGED <<handler, out, card, recorded, click>>
      /\ \/ ctx' = ctx
         \/ ctx' = [r \in Reqs |-> IF asker[r] = current /\ ctx[r] = "live"
                                   THEN "stopped" ELSE ctx[r]]
  BY DEF ResetSession, CleanupStaleSessionOps, request
<1>3. Types'
  BY <1>1, <1>2 DEF Types, ExpireSessionInteractions, Taken
<1>4. ASSUME NEW q \in Reqs PROVE RequestOk(q)'
  <2>1. ctx'[q] = ctx[q] \/ ctx'[q] = "stopped" BY <1>2 DEF Types
  <2>2. \/ (q \in pending' <=> q \in pending) /\ resp'[q] = resp[q]
        \/ q \in pending /\ q \notin pending' /\ resp'[q] = "error"
    BY <1>1, <1>2
       DEF ExpireSessionInteractions, Taken, RequestOk, Listed
  <2> QED
    BY <1>1, <1>2, <2>1, <2>2
       DEF RequestOk, Listed, CardSent, Waiting, Taker
<1> QED BY <1>3, <1>4 DEF RequestInv

\* The turn ends, a process starts or dies.
LEMMA Elsewhere ==
  ASSUME RequestInv,
         TurnEnds \/ StartSession \/ \E p \in Procs : ProcessDies(p)
  PROVE  RequestInv'
<1>1. Types /\ \A q \in Reqs : RequestOk(q) BY DEF RequestInv
<1>2. /\ UNCHANGED <<handler, pending, resp, out, card, recorded, click>>
      /\ \/ ctx' = ctx
         \/ \E p \in Procs :
              ctx' = [r \in Reqs |-> IF asker[r] = p /\ ctx[r] = "live"
                                     THEN "stopped" ELSE ctx[r]]
  BY DEF TurnEnds, StartSession, ProcessDies, table, request
<1>3. Types' BY <1>1, <1>2 DEF Types
<1>4. ASSUME NEW q \in Reqs PROVE RequestOk(q)'
  <2>1. ctx'[q] = ctx[q] \/ ctx'[q] = "stopped" BY <1>2 DEF Types
  <2> QED
    BY <1>1, <1>2, <2>1 DEF RequestOk, Listed, CardSent, Waiting, Taker
<1> QED BY <1>3, <1>4 DEF RequestInv
-----------------------------------------------------------------------------
(* The theorem.                                                            *)

\* Every reachable state satisfies the invariant.
LEMMA RequestInvariant == Spec => []RequestInv
<1>1. Init => RequestInv
  BY DEF Init, RequestInv, Types, Handling, Decisions, RequestOk, Listed, CardSent,
     Waiting, Taker
<1>2. ASSUME RequestInv, Next PROVE RequestInv'
  BY <1>2, Opening, Returning, Clicking, Others, Expiring, Elsewhere
     DEF Next, HandlerStep, ClickStep
<1>3. ASSUME RequestInv, UNCHANGED vars PROVE RequestInv'
  BY <1>3 DEF RequestInv, Types, RequestOk, Listed, CardSent, Waiting, Taker, vars
<1> QED BY <1>1, <1>2, <1>3, PTL DEF Spec

\* A card that says a decision was submitted tells the truth, for any number of
\* requests, processes and clicks: takePending makes one of the click, the
\* withdrawal and the clean-up of the session key the only one that answers.
THEOREM RequestsSubmittedIsReturned == Spec => []SubmittedIsReturned
<1>1. ASSUME RequestInv PROVE SubmittedIsReturned
  BY <1>1 DEF RequestInv, RequestOk, Waiting, Taker, SubmittedIsReturned
<1> QED BY <1>1, RequestInvariant, PTL

\* A click never waits for room in RespCh, whose capacity is one: whoever takes a
\* request from the table is the only one that sends into it, also when the
\* handler has given up.
THEOREM RequestsClickNeverBlocks == Spec => []ClickNeverBlocks
<1>1. RequestInv => ClickNeverBlocks
  BY DEF RequestInv, RequestOk, Taker, ClickNeverBlocks
<1> QED BY <1>1, RequestInvariant, PTL
-----------------------------------------------------------------------------
(***************************************************************************)
(* The upgrade of the daemon.                                              *)
(***************************************************************************)
FormStatus == {"none", "pending", "processing", "launching", "upgrading", "resolved"}
Forms == [status : FormStatus, expired : BOOLEAN, attempt : Nat]
ConfirmSteps == {"none", "claimed", "saved", "launched", "refused"}
RunnerSteps == {"none", "stage", "stop", "backup", "activate", "start", "health", "restore",
                "remove", "return", "restart", "succeeded", "failed"}
Binaries == Requests \cup {Old, Missing}

UpgradeTypes ==
  /\ form \in [Requests -> Forms]
  /\ call \in [Requests -> ConfirmSteps]
  /\ poll \in [Requests -> {<<>>} \cup {"launching", "upgrading"} \X Nat]
  /\ runner \in [Requests -> RunnerSteps]
  /\ backup \in [Requests -> Binaries]
  /\ binary \in Binaries
  /\ service \in {"running", "stopped", "failed"}
  /\ bad \in SUBSET Requests
  /\ faults \in 0..MaxFaults
  /\ bad # {} => faults # 0

\* The one fault was the reply of a launch that had happened
Spent == faults # 0 /\ bad = {}

\* A request is launched once, unless the reply of its launch was lost.
LaunchOk(r) ==
  /\ call[r] = "claimed" => form[r].status = "processing"
  /\ call[r] \in {"saved", "launched", "refused"} => form[r].status \in {"launching", "resolved"}
  /\ runner[r] # "none" => form[r].status # "none"
  /\ /\ runner[r] # "none"
     /\ \/ form[r].status \in {"pending", "processing"}
        \/ call[r] \in {"claimed", "saved", "refused"}
     => Spent

\* Without a fault, whoever left the path empty or the service stopped is
\* still at work, and has a binary to put back.
Holds == {"activate", "start", "health", "restore", "remove", "return"}
Stops == {"backup", "activate", "start", "restore", "remove", "return", "restart"}
Together ==
  faults = 0 =>
    /\ \A r \in Requests : runner[r] \in Holds => backup[r] # Missing
    /\ binary = Missing => \E r \in Requests : runner[r] \in {"activate", "return"}
    /\ service = "stopped" => \E r \in Requests : runner[r] \in Stops

\* What a runner finds that is the only one
Kept(r) == backup[r] = Old \/ (Spent /\ backup[r] = r)
Found(r) == binary = Old \/ (Spent /\ binary = r)
RunnerOk(r) ==
  /\ runner[r] \in {"stage", "stop"} => Found(r) /\ service # "stopped"
  /\ runner[r] = "backup" => Found(r)
  /\ runner[r] = "activate" => binary = Missing /\ Kept(r)
  /\ runner[r] = "start" => binary = r /\ Kept(r)
  /\ runner[r] = "health" => binary = r /\ Kept(r) /\ service # "stopped"
  /\ runner[r] \in {"restore", "remove", "return"} => faults # 0 /\ backup[r] = Old
  /\ runner[r] = "return" => binary = Missing
  /\ runner[r] = "restart" => faults # 0 /\ binary = Old
  /\ runner[r] = "failed" => binary = Old /\ service # "stopped"
  /\ runner[r] = "succeeded" => binary = r /\ service # "stopped"

Single == \A q, r \in Requests : runner[q] # "none" /\ runner[r] # "none" => q = r
Alone ==
  Single =>
    /\ (\A r \in Requests : runner[r] = "none") => binary = Old /\ service # "stopped"
    /\ \A r \in Requests : RunnerOk(r)

UpgradeInv ==
  /\ UpgradeTypes
  /\ \A r \in Requests : LaunchOk(r)
  /\ Together
  /\ Alone
-----------------------------------------------------------------------------
\* What saving a form leaves.
LEMMA StatusSaved ==
  ASSUME form \in [Requests -> Forms], NEW r \in Requests, NEW s \in FormStatus,
         SetStatus(r, s)
  PROVE  /\ form' \in [Requests -> Forms]
         /\ form'[r].status = s
         /\ \A q \in Requests \ {r} : form'[q] = form[q]
  <1> DEFINE f == [form[r] EXCEPT !.status = s]
  <1>1. f \in Forms /\ f.status = s
    BY DEF Forms
  <1> HIDE DEF f
  <1>2. form' = [form EXCEPT ![r] = f]
    BY DEF SetStatus, f
  <1> QED
    BY <1>1, <1>2

\* The steps that only concern the request's form.
Forming(r) ==
  \/ \E v \in Releases, forced \in BOOLEAN : Prepare(r, v, forced)
  \/ PrepareLocal(r) \/ Cancel(r) \/ Lapse(r)
LEMMA FormingSteps ==
  ASSUME UpgradeTypes, NEW r \in Requests, Forming(r)
  PROVE  /\ form' \in [Requests -> Forms]
         /\ \A q \in Requests \ {r} : form'[q] = form[q]
         /\ \/ form[r].status = "none" /\ form'[r].status = "pending"
            \/ form[r].status = "pending" /\ form'[r].status = "resolved"
            \/ form'[r].status = form[r].status
         /\ UNCHANGED <<call, poll, runner, backup, binary, service, notice, bad, faults, crashes>>
  <1>1. CASE \/ \E v \in Releases, forced \in BOOLEAN : Prepare(r, v, forced)
             \/ PrepareLocal(r)
    <2>1. /\ form[r].status = "none" /\ SetStatus(r, "pending")
          /\ UNCHANGED <<call, poll, runner, backup, binary, service, notice, bad, faults, crashes>>
      BY <1>1 DEF Prepare, PrepareLocal, Opens
    <2> QED
      BY <2>1, StatusSaved DEF UpgradeTypes, FormStatus
  <1>2. CASE Cancel(r)
    BY <1>2, StatusSaved DEF UpgradeTypes, FormStatus, Cancel
  <1>3. CASE Lapse(r)
    <2> DEFINE f == [form[r] EXCEPT !.expired = TRUE]
    <2>1. f \in Forms /\ f.status = form[r].status
      BY DEF Forms, UpgradeTypes
    <2> HIDE DEF f
    <2>2. form' = [form EXCEPT ![r] = f]
      BY <1>3 DEF Lapse, f
    <2> QED
      BY <1>3, <2>1, <2>2 DEF Lapse, UpgradeTypes
  <1> QED
    BY <1>1, <1>2, <1>3 DEF Forming

\* The steps of a confirmation, of a poll and of the process.
LEMMA SaveLaunchStep ==
  ASSUME UpgradeTypes, NEW r \in Requests, SaveLaunch(r)
  PROVE  /\ form' \in [Requests -> Forms]
         /\ \A q \in Requests \ {r} : form'[q] = form[q]
         /\ call[r] = "claimed"
         /\ \/ /\ form'[r].status = "launching" /\ UNCHANGED faults
               /\ call' = [call EXCEPT ![r] = "saved"]
            \/ /\ form'[r].status \in {"pending", form[r].status}
               /\ faults < MaxFaults /\ faults' = faults + 1
               /\ call' = [call EXCEPT ![r] = "none"]
         /\ UNCHANGED <<poll, runner, backup, binary, service, notice, bad, crashes>>
  <1>1. CASE /\ Sound
             /\ form' = [form EXCEPT ![r].status = "launching", ![r].attempt = @ + 1]
             /\ call' = [call EXCEPT ![r] = "saved"]
    <2> DEFINE f == [form[r] EXCEPT !.status = "launching", !.attempt = @ + 1]
    <2>1. f \in Forms /\ f.status = "launching"
      <3>1. form[r] \in Forms
        BY DEF UpgradeTypes
      <3>2. form[r].attempt + 1 \in Nat /\ form[r].expired \in BOOLEAN
        BY <3>1 DEF Forms
      <3>3. f \in [status : {"launching"}, expired : {form[r].expired},
                  attempt : {form[r].attempt + 1}]
        BY <3>1 DEF Forms
      <3> QED
        BY <3>2, <3>3 DEF Forms, FormStatus
    <2> HIDE DEF f
    <2>2. form' = [form EXCEPT ![r] = f]
      BY <1>1 DEF f
    <2> QED
      BY <1>1, <2>1, <2>2 DEF SaveLaunch, Sound, UpgradeTypes
  <1>2. CASE /\ Fault("inspect")
             /\ IF form[r].expired THEN UNCHANGED form ELSE SetStatus(r, "pending")
             /\ call' = [call EXCEPT ![r] = "none"]
    <2>1. CASE form[r].expired
      BY <1>2, <2>1 DEF SaveLaunch, Fault, UpgradeTypes
    <2>2. CASE ~form[r].expired
      BY <1>2, <2>2, StatusSaved DEF SaveLaunch, Fault, UpgradeTypes, FormStatus
    <2> QED
      BY <2>1, <2>2
  <1> QED
    BY <1>1, <1>2 DEF SaveLaunch

LEMMA ConfirmedStep ==
  ASSUME UpgradeTypes, NEW r \in Requests, Confirmed(r)
  PROVE  /\ form' \in [Requests -> Forms]
         /\ \A q \in Requests \ {r} : form'[q] = form[q]
         /\ call[r] \in {"launched", "refused"} /\ call' = [call EXCEPT ![r] = "none"]
         /\ \/ form'[r] = form[r]
            \/ call[r] = "launched" /\ form'[r].status = "upgrading"
            \/ call[r] = "refused" /\ form'[r].status = "pending"
         /\ faults' = faults \/ (faults < MaxFaults /\ faults' = faults + 1)
         /\ UNCHANGED <<poll, runner, backup, binary, service, bad, crashes>>
  <1>1. CASE form' = form
    BY <1>1 DEF Confirmed, Fault, Sound, UpgradeTypes
  <1>2. CASE Sound /\ SetStatus(r, IF call[r] = "launched" THEN "upgrading" ELSE "pending")
    <2>1. CASE call[r] = "launched"
      <3>1. SetStatus(r, "upgrading")
        BY <1>2, <2>1
      <3> QED
        BY <1>2, <2>1, <3>1, StatusSaved DEF Confirmed, Sound, UpgradeTypes, FormStatus
    <2>2. CASE call[r] = "refused"
      <3>1. SetStatus(r, "pending")
        BY <1>2, <2>2
      <3> QED
        BY <1>2, <2>2, <3>1, StatusSaved DEF Confirmed, Sound, UpgradeTypes, FormStatus
    <2> QED
      BY <2>1, <2>2 DEF Confirmed
  <1> QED
    BY <1>1, <1>2 DEF Confirmed

LEMMA PollSteps ==
  ASSUME UpgradeTypes, NEW r \in Requests, Poll(r)
  PROVE  /\ form' \in [Requests -> Forms]
         /\ \A q \in Requests \ {r} : form'[q] = form[q]
         /\ \/ form'[r] = form[r]
            \/ form[r].status \in {"launching", "upgrading"} /\ form'[r].status = "resolved"
         /\ poll' \in [Requests -> {<<>>} \cup {"launching", "upgrading"} \X Nat]
         /\ faults' = faults \/ (faults < MaxFaults /\ faults' = faults + 1)
         /\ UNCHANGED <<call, runner, backup, binary, service, bad, crashes>>
  <1>1. CASE PollRead(r)
    <2>1. <<form[r].status, form[r].attempt>> \in {"launching", "upgrading"} \X Nat
      BY <1>1 DEF PollRead, IsRunning, UpgradeTypes, Forms
    <2> QED
      BY <1>1, <2>1 DEF PollRead, UpgradeTypes
  <1>2. CASE PollCheck(r)
    <2>1. CASE form' = form
      BY <1>2, <2>1 DEF PollCheck, UpgradeTypes, Fault, Sound
    <2>2. CASE Sound /\ SetStatus(r, "resolved") /\ poll[r] = <<form[r].status, form[r].attempt>>
      <3>1. poll[r] \in {"launching", "upgrading"} \X Nat
        BY <1>2 DEF PollCheck, UpgradeTypes
      <3>2. <<form[r].status, form[r].attempt>> \in {"launching", "upgrading"} \X Nat
        BY <2>2, <3>1
      <3>3. form[r].status \in {"launching", "upgrading"}
        BY <3>2
      <3> QED
        BY <1>2, <2>2, <3>3, StatusSaved DEF PollCheck, Sound, UpgradeTypes, FormStatus
    <2> QED
      BY <1>2, <2>1, <2>2 DEF PollCheck
  <1> QED
    BY <1>1, <1>2 DEF Poll
LEMMA ClaimStep ==
  ASSUME UpgradeTypes, NEW r \in Requests, Claim(r)
  PROVE  /\ form' \in [Requests -> Forms]
         /\ \A q \in Requests \ {r} : form'[q] = form[q]
         /\ form[r].status = "pending" /\ form'[r].status = "processing"
         /\ call' = [call EXCEPT ![r] = "claimed"]
         /\ UNCHANGED <<poll, runner, backup, binary, service, bad, faults, crashes>>
  BY StatusSaved DEF Claim, UpgradeTypes, FormStatus

\* What one step of a runner changes of the rest.
LEMMA RunnerMoves ==
  ASSUME UpgradeTypes, NEW r \in Requests, Runner(r)
  PROVE  /\ runner[r] \notin {"none", "succeeded", "failed"}
         /\ \E s \in RunnerSteps \ {"none"} : Step(r, s)
         /\ backup' \in [Requests -> Binaries]
         /\ \A q \in Requests \ {r} : backup'[q] = backup[q]
         /\ binary' \in Binaries
         /\ service' \in {"running", "stopped", "failed"}
         /\ (UNCHANGED <<call, poll>>) \/ ProcessEnds
         /\ faults' = faults \/ (faults < MaxFaults /\ faults' = faults + 1)
         /\ UNCHANGED <<form, bad, crashes>>
  <1> USE DEF Rest, Ends, Fails, Sound, Fault, RunnerSteps, UpgradeTypes, Binaries
  <1>1. CASE Stage(r)
    BY <1>1 DEF Stage
  <1>2. CASE StopService(r)
    BY <1>2 DEF StopService, Stop
  <1>3. CASE MoveAway(r)
    BY <1>3 DEF MoveAway
  <1>4. CASE Activate(r)
    BY <1>4 DEF Activate
  <1>5. CASE StartService(r)
    BY <1>5 DEF StartService, Start
  <1>6. CASE Health(r)
    BY <1>6 DEF Health
  <1>7. CASE Restore(r)
    BY <1>7 DEF Restore, Stop
  <1>8. CASE Remove(r)
    BY <1>8 DEF Remove
  <1>9. CASE PutBack(r)
    BY <1>9 DEF PutBack
  <1>10. CASE Restart(r)
    BY <1>10 DEF Restart, Start
  <1> QED
    BY <1>1, <1>2, <1>3, <1>4, <1>5, <1>6, <1>7, <1>8, <1>9, <1>10 DEF Runner

UpgradeStep(r) ==
  \/ Forming(r) \/ Claim(r) \/ SaveLaunch(r) \/ Launch(r) \/ Confirmed(r)
  \/ Runner(r) \/ Poll(r)

LEMMA UpgradeSteps ==
  ASSUME [UpgradeNext]_upgradeVars
  PROVE  \/ \E r \in Requests : UpgradeStep(r)
         \/ Respawn \/ Crash \/ UNCHANGED upgradeVars
  BY DEF UpgradeNext, UpgradeStep, Forming

LEMMA LaunchStep ==
  ASSUME UpgradeTypes, NEW r \in Requests, Launch(r)
  PROVE  /\ call[r] = "saved"
         /\ \/ /\ runner[r] \in {"none", "succeeded"} /\ runner' = [runner EXCEPT ![r] = "stage"]
               /\ \/ UNCHANGED faults /\ call' = [call EXCEPT ![r] = "launched"]
                  \/ /\ faults < MaxFaults /\ faults' = faults + 1
                     /\ call' = [call EXCEPT ![r] = "refused"]
            \/ /\ UNCHANGED runner
               /\ faults' = faults \/ (faults < MaxFaults /\ faults' = faults + 1)
               /\ call' = [call EXCEPT ![r] = "refused"]
         /\ UNCHANGED <<form, poll, backup, binary, service, bad, crashes>>
  BY DEF Launch, Fault, Sound, Step

LEMMA FaultsKept ==
  ASSUME UpgradeTypes, UNCHANGED bad,
         faults' = faults \/ (faults < MaxFaults /\ faults' = faults + 1)
  PROVE  /\ faults' \in 0..MaxFaults
         /\ bad' # {} => faults' # 0
         /\ faults' # faults /\ MaxFaults <= 1 => faults = 0 /\ faults' # 0 /\ bad = {}
         /\ faults # 0 => faults' # 0
  BY UpgradeAssumption DEF UpgradeAssumption, UpgradeTypes

LEMMA UpgradeTypesKept ==
  ASSUME UpgradeTypes, [UpgradeNext]_upgradeVars
  PROVE  UpgradeTypes'
  <1>1. ASSUME NEW r \in Requests, UpgradeStep(r) PROVE UpgradeTypes'
    <2>1. CASE Forming(r)
      BY <2>1, FormingSteps DEF UpgradeTypes
    <2>2. CASE Claim(r)
      BY <2>2, ClaimStep DEF UpgradeTypes, ConfirmSteps
    <2>3. CASE SaveLaunch(r)
      <3>1. faults' \in 0..MaxFaults /\ (bad' # {} => faults' # 0)
        BY <2>3, SaveLaunchStep, FaultsKept
      <3> QED
        BY <2>3, SaveLaunchStep, <3>1 DEF UpgradeTypes, ConfirmSteps
    <2>4. CASE Launch(r)
      <3>1. faults' \in 0..MaxFaults /\ (bad' # {} => faults' # 0)
        BY <2>4, LaunchStep, FaultsKept
      <3> QED
        BY <2>4, LaunchStep, <3>1 DEF UpgradeTypes, ConfirmSteps, RunnerSteps
    <2>5. CASE Confirmed(r)
      <3>1. faults' \in 0..MaxFaults /\ (bad' # {} => faults' # 0)
        BY <2>5, ConfirmedStep, FaultsKept
      <3> QED
        BY <2>5, ConfirmedStep, <3>1 DEF UpgradeTypes, ConfirmSteps
    <2>6. CASE Runner(r)
      <3>1. faults' \in 0..MaxFaults /\ (bad' # {} => faults' # 0)
        BY <2>6, RunnerMoves, FaultsKept
      <3> QED
        BY <2>6, RunnerMoves, <3>1 DEF UpgradeTypes, ConfirmSteps, ProcessEnds, Step
    <2>7. CASE Poll(r)
      <3>1. faults' \in 0..MaxFaults /\ (bad' # {} => faults' # 0)
        BY <2>7, PollSteps, FaultsKept
      <3> QED
        BY <2>7, PollSteps, <3>1 DEF UpgradeTypes
    <2> QED
      BY <1>1, <2>1, <2>2, <2>3, <2>4, <2>5, <2>6, <2>7 DEF UpgradeStep
  <1>2. CASE Respawn
    BY <1>2 DEF Respawn, UpgradeTypes
  <1>3. CASE Crash
    BY <1>3 DEF Crash, ProcessEnds, UpgradeTypes, ConfirmSteps
  <1>4. CASE UNCHANGED upgradeVars
    BY <1>4 DEF upgradeVars, UpgradeTypes
  <1> QED
    BY <1>1, <1>2, <1>3, <1>4, UpgradeSteps

LEMMA LaunchKept ==
  ASSUME UpgradeTypes, \A r \in Requests : LaunchOk(r), [UpgradeNext]_upgradeVars, MaxFaults <= 1
  PROVE  \A r \in Requests : LaunchOk(r)'
  <1> TAKE q \in Requests
  <1>1. ASSUME NEW r \in Requests, UpgradeStep(r) PROVE LaunchOk(q)'
    <2>1. CASE Forming(r)
      BY <2>1, FormingSteps DEF UpgradeTypes, LaunchOk, Spent
    <2>2. CASE Claim(r)
      BY <2>2, ClaimStep DEF UpgradeTypes, LaunchOk, Spent
    <2>3. CASE SaveLaunch(r)
      <3>1. /\ Spent => Spent'
            /\ faults' # faults => Spent'
        BY <2>3, SaveLaunchStep, FaultsKept DEF Spent
      <3> QED
        BY <2>3, SaveLaunchStep, <3>1 DEF UpgradeTypes, LaunchOk
    <2>4. CASE Launch(r)
      <3>1. /\ Spent => Spent'
            /\ faults' # faults => Spent'
        BY <2>4, LaunchStep, FaultsKept DEF Spent
      <3> QED
        BY <2>4, LaunchStep, <3>1 DEF UpgradeTypes, LaunchOk
    <2>5. CASE Confirmed(r)
      <3>1. /\ Spent => Spent'
            /\ faults' # faults => Spent'
        BY <2>5, ConfirmedStep, FaultsKept DEF Spent
      <3> QED
        BY <2>5, ConfirmedStep, <3>1 DEF UpgradeTypes, LaunchOk
    <2>6. CASE Runner(r)
      <3>1. /\ Spent => Spent'
            /\ faults' # faults => Spent'
        BY <2>6, RunnerMoves, FaultsKept DEF Spent
      <3> QED
        BY <2>6, RunnerMoves, <3>1 DEF UpgradeTypes, LaunchOk, ProcessEnds, Step
    <2>7. CASE Poll(r)
      <3>1. /\ Spent => Spent'
            /\ faults' # faults => Spent'
        BY <2>7, PollSteps, FaultsKept DEF Spent
      <3> QED
        BY <2>7, PollSteps, <3>1 DEF UpgradeTypes, LaunchOk
    <2> QED
      BY <1>1, <2>1, <2>2, <2>3, <2>4, <2>5, <2>6, <2>7 DEF UpgradeStep
  <1>2. CASE Respawn
    BY <1>2 DEF Respawn, LaunchOk, Spent
  <1>3. CASE Crash
    BY <1>3 DEF Crash, ProcessEnds, LaunchOk, Spent, UpgradeTypes
  <1>4. CASE UNCHANGED upgradeVars
    BY <1>4 DEF upgradeVars, LaunchOk, Spent
  <1> QED
    BY <1>1, <1>2, <1>3, <1>4, UpgradeSteps
\* The steps that touch neither a runner, the binary nor the service.
LEMMA ElsewhereUpgrading ==
  ASSUME UpgradeTypes, NEW r \in Requests,
         Forming(r) \/ Claim(r) \/ SaveLaunch(r) \/ Confirmed(r) \/ Poll(r)
  PROVE  /\ UNCHANGED <<runner, backup, binary, service, bad>>
         /\ faults' = faults \/ (faults < MaxFaults /\ faults' = faults + 1)
  <1>1. CASE Forming(r)
    BY <1>1, FormingSteps
  <1>2. CASE Claim(r)
    BY <1>2, ClaimStep
  <1>3. CASE SaveLaunch(r)
    BY <1>3, SaveLaunchStep
  <1>4. CASE Confirmed(r)
    BY <1>4, ConfirmedStep
  <1>5. CASE Poll(r)
    BY <1>5, PollSteps
  <1> QED
    BY <1>1, <1>2, <1>3, <1>4, <1>5

\* A runner's step without a fault.
LEMMA RunnerSound ==
  ASSUME UpgradeTypes, NEW r \in Requests, Runner(r), faults' = 0
  PROVE  /\ faults = 0 /\ bad = {}
         /\ \/ runner[r] = "stage" /\ Step(r, "stop") /\ UNCHANGED <<backup, binary, service>>
            \/ /\ runner[r] = "stop" /\ Step(r, "backup") /\ service' = "stopped"
               /\ UNCHANGED <<backup, binary>>
            \/ /\ runner[r] = "backup" /\ Step(r, "activate") /\ binary # Missing
               /\ binary' = Missing /\ backup' = [backup EXCEPT ![r] = binary] /\ UNCHANGED service
            \/ /\ runner[r] = "backup" /\ Step(r, "failed") /\ binary = Missing
               /\ backup' = [backup EXCEPT ![r] = Missing] /\ UNCHANGED <<binary, service>>
            \/ /\ runner[r] = "activate" /\ Step(r, "start") /\ binary' = r
               /\ UNCHANGED <<backup, service>>
            \/ /\ runner[r] = "start" /\ Step(r, "health") /\ service' # "stopped"
               /\ UNCHANGED <<backup, binary>>
            \/ /\ runner[r] = "health" /\ Step(r, "succeeded")
               /\ backup' = [backup EXCEPT ![r] = Missing] /\ UNCHANGED <<binary, service>>
            \/ /\ runner[r] = "health" /\ Step(r, "restore")
               /\ UNCHANGED <<backup, binary, service>>
            \/ /\ runner[r] = "restore" /\ Step(r, "remove") /\ service' = "stopped"
               /\ UNCHANGED <<backup, binary>>
            \/ /\ runner[r] = "remove" /\ Step(r, "return") /\ binary' = Missing
               /\ UNCHANGED <<backup, service>>
            \/ /\ runner[r] = "return" /\ Step(r, "restart") /\ binary' = backup[r]
               /\ backup' = [backup EXCEPT ![r] = Missing] /\ UNCHANGED service
            \/ /\ runner[r] = "restart" /\ Step(r, "failed") /\ service' # "stopped"
               /\ UNCHANGED <<backup, binary>>
  <1>1. faults' = faults \/ (faults < MaxFaults /\ faults' = faults + 1)
    BY RunnerMoves
  <1>2. UNCHANGED bad
    BY RunnerMoves
  <1>3. faults = 0 /\ bad = {}
    BY <1>1, <1>2, FaultsKept DEF UpgradeTypes
  <1>4. \A f : ~Fault(f)
    BY <1>3 DEF Fault
  <1> USE <1>3, <1>4 DEF Rest, Ends, Fails, Sound
  <1>5. CASE Stage(r)
    BY <1>5 DEF Stage
  <1>6. CASE StopService(r)
    BY <1>6 DEF StopService, Stop
  <1>7. CASE MoveAway(r)
    BY <1>7 DEF MoveAway
  <1>8. CASE Activate(r)
    BY <1>8 DEF Activate
  <1>9. CASE StartService(r)
    BY <1>9 DEF StartService, Start
  <1>10. CASE Health(r)
    BY <1>10 DEF Health
  <1>11. CASE Restore(r)
    BY <1>11 DEF Restore, Stop
  <1>12. CASE Remove(r)
    BY <1>12 DEF Remove
  <1>13. CASE PutBack(r)
    BY <1>13 DEF PutBack
  <1>14. CASE Restart(r)
    BY <1>14 DEF Restart, Start
  <1> QED
    BY <1>5, <1>6, <1>7, <1>8, <1>9, <1>10, <1>11, <1>12, <1>13, <1>14 DEF Runner

LEMMA TogetherKept ==
  ASSUME UpgradeTypes, Together, [UpgradeNext]_upgradeVars
  PROVE  Together'
  <1> SUFFICES ASSUME faults' = 0
               PROVE  /\ \A q \in Requests : runner'[q] \in Holds => backup'[q] # Missing
                      /\ binary' = Missing => \E q \in Requests : runner'[q] \in {"activate", "return"}
                      /\ service' = "stopped" => \E q \in Requests : runner'[q] \in Stops
    BY DEF Together, Holds, Stops
  <1>1. ASSUME NEW r \in Requests, UpgradeStep(r) PROVE Together'
    <2>1. CASE Forming(r) \/ Claim(r) \/ SaveLaunch(r) \/ Confirmed(r) \/ Poll(r)
      <3>1. /\ UNCHANGED <<runner, backup, binary, service, bad>>
            /\ faults' = faults \/ (faults < MaxFaults /\ faults' = faults + 1)
        BY <2>1, ElsewhereUpgrading
      <3>2. faults = 0
        BY <3>1, FaultsKept
      <3> QED
        BY <3>1, <3>2 DEF Together
    <2>2. CASE Launch(r)
      <3>1. /\ \/ runner[r] \in {"none", "succeeded"} /\ runner' = [runner EXCEPT ![r] = "stage"]
               \/ UNCHANGED runner
            /\ UNCHANGED <<backup, binary, service, bad>>
            /\ faults' = faults \/ (faults < MaxFaults /\ faults' = faults + 1)
        BY <2>2, LaunchStep
      <3>2. faults = 0
        BY <3>1, FaultsKept
      <3> QED
        BY <3>1, <3>2 DEF Together, UpgradeTypes, Holds, Stops
    <2>3. CASE Runner(r)
      <3>1. \A q \in Requests : runner'[q] \in Holds => backup'[q] # Missing
        BY <2>3, RunnerSound DEF Together, UpgradeTypes, Holds, Step
      <3>2. binary' = Missing => \E q \in Requests : runner'[q] \in {"activate", "return"}
        <4>1. binary' = Missing /\ binary = Missing =>
                runner'[r] \in {"activate", "return"} \/ runner[r] \notin {"activate", "return"}
          BY <2>3, RunnerSound, UpgradeAssumption
             DEF UpgradeAssumption, Together, UpgradeTypes, Holds, Step, Missing
        <4>2. binary' = Missing /\ binary # Missing => runner'[r] \in {"activate", "return"}
          BY <2>3, RunnerSound, UpgradeAssumption
             DEF UpgradeAssumption, Together, UpgradeTypes, Holds, Step, Missing
        <4>3. \A q \in Requests \ {r} : runner'[q] = runner[q]
          BY <2>3, RunnerSound DEF UpgradeTypes, Step
        <4> QED
          BY <2>3, <4>1, <4>2, <4>3, RunnerSound DEF Together
      <3>3. service' = "stopped" => \E q \in Requests : runner'[q] \in Stops
        <4>1. \A q \in Requests \ {r} : runner'[q] = runner[q]
          BY <2>3, RunnerSound DEF UpgradeTypes, Step
        <4>2. CASE runner[r] = "backup" /\ Step(r, "failed") /\ binary = Missing /\ UNCHANGED service
          BY <2>3, <4>1, <4>2, RunnerSound DEF Together, Stops
        <4>3. CASE ~(runner[r] = "backup" /\ Step(r, "failed") /\ binary = Missing)
          <5>1. service' = "stopped" => runner'[r] \in Stops \/ (service = "stopped" /\ runner[r] \notin Stops)
            BY <2>3, <4>3, RunnerSound DEF UpgradeTypes, Stops, Step
          <5> QED
            BY <2>3, <4>1, <5>1, RunnerSound DEF Together
        <4> QED
          BY <2>3, <4>2, <4>3, RunnerSound DEF UpgradeTypes, Step
      <3> QED
        BY <3>1, <3>2, <3>3 DEF Together
    <2> QED
      BY <1>1, <2>1, <2>2, <2>3 DEF UpgradeStep
  <1>2. CASE Respawn
    BY <1>2 DEF Respawn, Together
  <1>3. CASE Crash
    BY <1>3 DEF Crash, Together
  <1>4. CASE UNCHANGED upgradeVars
    BY <1>4 DEF upgradeVars, Together
  <1>5. CASE \E r \in Requests : UpgradeStep(r)
    BY <1>1, <1>5 DEF Together
  <1> QED
    BY <1>2, <1>3, <1>4, <1>5, UpgradeSteps
\* The only runner there is leaves what its next step expects.
LEMMA RunnerAlone ==
  ASSUME UpgradeTypes, MaxFaults <= 1, "backup" \notin Faults,
         NEW r \in Requests, Runner(r), RunnerOk(r)
  PROVE  RunnerOk(r)'
  <1>1. /\ UNCHANGED bad
        /\ faults' = faults \/ (faults < MaxFaults /\ faults' = faults + 1)
    BY RunnerMoves
  <1>2. /\ Spent => Spent' /\ \A f : ~Fault(f)
        /\ faults # 0 => faults' # 0 /\ \A f : ~Fault(f)
        /\ faults' # faults => faults' # 0
        /\ bad # {} => faults # 0
    <2>1. /\ faults # 0 => faults' # 0
          /\ faults' # faults => faults' # 0
          /\ bad # {} => faults # 0
      BY <1>1, FaultsKept DEF UpgradeTypes
    <2>2. ASSUME NEW f, Fault(f) PROVE faults = 0
      BY <2>2, UpgradeAssumption DEF UpgradeAssumption, UpgradeTypes, Fault
    <2> QED
      BY <1>1, <2>1, <2>2 DEF Spent
  <1>3. \A f : Fault(f) => f \in Faults /\ faults' # 0
    BY <1>1, FaultsKept, UpgradeAssumption DEF Fault, UpgradeAssumption, UpgradeTypes
  <1>4. r # Old /\ r # Missing /\ Old # Missing
    BY UpgradeAssumption DEF UpgradeAssumption, Old, Missing
  <1> USE DEF Rest, Ends, Fails, Step, Kept, Found
  <1> HIDE DEF Old, Missing
  <1>5. CASE Stage(r)
    BY <1>2, <1>5 DEF Stage, RunnerOk, UpgradeTypes
  <1>6. CASE StopService(r)
    BY <1>2, <1>6 DEF StopService, RunnerOk, UpgradeTypes
  <1>7. CASE MoveAway(r)
    <2>1. binary # Missing
      BY <1>4, <1>7 DEF MoveAway, RunnerOk
    <2> QED
      BY <1>2, <1>3, <1>7, <2>1 DEF MoveAway, RunnerOk, UpgradeTypes
  <1>8. CASE Activate(r)
    BY <1>2, <1>3, <1>8 DEF Activate, RunnerOk, UpgradeTypes
  <1>9. CASE StartService(r)
    BY <1>2, <1>3, <1>9 DEF StartService, Start, RunnerOk, UpgradeTypes
  <1>10. CASE Health(r)
    <2>1. binary = r /\ service # "stopped" /\ Kept(r)
      BY <1>10 DEF Health, RunnerOk
    <2>2. ~Works(binary) => bad # {}
      BY <1>4, <2>1 DEF Works
    <2> QED
      BY <1>2, <1>10, <2>1, <2>2 DEF Health, Sound, RunnerOk, UpgradeTypes, Spent
  <1>11. CASE Restore(r)
    BY <1>2, <1>11 DEF Restore, RunnerOk, UpgradeTypes
  <1>12. CASE Remove(r)
    BY <1>2, <1>12 DEF Remove, RunnerOk, UpgradeTypes
  <1>13. CASE PutBack(r)
    BY <1>2, <1>13 DEF PutBack, RunnerOk, UpgradeTypes
  <1>14. CASE Restart(r)
    BY <1>2, <1>14 DEF Restart, Start, RunnerOk, UpgradeTypes
  <1> QED
    BY <1>5, <1>6, <1>7, <1>8, <1>9, <1>10, <1>11, <1>12, <1>13, <1>14 DEF Runner

LEMMA AloneKept ==
  ASSUME UpgradeTypes, \A r \in Requests : LaunchOk(r), Alone, MaxFaults <= 1,
         "backup" \notin Faults, [UpgradeNext]_upgradeVars
  PROVE  Alone'
  <1> SUFFICES ASSUME Single'
               PROVE  /\ (\A r \in Requests : runner'[r] = "none") => binary' = Old /\ service' # "stopped"
                      /\ \A r \in Requests : RunnerOk(r)'
    BY DEF Alone
  <1>1. ASSUME NEW r \in Requests, UpgradeStep(r) PROVE Alone'
    <2>1. CASE Forming(r) \/ Claim(r) \/ SaveLaunch(r) \/ Confirmed(r) \/ Poll(r)
      <3>1. /\ UNCHANGED <<runner, backup, binary, service, bad>>
            /\ faults' = faults \/ (faults < MaxFaults /\ faults' = faults + 1)
        BY <2>1, ElsewhereUpgrading
      <3>2. (faults # 0 => faults' # 0) /\ (Spent => Spent')
        BY <3>1, FaultsKept DEF Spent
      <3> QED
        BY <3>1, <3>2 DEF Alone, Single, RunnerOk, Kept, Found
    <2>2. CASE Launch(r)
      <3>1. /\ call[r] = "saved"
            /\ \/ runner[r] \in {"none", "succeeded"} /\ runner' = [runner EXCEPT ![r] = "stage"]
               \/ UNCHANGED runner
            /\ UNCHANGED <<backup, binary, service, bad>>
            /\ faults' = faults \/ (faults < MaxFaults /\ faults' = faults + 1)
        BY <2>2, LaunchStep
      <3>2. (faults # 0 => faults' # 0) /\ (Spent => Spent')
        BY <3>1, FaultsKept DEF Spent
      <3>3. CASE UNCHANGED runner
        BY <3>1, <3>2, <3>3 DEF Alone, Single, RunnerOk, Kept, Found
      <3>4. CASE runner[r] \in {"none", "succeeded"} /\ runner' = [runner EXCEPT ![r] = "stage"]
        <4>1. runner'[r] = "stage" /\ \A q \in Requests \ {r} : runner'[q] = runner[q]
          BY <3>4 DEF UpgradeTypes
        <4>2. \A q \in Requests \ {r} : runner'[q] = "none"
          BY <4>1 DEF Single
        <4>3. Single
          BY <4>1, <4>2 DEF Single
        <4>4. Found(r)' /\ service' # "stopped"
          <5>1. CASE runner[r] = "none"
            BY <3>1, <4>1, <4>2, <4>3, <5>1 DEF Alone, Found
          <5>2. CASE runner[r] = "succeeded"
            <6>1. Spent
              BY <3>1, <5>2 DEF LaunchOk
            <6> QED
              BY <3>1, <3>2, <4>3, <5>2, <6>1 DEF Alone, RunnerOk, Found
          <5> QED
            BY <3>4, <5>1, <5>2
        <4>5. RunnerOk(r)'
          BY <4>1, <4>4 DEF RunnerOk
        <4>6. \A q \in Requests \ {r} : RunnerOk(q)'
          BY <4>2 DEF RunnerOk
        <4> QED
          BY <4>1, <4>5, <4>6 DEF Alone
      <3> QED
        BY <3>1, <3>3, <3>4
    <2>3. CASE Runner(r)
      <3>1. /\ runner[r] # "none" /\ runner'[r] # "none"
            /\ \A q \in Requests \ {r} : runner'[q] = runner[q]
        BY <2>3, RunnerMoves DEF UpgradeTypes, Step
      <3>2. \A q \in Requests \ {r} : runner'[q] = "none"
        BY <3>1 DEF Single
      <3>3. Single
        BY <3>1, <3>2 DEF Single
      <3>4. RunnerOk(r)'
        BY <2>3, <3>3, RunnerAlone DEF Alone
      <3>5. \A q \in Requests \ {r} : RunnerOk(q)'
        BY <3>2 DEF RunnerOk
      <3> QED
        BY <3>1, <3>4, <3>5 DEF Alone
    <2> QED
      BY <1>1, <2>1, <2>2, <2>3 DEF UpgradeStep
  <1>2. CASE Respawn
    BY <1>2 DEF Respawn, Alone, Single, RunnerOk, Kept, Found, Spent
  <1>3. CASE Crash
    BY <1>3 DEF Crash, Alone, Single, RunnerOk, Kept, Found, Spent
  <1>4. CASE UNCHANGED upgradeVars
    BY <1>4 DEF upgradeVars, Alone, Single, RunnerOk, Kept, Found, Spent
  <1>5. CASE \E r \in Requests : UpgradeStep(r)
    BY <1>1, <1>5 DEF Alone
  <1> QED
    BY <1>2, <1>3, <1>4, <1>5, UpgradeSteps

LEMMA UpgradeInitially ==
  ASSUME UpgradeInit
  PROVE  UpgradeInv
  <1>1. PICK b \in SUBSET Requests : Cardinality(b) <= MaxFaults /\ bad = b
    BY DEF UpgradeInit
  <1>2. IsFiniteSet(bad) /\ Cardinality(bad) \in Nat /\ (bad # {} => Cardinality(bad) # 0)
    <2>1. IsFiniteSet(bad)
      BY <1>1, FS_Subset, UpgradeAssumption DEF UpgradeAssumption
    <2> QED
      BY <2>1, FS_CardinalityType, FS_EmptySet
  <1>3. UpgradeTypes
    BY <1>1, <1>2, UpgradeAssumption
       DEF UpgradeInit, UpgradeTypes, NoForm, Forms, FormStatus, ConfirmSteps, RunnerSteps, Binaries,
           UpgradeAssumption
  <1> QED
    BY <1>3, UpgradeAssumption
       DEF UpgradeInit, UpgradeInv, NoForm, LaunchOk, Together, Alone, RunnerOk, Holds, Old, Missing,
           UpgradeAssumption

\* Once the runners have ended, the daemon is neither stopped nor without a binary,
\* and a single upgrade that failed leaves the old one, for any number of requests,
\* confirmations and crashes, and any step that fails except moving the binary away.
THEOREM UpgradesRollBack ==
  ASSUME MaxFaults <= 1, "backup" \notin Faults
  PROVE  UpgradeSpec => []FailureRollsBack
  <1>1. UpgradeInit => UpgradeInv
    BY UpgradeInitially
  <1>2. UpgradeInv /\ [UpgradeNext]_upgradeVars => UpgradeInv'
    BY UpgradeTypesKept, LaunchKept, TogetherKept, AloneKept DEF UpgradeInv
  <1>3. UpgradeInv => FailureRollsBack
    <2> DEFINE launched == {r \in DOMAIN runner : runner[r] # "none"}
    <2> SUFFICES ASSUME UpgradeInv, \A r \in DOMAIN runner : ~Busy(r)
                 PROVE  /\ Cardinality(launched) <= 1 \/ faults = 0 =>
                             binary # Missing /\ service # "stopped"
                        /\ Cardinality(launched) <= 1 /\ (\E r \in launched : runner[r] = "failed") =>
                             binary = Old
      BY DEF FailureRollsBack
    <2>1. DOMAIN runner = Requests
      BY DEF UpgradeInv, UpgradeTypes
    <2>2. \A r \in Requests : runner[r] \in {"none", "succeeded", "failed"}
      BY <2>1 DEF Busy
    <2>3. ASSUME Cardinality(launched) <= 1 PROVE Single
      <3>1. IsFiniteSet(launched)
        BY <2>1, FS_Subset, UpgradeAssumption DEF UpgradeAssumption
      <3>2. ASSUME NEW q \in launched, NEW r \in launched PROVE q = r
        <4>1. IsFiniteSet(launched \ {q}) /\ Cardinality(launched \ {q}) = Cardinality(launched) - 1
          BY <3>1, FS_RemoveElement
        <4>2. Cardinality(launched \ {q}) \in Nat /\ Cardinality(launched) \in Nat
          BY <3>1, <4>1, FS_CardinalityType
        <4>3. launched \ {q} = {}
          BY <2>3, <4>1, <4>2, FS_EmptySet
        <4> QED
          BY <4>3
      <3> QED
        BY <2>1, <3>2 DEF Single
    <2>4. faults = 0 => binary # Missing /\ service # "stopped"
      BY <2>2 DEF UpgradeInv, Together, Stops
    <2>5. ASSUME Single
          PROVE  /\ binary # Missing /\ service # "stopped"
                 /\ \A r \in Requests : runner[r] = "failed" => binary = Old
      <3>1. \A r \in Requests : RunnerOk(r)
        BY <2>5 DEF UpgradeInv, Alone
      <3>2. CASE \A r \in Requests : runner[r] = "none"
        BY <2>5, <3>1, <3>2 DEF UpgradeInv, Alone, Old, Missing
      <3>3. CASE \E r \in Requests : runner[r] # "none"
        BY <2>2, <3>1, <3>3, UpgradeAssumption DEF UpgradeAssumption, RunnerOk, Old, Missing
      <3> QED
        BY <3>2, <3>3
    <2> QED
      BY <2>1, <2>3, <2>4, <2>5
  <1> QED
    BY <1>1, <1>2, <1>3, PTL DEF UpgradeSpec

-----------------------------------------------------------------------------
(***************************************************************************)
(* Starts of the Claude runtime.                                           *)
(***************************************************************************)
USE DEF NoCli, NoSub, NoConv

\* A snapshot that is valid says what the process runs with
Snapshots == \A p \in Launches : cli[p].valid => cli[p].real = cli[p].applied

\* Processes are started in order, and only a stopped one leaves its loop
InOrder ==
  /\ \E k \in 0 .. MaxLaunches : Started = 1 .. k
  /\ \A p \in Launches : cli[p].loop.pc \in {"cleanup", "end"} => cli[p].st = "stopped"
  /\ serving # NoCli => cli[serving].st # "new"

\* The start has chosen a process, which as long as it lives runs with what was
\* resolved for it
Resolved ==
  /\ starter.pc \in {"init", "bind", "send", "store", "ready", "error"}
       => starter.p \in Launches /\ cli[starter.p].st # "new"
  /\ (starter.pc \in {"init", "bind", "send"} /\ cli[starter.p].st = "up")
       => cli[starter.p].real = starter.want

\* The active operation is that of the start under way
Operation ==
  /\ starter.pc \notin {"idle", "begin"} => starter.sub \in Subs
  /\ starter.pc \in {"ensure", "init", "bind"} => sess.op = NoSub
  /\ starter.pc \in {"send", "store", "ready", "error"}
       => sess.op \in {starter.sub, NoSub}
  /\ starter.pc \in {"store", "ready"} => starter.n \in Numbers

\* The turn a start waits for is in the table or about to be finished
Answering ==
  (starter.pc = "ready" /\ cli[starter.p].st = "up" /\ sess.op = starter.sub
     /\ starter.sub \notin excused)
    => \/ cli[starter.p].turns[starter.n] = [sub |-> starter.sub, suppress |-> TRUE]
       \/ cli[starter.p].loop.pc = "finish" /\ cli[starter.p].loop.sub = starter.sub

\* Process p will end the operation of submission s
WillEnd(p, s) ==
  \/ cli[p].st = "up"
       /\ \E n \in Numbers : cli[p].turns[n] = [sub |-> s, suppress |-> FALSE]
  \/ cli[p].loop.pc \in {"finish", "cleanup"} /\ cli[p].loop.sub = s
  \/ cli[p].st = "stopped" /\ cli[p].loop.pc \notin {"cleanup", "end"}

Held ==
  (starter.pc \in {"idle", "begin"} /\ sess.op # NoSub /\ sess.op \notin excused)
    => \E p \in Launches : WillEnd(p, sess.op)

StartsInv ==
  /\ StartsTypeOK /\ Snapshots /\ InOrder /\ Resolved /\ Operation /\ Answering /\ Held

LEMMA UnsetSettings == Unset \in Settings
BY StartsAssumption DEF Unset

LEMMA SettingsConfigs ==
  /\ Settings \subseteq Configs
  /\ \A d \in Settings, c \in Configs : [c EXCEPT !.model = d.model] \in Configs
BY StartsAssumption DEF Configs

LEMMA NewCliTyped == NewCli \in Processes
<1>1. [n \in Numbers |-> Fresh] \in [Numbers -> Turns]
  BY DEF Fresh, Turns
<1>2. <<>> \in Seq(Events)
  OBVIOUS
<1>3. 0 \in 0 .. MaxSends
  BY StartsAssumption
<1> QED
  BY <1>1, <1>2, <1>3, UnsetSettings, SettingsConfigs DEF NewCli, Processes

LEMMA InitTyped == StartsInit => StartsTypeOK
<1> SUFFICES ASSUME StartsInit PROVE StartsTypeOK
  OBVIOUS
<1>1. cli \in [Launches -> Processes]
  BY NewCliTyped DEF StartsInit
<1>2. starter \in Starters
  BY UnsetSettings, StartsAssumption DEF StartsInit, Idle, Starters
<1>3. sess \in [thread : Launches \cup {NoConv}, queue : Seq(Subs),
               op : Subs \cup {NoSub}]
  BY DEF StartsInit
<1>4. desired \in Settings /\ changes \in 0 .. MaxChanges
  BY UnsetSettings, StartsAssumption DEF StartsInit
<1>5. status \in [Subs -> {"new", "queued", "running", "done", "failed"}]
  BY DEF StartsInit
<1> QED
  BY <1>1, <1>2, <1>3, <1>4, <1>5 DEF StartsInit, StartsTypeOK

LEMMA IdleTyped == Idle \in Starters
BY UnsetSettings, StartsAssumption DEF Idle, Starters


LEMMA PlainFields ==
  ASSUME NEW r \in Processes
  PROVE  /\ [r EXCEPT !.interrupt = TRUE] \in Processes
         /\ [r EXCEPT !.st = "stopped"] \in Processes
         /\ [r EXCEPT !.loop.pc = "recv"] \in Processes
         /\ [r EXCEPT !.loop.pc = "recv", !.ready = TRUE] \in Processes
BY DEF Processes

LEMMA ConfigFields ==
  ASSUME NEW r \in Processes, NEW d \in Settings, NEW c \in Configs
  PROVE  /\ Noted([r EXCEPT !.real = c], d) \in Processes
         /\ ApplyFailed([r EXCEPT !.real = c]) \in Processes
BY DEF Processes, Noted, ApplyFailed

LEMMA LaunchFields ==
  ASSUME NEW r \in Processes, NEW d \in Settings, NEW c \in Configs,
         NEW t \in Launches \cup {NoConv}
  PROVE  Noted([r EXCEPT !.st = "up", !.real = c, !.conv = t], d) \in Processes
BY DEF Processes, Noted

LEMMA PreserveField ==
  ASSUME NEW r \in Processes, NEW b \in BOOLEAN
  PROVE  [r EXCEPT !.preserve = b] \in Processes
BY DEF Processes

LEMMA SentField ==
  ASSUME NEW r \in Processes, NEW k \in 0 .. MaxSends
  PROVE  [r EXCEPT !.sent = k] \in Processes
BY DEF Processes

LEMMA TurnField ==
  ASSUME NEW r \in Processes, NEW n \in Numbers, NEW u \in Turns
  PROVE  [r EXCEPT !.turns[n] = u] \in Processes
BY DEF Processes

LEMMA ReadyFields ==
  ASSUME NEW r \in Processes, NEW n \in Numbers
  PROVE  [r EXCEPT !.preserve = FALSE, !.turns[n].suppress = FALSE] \in Processes
<1>0. r.turns[n] \in Turns
  BY DEF Processes
<1>1. [r.turns[n] EXCEPT !.suppress = FALSE] \in Turns
  BY <1>0 DEF Turns
<1> DEFINE u == [r.turns[n] EXCEPT !.suppress = FALSE]
<1> HIDE DEF u
<1>2. [r EXCEPT !.preserve = FALSE, !.turns[n] = u] \in Processes
  BY <1>1 DEF Processes, u
<1> QED
  BY <1>2 DEF u

LEMMA FailFields ==
  ASSUME NEW r \in Processes, NEW e \in Seq(Events)
  PROVE  [r EXCEPT !.events = e, !.loop.pc = "fail"] \in Processes
BY DEF Processes

LEMMA EventFields ==
  ASSUME NEW r \in Processes, NEW e \in Seq(Events)
  PROVE  /\ [r EXCEPT !.told = TRUE, !.events = e] \in Processes
         /\ [r EXCEPT !.st = "stopped", !.events = e] \in Processes
BY DEF Processes

LEMMA BindFields ==
  ASSUME NEW r \in Processes, NEW e \in Seq(Events), NEW t \in Launches \cup {NoConv}
  PROVE  [r EXCEPT !.events = e, !.loop.pc = "bind", !.conv = t] \in Processes
BY DEF Processes

LEMMA StartedFields ==
  ASSUME NEW r \in Processes, NEW e \in Seq(Events), NEW n \in Numbers
  PROVE  /\ [r EXCEPT !.events = e, !.cur = n, !.loop.pc = "bind"] \in Processes
         /\ [r EXCEPT !.events = e, !.cur = n, !.loop.pc = "recv"] \in Processes
BY DEF Processes

LEMMA AnsweredFields ==
  ASSUME NEW r \in Processes, NEW e \in Seq(Events), NEW k \in 0 .. MaxSends
  PROVE  [r EXCEPT !.answered = k, !.events = e] \in Processes
BY DEF Processes

LEMMA CleanupFields ==
  ASSUME NEW r \in Processes,
         NEW l \in [pc : {"recv", "bind", "finish", "fail", "cleanup", "end"},
                    sub : Subs \cup {NoSub}, ok : BOOLEAN]
  PROVE  [r EXCEPT !.ready = TRUE, !.loop = l] \in Processes
BY DEF Processes

LEMMA ForgetTyped ==
  ASSUME NEW r \in Processes, NEW n \in Numbers
  PROVE  Forget(r, n) \in Processes
<1>1. Fresh \in Turns
  BY DEF Fresh, Turns
<1> QED
  BY <1>1 DEF Forget, Processes

LEMMA EventsLoopFields ==
  ASSUME NEW r \in Processes, NEW e \in Seq(Events),
         NEW l \in [pc : {"recv", "bind", "finish", "fail", "cleanup", "end"},
                    sub : Subs \cup {NoSub}, ok : BOOLEAN]
  PROVE  [r EXCEPT !.events = e, !.loop = l] \in Processes
BY DEF Processes

LEMMA CompleteFields ==
  ASSUME NEW r \in Processes, NEW n \in Numbers, NEW e \in Seq(Events),
         NEW l \in [pc : {"recv", "bind", "finish", "fail", "cleanup", "end"},
                    sub : Subs \cup {NoSub}, ok : BOOLEAN]
  PROVE  [Forget(r, n) EXCEPT !.events = e, !.loop = l] \in Processes
BY ForgetTyped, EventsLoopFields

LEMMA GoneTyped ==
  ASSUME NEW r \in Processes
  PROVE  Gone(r) \in Processes
<1>1. r.conv \in Launches \cup {NoConv} /\ r.preserve \in BOOLEAN
  BY DEF Processes
<1> QED
  BY <1>1, NewCliTyped DEF Gone, Processes

LEMMA TakenEvent ==
  ASSUME StartsTypeOK, NEW p \in Launches, CanTake(p)
  PROVE  /\ cli[p] \in Processes
         /\ Later(p) \in Seq(Events)
         /\ Next1(p) \in Events
         /\ Next1(p).kind \in {"started", "complete"} => Next1(p).n \in Numbers
<1>1. cli[p] \in Processes
  BY DEF StartsTypeOK
<1>2. cli[p].events \in Seq(Events) /\ cli[p].events # <<>>
  BY <1>1 DEF Processes, CanTake
<1>3. Later(p) \in Seq(Events) /\ Next1(p) \in Events
  BY <1>2 DEF Later, Next1
<1>4. Next1(p).kind \in {"started", "complete"} => Next1(p).n \in Numbers
  BY <1>3 DEF Events
<1> QED
  BY <1>1, <1>3, <1>4

\* The processes after a step
LEMMA ProcessesTyped ==
  ASSUME StartsTypeOK, Resolved, Operation, StartsNext
  PROVE  cli' \in [Launches -> Processes]
<1>c. cli \in [Launches -> Processes]
  BY DEF StartsTypeOK
<1>t. /\ desired \in Settings /\ desired \in Configs
      /\ serving \in Launches \cup {NoCli}
      /\ starter.resume \in Launches \cup {NoConv} /\ starter.sub \in Subs \cup {NoSub}
      /\ starter.n \in 0 .. MaxSends /\ sess.op \in Subs \cup {NoSub}
      /\ configPending \in BOOLEAN
  BY SettingsConfigs DEF StartsTypeOK, Starters
<1>1. ASSUME \/ \E s \in Subs : Arrive(s)
             \/ \E d \in Settings : Change(d)
             \/ StartWoken \/ StartBegin \/ EnsureReuse \/ EnsureBlocked
             \/ StartBind \/ StartTimeout \/ StartError
      PROVE cli' \in [Launches -> Processes]
  BY <1>c, <1>1 DEF Arrive, Change, StartWoken, StartBegin, EnsureReuse, EnsureBlocked, StartBind, StartTimeout, StartError
<1>2. ASSUME Interrupt PROVE cli' \in [Launches -> Processes]
  <2>1. serving \in Launches /\ cli[serving] \in Processes
    BY <1>c, <1>t, <1>2 DEF Interrupt, Reusable, Running, Resolved
  <2>2. cli' = [cli EXCEPT ![serving] = [cli[serving] EXCEPT !.interrupt = TRUE]]
    BY <1>2 DEF Interrupt
  <2>3. [cli[serving] EXCEPT !.interrupt = TRUE] \in Processes
    BY <1>t, <2>1, PlainFields
  <2> QED
    BY <1>c, <2>1, <2>2, <2>3
<1>3. ASSUME EnsureHot PROVE cli' \in [Launches -> Processes]
  <2>1. serving \in Launches /\ cli[serving] \in Processes
    BY <1>c, <1>t, <1>3 DEF EnsureHot, Reusable, Running
  <2>2. cli[serving].real \in Configs
    BY <2>1 DEF Processes
  <2>3. CASE cli' = [cli EXCEPT ![serving] = Noted([@ EXCEPT !.real = desired], desired)]
    <3>1. Noted([cli[serving] EXCEPT !.real = desired], desired) \in Processes
      BY <1>t, <2>1, ConfigFields
    <3> QED
      BY <1>c, <2>1, <2>3, <3>1
  <2>4. ASSUME NEW half \in {cli[serving].real,
                            [cli[serving].real EXCEPT !.model = desired.model]},
               cli' = [cli EXCEPT ![serving] = ApplyFailed([@ EXCEPT !.real = half])]
        PROVE  cli' \in [Launches -> Processes]
    <3>1. half \in Configs
      BY <1>t, <2>2, SettingsConfigs
    <3>2. ApplyFailed([cli[serving] EXCEPT !.real = half]) \in Processes
      BY <1>t, <2>1, <3>1, ConfigFields
    <3> QED
      BY <1>c, <2>1, <2>4, <3>2
  <2> QED
    BY <1>3, <2>3, <2>4 DEF EnsureHot
<1>4. ASSUME EnsureReset PROVE cli' \in [Launches -> Processes]
  <2>1. serving \in Launches /\ cli[serving] \in Processes
    BY <1>c, <1>t, <1>4 DEF EnsureReset, Reusable, Running, Resolved
  <2>2. cli' = [cli EXCEPT ![serving] = [cli[serving] EXCEPT !.st = "stopped"]]
    BY <1>4 DEF EnsureReset
  <2>3. [cli[serving] EXCEPT !.st = "stopped"] \in Processes
    BY <1>t, <2>1, PlainFields
  <2> QED
    BY <1>c, <2>1, <2>2, <2>3
<1>5. ASSUME EnsureLaunch PROVE cli' \in [Launches -> Processes]
  <2> DEFINE q == LastLaunch + 1
             r == Noted([cli[q] EXCEPT !.st = "up", !.real = desired,
                                       !.conv = starter.resume], desired)
  <2>1. cli' = [cli EXCEPT ![q] = r]
    BY <1>5 DEF EnsureLaunch
  <2>2. CASE q \in Launches
    <3>1. r \in Processes
      BY <1>c, <1>t, <2>2, LaunchFields
    <3> HIDE DEF q, r
    <3> QED
      BY <1>c, <2>1, <2>2, <3>1
  <2>3. CASE q \notin Launches
    <3> HIDE DEF q, r
    <3> QED
      BY <1>c, <2>1, <2>3
  <2> QED
    BY <2>2, <2>3
<1>6. ASSUME EnsureInit PROVE cli' \in [Launches -> Processes]
  <2>1. starter.p \in Launches /\ cli[starter.p] \in Processes
    BY <1>c, <1>6 DEF EnsureInit, Resolved
  <2>2. cli' = [cli EXCEPT ![starter.p] = [cli[starter.p] EXCEPT !.preserve = Protects]]
    BY <1>6 DEF EnsureInit
  <2>3. Protects \in BOOLEAN
    BY <1>t DEF Protects
  <2>4. [cli[starter.p] EXCEPT !.preserve = Protects] \in Processes
    BY <2>1, <2>3, PreserveField
  <2> QED
    BY <1>c, <2>1, <2>2, <2>4
<1>7. ASSUME EnsureFails PROVE cli' \in [Launches -> Processes]
  <2>1. starter.p \in Launches /\ cli[starter.p] \in Processes
    BY <1>c, <1>t, <1>7 DEF EnsureFails, Reusable, Running, Resolved
  <2>2. cli' = [cli EXCEPT ![starter.p] = [cli[starter.p] EXCEPT !.st = "stopped"]]
    BY <1>7 DEF EnsureFails
  <2>3. [cli[starter.p] EXCEPT !.st = "stopped"] \in Processes
    BY <1>t, <2>1, PlainFields
  <2> QED
    BY <1>c, <2>1, <2>2, <2>3
<1>8. ASSUME StartSend PROVE cli' \in [Launches -> Processes]
  <2>1. starter.p \in Launches /\ cli[starter.p] \in Processes
    BY <1>c, <1>8 DEF StartSend, Resolved
  <2>2. CASE cli' = cli
    BY <1>c, <2>2
  <2>3. CASE cli' # cli
    <3>1. /\ cli' = [cli EXCEPT ![starter.p] = [cli[starter.p] EXCEPT !.sent = cli[starter.p].sent + 1]]
          /\ cli[starter.p].sent < MaxSends
      BY <1>8, <2>3 DEF StartSend
    <3>2. cli[starter.p].sent \in 0 .. MaxSends
      BY <2>1 DEF Processes
    <3>3. cli[starter.p].sent + 1 \in 0 .. MaxSends
      BY <3>1, <3>2, StartsAssumption
    <3>4. [cli[starter.p] EXCEPT !.sent = cli[starter.p].sent + 1] \in Processes
      BY <2>1, <3>3, SentField
    <3> QED
      BY <1>c, <2>1, <3>1, <3>4
  <2> QED
    BY <2>2, <2>3
<1>9. ASSUME StartStore PROVE cli' \in [Launches -> Processes]
  <2> DEFINE u == [sub |-> starter.sub, suppress |-> TRUE]
  <2>1. starter.p \in Launches /\ cli[starter.p] \in Processes /\ starter.n \in Numbers
    BY <1>c, <1>9 DEF StartStore, Resolved, Operation
  <2>2. cli' = [cli EXCEPT ![starter.p] = [cli[starter.p] EXCEPT !.turns[starter.n] = u]]
    BY <1>9 DEF StartStore
  <2>3. u \in Turns
    BY <1>t DEF Turns
  <2>4. [cli[starter.p] EXCEPT !.turns[starter.n] = u] \in Processes
    <3> HIDE DEF u
    <3> QED
      BY <2>1, <2>3, TurnField
  <2> QED
    BY <1>c, <2>1, <2>2, <2>4
<1>10. ASSUME StartReady PROVE cli' \in [Launches -> Processes]
  <2>1. starter.p \in Launches /\ cli[starter.p] \in Processes /\ starter.n \in Numbers
    BY <1>c, <1>10 DEF StartReady, Resolved, Operation
  <2>2. \/ cli' = cli
        \/ cli' = [cli EXCEPT ![starter.p] =
             [cli[starter.p] EXCEPT !.preserve = FALSE, !.turns[starter.n].suppress = FALSE]]
    BY <1>10 DEF StartReady
  <2>3. [cli[starter.p] EXCEPT !.preserve = FALSE, !.turns[starter.n].suppress = FALSE]
          \in Processes
    BY <2>1, ReadyFields
  <2> QED
    BY <1>c, <2>1, <2>2, <2>3
<1>11. ASSUME NEW p \in Launches, LoopReady(p) PROVE cli' \in [Launches -> Processes]
  <2> DEFINE t == IF cli[p].conv = NoConv THEN p ELSE cli[p].conv
  <2>1. cli[p] \in Processes /\ Later(p) \in Seq(Events)
    BY <1>11, TakenEvent DEF LoopReady
  <2>2. cli' = [cli EXCEPT ![p] = [cli[p] EXCEPT !.events = Later(p), !.loop.pc = "bind",
                                                 !.conv = t]]
    BY <1>11 DEF LoopReady
  <2>3. t \in Launches \cup {NoConv}
    BY <2>1 DEF Processes
  <2>4. [cli[p] EXCEPT !.events = Later(p), !.loop.pc = "bind", !.conv = t] \in Processes
    <3> HIDE DEF t
    <3> QED
      BY <2>1, <2>3, BindFields
  <2> QED
    BY <1>c, <2>2, <2>4
<1>12. ASSUME NEW p \in Launches, LoopBind(p) PROVE cli' \in [Launches -> Processes]
  <2>1. cli' = [cli EXCEPT ![p] = [cli[p] EXCEPT !.loop.pc = "recv", !.ready = TRUE]]
    BY <1>12 DEF LoopBind
  <2>2. [cli[p] EXCEPT !.loop.pc = "recv", !.ready = TRUE] \in Processes
    BY <1>c, PlainFields, GoneTyped
  <2> QED
    BY <1>c, <2>1, <2>2
<1>13. ASSUME NEW p \in Launches, LoopStarted(p) PROVE cli' \in [Launches -> Processes]
  <2>1. cli[p] \in Processes /\ Later(p) \in Seq(Events) /\ Next1(p).n \in Numbers
    BY <1>13, TakenEvent DEF LoopStarted
  <2>2. \/ cli' = [cli EXCEPT ![p] = [cli[p] EXCEPT !.events = Later(p), !.cur = Next1(p).n,
                                                    !.loop.pc = "bind"]]
        \/ cli' = [cli EXCEPT ![p] = [cli[p] EXCEPT !.events = Later(p), !.cur = Next1(p).n,
                                                    !.loop.pc = "recv"]]
    BY <1>13 DEF LoopStarted, CanTake
  <2>3. /\ [cli[p] EXCEPT !.events = Later(p), !.cur = Next1(p).n, !.loop.pc = "bind"]
             \in Processes
        /\ [cli[p] EXCEPT !.events = Later(p), !.cur = Next1(p).n, !.loop.pc = "recv"]
             \in Processes
    BY <2>1, StartedFields
  <2> QED
    BY <1>c, <2>2, <2>3
<1>14. ASSUME NEW p \in Launches, LoopComplete(p) PROVE cli' \in [Launches -> Processes]
  <2> DEFINE e == Next1(p)
             silent == \/ cli[p].turns[e.n] = Fresh
                       \/ cli[p].turns[e.n].suppress /\ ~e.ok
             l == IF silent THEN cli[p].loop
                  ELSE [pc |-> "finish", sub |-> cli[p].turns[e.n].sub, ok |-> e.ok]
  <2>1. cli[p] \in Processes /\ Later(p) \in Seq(Events) /\ e.n \in Numbers /\ e \in Events
    BY <1>14, TakenEvent DEF LoopComplete
  <2>2. cli' = [cli EXCEPT ![p] = [Forget(cli[p], e.n) EXCEPT !.events = Later(p), !.loop = l]]
    BY <1>14 DEF LoopComplete
  <2>3. l \in [pc : {"recv", "bind", "finish", "fail", "cleanup", "end"},
               sub : Subs \cup {NoSub}, ok : BOOLEAN]
    <3>2. cli[p].turns[e.n] \in Turns /\ e.ok \in BOOLEAN
      BY <2>1 DEF Processes, Events
    <3> HIDE DEF e, silent
    <3> QED
      BY <2>1, <3>2 DEF Processes, Turns
  <2>4. [Forget(cli[p], e.n) EXCEPT !.events = Later(p), !.loop = l] \in Processes
    <3> HIDE DEF e, l
    <3> QED
      BY <2>1, <2>3, CompleteFields
  <2> HIDE DEF e, l
  <2> QED
    BY <1>c, <2>2, <2>4
<1>15. ASSUME NEW p \in Launches, LoopFinish(p) PROVE cli' \in [Launches -> Processes]
  <2>1. cli' = [cli EXCEPT ![p] = [cli[p] EXCEPT !.loop.pc = "recv"]]
    BY <1>15 DEF LoopFinish
  <2>2. [cli[p] EXCEPT !.loop.pc = "recv"] \in Processes
    BY <1>c, PlainFields
  <2> QED
    BY <1>c, <2>1, <2>2
<1>16. ASSUME NEW p \in Launches, LoopError(p) PROVE cli' \in [Launches -> Processes]
  <2> DEFINE r == [cli[p] EXCEPT !.events = Later(p), !.loop.pc = "fail"]
  <2>1. cli[p] \in Processes /\ Later(p) \in Seq(Events)
    BY <1>16, TakenEvent DEF LoopError
  <2>2. cli' = [cli EXCEPT ![p] = r]
    BY <1>16 DEF LoopError
  <2>3. r \in Processes
    BY <2>1, FailFields
  <2> HIDE DEF r
  <2> QED
    BY <1>c, <2>2, <2>3
<1>17. ASSUME NEW p \in Launches, LoopFail(p) PROVE cli' \in [Launches -> Processes]
  <2>1. cli' = [cli EXCEPT ![p] = [cli[p] EXCEPT !.loop.pc = "recv"]]
    BY <1>17 DEF LoopFail
  <2>2. [cli[p] EXCEPT !.loop.pc = "recv"] \in Processes
    BY <1>c, PlainFields, GoneTyped
  <2> QED
    BY <1>c, <2>1, <2>2
<1>18. ASSUME NEW p \in Launches, LoopOver(p) PROVE cli' \in [Launches -> Processes]
  <2> DEFINE l == [pc |-> "cleanup", sub |-> sess.op, ok |-> FALSE]
  <2>1. \/ cli' = [cli EXCEPT ![p] = Gone(cli[p])]
        \/ cli' = [cli EXCEPT ![p] = [cli[p] EXCEPT !.ready = TRUE, !.loop = l]]
    BY <1>18 DEF LoopOver
  <2>2. l \in [pc : {"recv", "bind", "finish", "fail", "cleanup", "end"},
               sub : Subs \cup {NoSub}, ok : BOOLEAN]
    BY <1>t
  <2>3. Gone(cli[p]) \in Processes /\ [cli[p] EXCEPT !.ready = TRUE, !.loop = l] \in Processes
    <3> HIDE DEF l
    <3> QED
      BY <1>c, <2>2, CleanupFields, GoneTyped
  <2> HIDE DEF l
  <2> QED
    BY <1>c, <2>1, <2>3
<1>19. ASSUME NEW p \in Launches, LoopCleanup(p) PROVE cli' \in [Launches -> Processes]
  <2>1. cli' = [cli EXCEPT ![p] = Gone(cli[p])]
    BY <1>19 DEF LoopCleanup
  <2>2. Gone(cli[p]) \in Processes
    BY <1>c, PlainFields, GoneTyped
  <2> QED
    BY <1>c, <2>1, <2>2
<1>20. ASSUME NEW p \in Launches, CliReady(p) PROVE cli' \in [Launches -> Processes]
  <2> DEFINE e == Append(cli[p].events, Event("ready", 0, TRUE))
  <2>1. cli' = [cli EXCEPT ![p] = [cli[p] EXCEPT !.told = TRUE, !.events = e]]
    BY <1>20 DEF CliReady
  <2>2. e \in Seq(Events)
    <3>1. Event("ready", 0, TRUE) \in Events
      BY DEF Event, Events
    <3>2. cli[p].events \in Seq(Events)
      BY <1>c DEF Processes
    <3> QED
      BY <3>1, <3>2, AppendProperties
  <2> HIDE DEF e
  <2>3. [cli[p] EXCEPT !.told = TRUE, !.events = e] \in Processes
    BY <1>c, <2>2, EventFields
  <2> QED
    BY <1>c, <2>1, <2>3
<1>21. ASSUME NEW p \in Launches, CliAnswers(p) PROVE cli' \in [Launches -> Processes]
  <2>1. PICK ok \in BOOLEAN :
          cli' = [cli EXCEPT ![p] =
            [cli[p] EXCEPT !.answered = cli[p].answered + 1,
                           !.events = cli[p].events
                             \o <<Event("started", cli[p].answered + 1, TRUE),
                                  Event("complete", cli[p].answered + 1, ok)>>]]
    BY <1>21 DEF CliAnswers
  <2> DEFINE i == cli[p].answered + 1
             e == cli[p].events \o <<Event("started", i, TRUE), Event("complete", i, ok)>>
  <2>2. cli[p].answered \in 0 .. MaxSends /\ cli[p].sent \in 0 .. MaxSends
        /\ cli[p].events \in Seq(Events)
    BY <1>c DEF Processes
  <2>3. i \in Numbers /\ i \in 0 .. MaxSends
    BY <1>21, <2>2, StartsAssumption DEF CliAnswers, Numbers
  <2>4. e \in Seq(Events)
    <3> HIDE DEF i
    <3>1. Event("started", i, TRUE) \in Events /\ Event("complete", i, ok) \in Events
      BY <2>3 DEF Event, Events
    <3> DEFINE a == Event("started", i, TRUE)
               b == Event("complete", i, ok)
    <3>2. a \in Events /\ b \in Events
      BY <3>1
    <3> HIDE DEF a, b
    <3>3. <<a, b>> \in Seq(Events)
      BY <3>2
    <3>4. cli[p].events \o <<a, b>> \in Seq(Events)
      BY <2>2, <3>3, ConcatProperties
    <3> QED
      BY <3>4 DEF a, b
  <2>5. cli' = [cli EXCEPT ![p] = [cli[p] EXCEPT !.answered = i, !.events = e]]
    BY <2>1
  <2> HIDE DEF e, i
  <2>6. [cli[p] EXCEPT !.answered = i, !.events = e] \in Processes
    BY <1>c, <2>3, <2>4, AnsweredFields
  <2> QED
    BY <1>c, <2>5, <2>6
<1>22. ASSUME NEW p \in Launches, CliDies(p) PROVE cli' \in [Launches -> Processes]
  <2> DEFINE e == Append(cli[p].events, Event("error", 0, FALSE))
  <2>1. cli' = [cli EXCEPT ![p] = [cli[p] EXCEPT !.st = "stopped", !.events = e]]
    BY <1>22 DEF CliDies
  <2>2. e \in Seq(Events)
    <3>1. Event("error", 0, FALSE) \in Events
      BY DEF Event, Events
    <3>2. cli[p].events \in Seq(Events)
      BY <1>c DEF Processes
    <3> QED
      BY <3>1, <3>2, AppendProperties
  <2> HIDE DEF e
  <2>3. [cli[p] EXCEPT !.st = "stopped", !.events = e] \in Processes
    BY <1>c, <2>2, EventFields
  <2> QED
    BY <1>c, <2>1, <2>3
<1> QED
  BY <1>1, <1>2, <1>3, <1>4, <1>5, <1>6, <1>7, <1>8, <1>9, <1>10, <1>11, <1>12, <1>13, <1>14, <1>15, <1>16, <1>17, <1>18, <1>19, <1>20, <1>21, <1>22
    DEF StartsNext, StartStep, LoopStep

LEMMA NextLaunch ==
  ASSUME InOrder, LastLaunch < MaxLaunches
  PROVE  LastLaunch + 1 \in Launches /\ cli[LastLaunch + 1].st = "new"
           /\ LastLaunch \in Nat /\ Started = 1 .. LastLaunch
<1>1. PICK k \in 0 .. MaxLaunches : Started = 1 .. k
  BY DEF InOrder
<1>2. LastLaunch = k
  BY <1>1, FS_Interval, StartsAssumption DEF LastLaunch
<1>3. k + 1 \in Launches /\ k + 1 \notin Started
  BY <1>1, <1>2, StartsAssumption DEF Launches
<1> QED
  BY <1>1, <1>2, <1>3 DEF Started

LEMMA PcField ==
  ASSUME NEW r \in Starters,
         NEW c \in {"begin", "ensure", "init", "bind", "send", "store", "ready", "error"}
  PROVE  [r EXCEPT !.pc = c] \in Starters
BY DEF Starters

LEMMA ResumeFields ==
  ASSUME NEW r \in Starters, NEW t \in Launches \cup {NoConv}
  PROVE  /\ [r EXCEPT !.resume = t] \in Starters
         /\ [r EXCEPT !.pc = "ensure", !.resume = t] \in Starters
BY DEF Starters

LEMMA DequeueFields ==
  ASSUME NEW r \in Starters, NEW s \in Subs, NEW t \in Launches \cup {NoConv}
  PROVE  [r EXCEPT !.pc = "ensure", !.sub = s, !.resume = t] \in Starters
BY DEF Starters

LEMMA ChoiceFields ==
  ASSUME NEW r \in Starters, NEW p \in Launches, NEW d \in Settings
  PROVE  /\ [r EXCEPT !.pc = "init", !.p = p, !.want = d] \in Starters
         /\ [r EXCEPT !.pc = "bind", !.p = p, !.want = d] \in Starters
BY DEF Starters

LEMMA NumberFields ==
  ASSUME NEW r \in Starters, NEW n \in 0 .. MaxSends
  PROVE  [r EXCEPT !.pc = "store", !.n = n] \in Starters
BY DEF Starters

LEMMA StarterTyped ==
  ASSUME StartsTypeOK, InOrder, Resolved, StartsNext
  PROVE  starter' \in Starters
<1>s. /\ starter \in Starters /\ Idle \in Starters
      /\ cli \in [Launches -> Processes] /\ desired \in Settings
      /\ serving \in Launches \cup {NoCli}
      /\ sess.thread \in Launches \cup {NoConv} /\ sess.queue \in Seq(Subs)
  BY IdleTyped DEF StartsTypeOK
<1>1. CASE \E s \in Subs : Arrive(s)
  BY <1>s, <1>1, PcField DEF Arrive
<1>2. CASE StartWoken \/ StartBind \/ StartStore \/ StartTimeout \/ EnsureInit
  BY <1>s, <1>2, PcField DEF StartWoken, StartBind, StartStore, StartTimeout, EnsureInit
<1>3. CASE StartBegin
  <2>1. CASE sess.queue = <<>> \/ sess.op # NoSub
    BY <1>s, <1>3, <2>1 DEF StartBegin, Ended
  <2>2. CASE sess.queue # <<>>
    <3>1. Head(sess.queue) \in Subs
      BY <1>s, <2>2
    <3>2. starter' = Idle \/ starter' = [starter EXCEPT !.pc = "ensure",
                                        !.sub = Head(sess.queue), !.resume = sess.thread]
      BY <1>3 DEF StartBegin, Ended
    <3>3. [starter EXCEPT !.pc = "ensure", !.sub = Head(sess.queue), !.resume = sess.thread]
            \in Starters
      BY <1>s, <3>1, DequeueFields
    <3> QED
      BY <1>s, <3>2, <3>3
  <2> QED
    BY <2>1, <2>2
<1>4. CASE EnsureReuse \/ EnsureBlocked \/ EnsureHot
  <2>1. serving \in Launches
    BY <1>s, <1>4 DEF EnsureReuse, EnsureBlocked, EnsureHot, Reusable, Running
  <2>2. starter' = Idle
          \/ starter' = [starter EXCEPT !.pc = "bind", !.p = serving, !.want = desired]
    BY <1>4 DEF EnsureReuse, EnsureBlocked, EnsureHot, Defer, Ended
  <2>3. [starter EXCEPT !.pc = "bind", !.p = serving, !.want = desired] \in Starters
    BY <1>s, <2>1, ChoiceFields
  <2> QED
    BY <1>s, <2>2, <2>3
<1>5. CASE EnsureReset
  <2>1. serving \in Launches
    BY <1>s, <1>5 DEF EnsureReset
  <2>2. cli[serving].conv \in Launches \cup {NoConv}
          /\ starter.resume \in Launches \cup {NoConv}
    BY <1>s, <2>1 DEF Processes, Starters
  <2>3. starter' = starter
          \/ \E t \in Launches \cup {NoConv} : starter' = [starter EXCEPT !.resume = t]
    BY <1>5, <2>2 DEF EnsureReset
  <2> QED
    BY <1>s, <2>3, ResumeFields
<1>6. CASE EnsureLaunch
  <2>1. LastLaunch + 1 \in Launches
    BY <1>6, NextLaunch DEF EnsureLaunch
  <2>2. starter' = [starter EXCEPT !.pc = "init", !.p = LastLaunch + 1, !.want = desired]
    BY <1>6 DEF EnsureLaunch
  <2> QED
    BY <1>s, <2>1, <2>2, ChoiceFields
<1>7. CASE EnsureFails \/ StartError
  <2>1. starter' = Idle \/ starter' = [starter EXCEPT !.pc = "ensure", !.resume = NoConv]
    BY <1>7 DEF EnsureFails, StartError, Defer, Fail, Ended
  <2> QED
    BY <1>s, <2>1, ResumeFields
<1>8. CASE StartSend
  <2>1. CASE starter' = [starter EXCEPT !.pc = "error"]
    BY <1>s, <2>1, PcField
  <2>2. CASE /\ cli[starter.p].sent < MaxSends
             /\ starter' = [starter EXCEPT !.pc = "store", !.n = cli[starter.p].sent + 1]
    <3>1. cli[starter.p].sent \in 0 .. MaxSends
      BY <1>s, <1>8 DEF StartSend, Resolved, Processes
    <3>2. cli[starter.p].sent + 1 \in 0 .. MaxSends
      BY <2>2, <3>1, StartsAssumption
    <3> QED
      BY <1>s, <2>2, <3>2, NumberFields
  <2> QED
    BY <1>8, <2>1, <2>2 DEF StartSend
<1>9. CASE StartReady
  BY <1>s, <1>9, PcField DEF StartReady, Ended
<1>10. CASE \/ \E d \in Settings : Change(d)
            \/ Interrupt
            \/ \E p \in Launches : LoopStep(p) \/ CliReady(p) \/ CliAnswers(p) \/ CliDies(p)
  BY <1>s, <1>10
    DEF Change, Interrupt, LoopStep, LoopReady, LoopBind, LoopStarted, LoopComplete,
        LoopFinish, LoopError, LoopFail, LoopOver, LoopCleanup, CliReady, CliAnswers,
        CliDies
<1> QED
  BY <1>1, <1>2, <1>3, <1>4, <1>5, <1>6, <1>7, <1>8, <1>9, <1>10
    DEF StartsNext, StartStep

Sessions == [thread : Launches \cup {NoConv}, queue : Seq(Subs), op : Subs \cup {NoSub}]

LEMMA QueueFields ==
  ASSUME NEW r \in Sessions, NEW q \in Seq(Subs)
  PROVE  /\ [r EXCEPT !.queue = q] \in Sessions
         /\ [r EXCEPT !.queue = q, !.op = NoSub] \in Sessions
BY DEF Sessions

LEMMA SessionFields ==
  ASSUME NEW r \in Sessions, NEW t \in Launches \cup {NoConv}, NEW o \in Subs \cup {NoSub}
  PROVE  /\ [r EXCEPT !.op = o, !.thread = t] \in Sessions
         /\ [r EXCEPT !.op = o] \in Sessions
         /\ [r EXCEPT !.thread = t] \in Sessions
         /\ [r EXCEPT !.op = NoSub] \in Sessions
         /\ [r EXCEPT !.op = NoSub, !.thread = t] \in Sessions
BY DEF Sessions

LEMMA SessionTyped ==
  ASSUME StartsTypeOK, Resolved, Operation, StartsNext
  PROVE  sess' \in Sessions
<1>s. /\ sess \in Sessions /\ starter \in Starters /\ cli \in [Launches -> Processes]
      /\ sess.queue \in Seq(Subs) /\ sess.thread \in Launches \cup {NoConv}
      /\ sess.op \in Subs \cup {NoSub}
  BY DEF StartsTypeOK, Sessions
<1>c. \A p \in Launches : cli[p].conv \in Launches \cup {NoConv}
  BY <1>s DEF Processes
<1>d. Defer /\ starter.sub \in Subs => sess' \in Sessions
  <2> SUFFICES ASSUME Defer, starter.sub \in Subs PROVE sess' \in Sessions
    OBVIOUS
  <2>1. <<starter.sub>> \o sess.queue \in Seq(Subs)
    BY <1>s, ConcatProperties
  <2>2. sess' = [sess EXCEPT !.queue = <<starter.sub>> \o sess.queue, !.op = NoSub]
    BY DEF Defer
  <2> QED
    BY <1>s, <2>1, <2>2, QueueFields
<1>f. Fail(sess.thread) => sess' \in Sessions
  BY <1>s, SessionFields DEF Fail
<1>1. ASSUME NEW s \in Subs, Arrive(s) PROVE sess' \in Sessions
  <2>1. Append(sess.queue, s) \in Seq(Subs)
    BY <1>s, AppendProperties
  <2>2. sess' = [sess EXCEPT !.queue = Append(sess.queue, s)]
    BY <1>1 DEF Arrive
  <2> QED
    BY <1>s, <2>1, <2>2, QueueFields
<1>2. CASE StartBegin
  <2>1. CASE sess' = sess
    BY <1>s, <2>1
  <2>2. CASE sess.queue # <<>> /\ sess' = [sess EXCEPT !.queue = Tail(sess.queue)]
    <3>1. Tail(sess.queue) \in Seq(Subs)
      BY <1>s, <2>2
    <3> QED
      BY <1>s, <2>2, <3>1, QueueFields
  <2> QED
    BY <1>2, <2>1, <2>2 DEF StartBegin
<1>3. CASE EnsureBlocked \/ EnsureHot
  BY <1>s, <1>d, <1>3 DEF EnsureBlocked, EnsureHot, Operation
<1>4. CASE EnsureFails \/ StartError
  <2>1. starter.sub \in Subs
    BY <1>4 DEF EnsureFails, StartError, Operation
  <2>2. \/ Defer \/ Fail(sess.thread) \/ sess' = [sess EXCEPT !.thread = NoConv]
        \/ sess' = [sess EXCEPT !.op = NoSub, !.thread = NoConv]
    BY <1>4 DEF EnsureFails, StartError
  <2> QED
    BY <1>s, <1>d, <1>f, <2>1, <2>2, SessionFields
<1>5. CASE StartBind
  <2>1. starter.sub \in Subs /\ starter.p \in Launches
    BY <1>5 DEF StartBind, Operation, Resolved
  <2> QED
    BY <1>s, <1>c, <1>5, <2>1, SessionFields DEF StartBind
<1>6. ASSUME NEW p \in Launches, LoopStep(p) PROVE sess' \in Sessions
  <2>1. CASE LoopBind(p)
    BY <1>s, <1>c, <2>1, SessionFields DEF LoopBind
  <2>2. CASE LoopFinish(p) \/ LoopFail(p) \/ LoopCleanup(p)
    <3>1. sess' = sess \/ sess' = [sess EXCEPT !.op = NoSub]
      BY <2>2 DEF LoopFinish, LoopFail, LoopCleanup, Finish
    <3> QED
      BY <1>s, <3>1, SessionFields
  <2>3. CASE LoopReady(p) \/ LoopStarted(p) \/ LoopComplete(p) \/ LoopError(p) \/ LoopOver(p)
    <3>1. sess' = sess
      BY <2>3 DEF LoopReady, LoopStarted, LoopComplete, LoopError, LoopOver
    <3> QED
      BY <1>s, <3>1
  <2> QED
    BY <1>6, <2>1, <2>2, <2>3 DEF LoopStep
<1>7. CASE \/ StartWoken \/ EnsureReuse \/ EnsureReset \/ EnsureLaunch \/ EnsureInit
           \/ StartSend \/ StartStore \/ StartReady \/ StartTimeout
  <2>1. sess' = sess
    <3>1. CASE StartWoken \/ EnsureReuse \/ EnsureReset \/ EnsureLaunch
      BY <3>1 DEF StartWoken, EnsureReuse, EnsureReset, EnsureLaunch
    <3>2. CASE EnsureInit \/ StartSend \/ StartStore \/ StartReady \/ StartTimeout
      BY <3>2 DEF EnsureInit, StartSend, StartStore, StartReady, StartTimeout
    <3> QED
      BY <1>7, <3>1, <3>2
  <2> QED
    BY <1>s, <2>1
<1>8. CASE \/ \E d \in Settings : Change(d)
           \/ Interrupt
           \/ \E p \in Launches : CliReady(p) \/ CliAnswers(p) \/ CliDies(p)
  BY <1>s, <1>8 DEF Change, Interrupt, CliReady, CliAnswers, CliDies
<1> QED
  BY <1>1, <1>2, <1>3, <1>4, <1>5, <1>6, <1>7, <1>8 DEF StartsNext, StartStep

Statuses == [Subs -> {"new", "queued", "running", "done", "failed"}]

LEMMA RestTyped ==
  ASSUME StartsTypeOK, InOrder, Resolved, Operation, StartsNext
  PROVE  /\ desired' \in Settings /\ changes' \in 0 .. MaxChanges
         /\ serving' \in Launches \cup {NoCli}
         /\ configPending' \in BOOLEAN /\ wake' \in BOOLEAN /\ actor' \in BOOLEAN
         /\ status' \in Statuses /\ excused' \subseteq Subs
<1>s. /\ desired \in Settings /\ changes \in 0 .. MaxChanges
      /\ serving \in Launches \cup {NoCli}
      /\ configPending \in BOOLEAN /\ wake \in BOOLEAN /\ actor \in BOOLEAN
      /\ status \in Statuses /\ excused \subseteq Subs
  BY DEF StartsTypeOK, Statuses
<1>1. CASE \E s \in Subs : Arrive(s)
  BY <1>s, <1>1 DEF Arrive, Statuses
<1>2. CASE \E d \in Settings : Change(d)
  BY <1>s, <1>2, StartsAssumption DEF Change
<1>3. CASE StartWoken \/ StartBegin \/ EnsureReuse \/ EnsureBlocked \/ EnsureHot
  BY <1>s, <1>3
    DEF StartWoken, StartBegin, EnsureReuse, EnsureBlocked, EnsureHot, Defer, Ended,
        Statuses
<1>4. CASE EnsureLaunch
  <2>1. LastLaunch + 1 \in Launches
    BY <1>4, NextLaunch DEF EnsureLaunch
  <2> QED
    BY <1>s, <1>4, <2>1 DEF EnsureLaunch
<1>5. CASE EnsureReset \/ EnsureInit \/ EnsureFails
  BY <1>s, <1>5 DEF EnsureReset, EnsureInit, EnsureFails, Defer, Fail, Ended, Statuses
<1>6. CASE StartBind \/ StartSend \/ StartStore \/ StartReady \/ StartTimeout \/ StartError
  BY <1>s, <1>6
    DEF StartBind, StartSend, StartStore, StartReady, StartTimeout, StartError, Defer,
        Fail, Ended, Statuses
<1>7. ASSUME NEW p \in Launches, LoopComplete(p)
      PROVE  excused' \subseteq Subs
  BY <1>s, <1>7 DEF LoopComplete, Operation
<1>8. ASSUME NEW p \in Launches,
             LoopFinish(p) \/ LoopFail(p) \/ LoopCleanup(p)
      PROVE  status' \in Statuses /\ wake' \in BOOLEAN
  BY <1>s, <1>8 DEF LoopFinish, LoopFail, LoopCleanup, Finish, Statuses
<1>9. CASE Interrupt
  BY <1>s, <1>9 DEF Interrupt
<1>10. ASSUME NEW p \in Launches, LoopStep(p)
       PROVE  UNCHANGED <<desired, changes, serving, configPending, actor>>
                /\ status' \in Statuses /\ wake' \in BOOLEAN /\ excused' \subseteq Subs
  BY <1>s, <1>7, <1>8, <1>10
    DEF LoopStep, LoopReady, LoopBind, LoopStarted, LoopComplete, LoopFinish,
        LoopError, LoopFail, LoopOver, LoopCleanup
<1>11. ASSUME NEW p \in Launches, CliReady(p) \/ CliAnswers(p) \/ CliDies(p)
       PROVE  UNCHANGED <<desired, changes, serving, configPending, wake, actor, status,
                          excused>>
  BY <1>11 DEF CliReady, CliAnswers, CliDies
<1> QED
  BY <1>s, <1>1, <1>2, <1>3, <1>4, <1>5, <1>6, <1>9, <1>10, <1>11 DEF StartsNext, StartStep

LEMMA Typed ==
  ASSUME StartsTypeOK, InOrder, Resolved, Operation, [StartsNext]_startsVars
  PROVE  StartsTypeOK'
<1>1. CASE UNCHANGED startsVars
  BY <1>1 DEF StartsTypeOK, startsVars
<1>2. CASE StartsNext
  BY <1>2, ProcessesTyped, StarterTyped, SessionTyped, RestTyped
    DEF StartsTypeOK, Sessions, Statuses
<1> QED
  BY <1>1, <1>2

\* What the invariant reads of a process
SameConfig(q) ==
  cli'[q].real = cli[q].real /\ cli'[q].applied = cli[q].applied
    /\ cli'[q].valid = cli[q].valid
SameWork(q) == cli'[q].turns = cli[q].turns /\ cli'[q].loop = cli[q].loop
Same(q) == SameConfig(q) /\ SameWork(q) /\ cli'[q].st = cli[q].st

LEMMA QuietStep ==
  ASSUME StartsTypeOK, Resolved,
         \/ \E s \in Subs : Arrive(s)
         \/ \E d \in Settings : Change(d)
         \/ StartWoken \/ StartBegin \/ EnsureReuse \/ EnsureBlocked \/ EnsureInit
         \/ StartBind \/ StartSend \/ StartTimeout \/ StartError \/ Interrupt
         \/ \E p \in Launches : CliReady(p) \/ CliAnswers(p)
  PROVE  \A q \in Launches : Same(q)
<1>c. cli \in [Launches -> Processes]
  BY DEF StartsTypeOK
<1>1. CASE cli' = cli
  BY <1>1 DEF Same, SameConfig, SameWork
<1>2. CASE Interrupt
  BY <1>c, <1>2 DEF Interrupt, Processes, Same, SameConfig, SameWork
<1>3. CASE EnsureInit
  BY <1>c, <1>3 DEF EnsureInit, Processes, Same, SameConfig, SameWork
<1>4. CASE cli' # cli /\ StartSend
  <2>1. PICK k : cli' = [cli EXCEPT ![starter.p] = [cli[starter.p] EXCEPT !.sent = k]]
    BY <1>4 DEF StartSend
  <2> QED
    BY <1>c, <2>1 DEF Processes, Same, SameConfig, SameWork
<1>5. ASSUME NEW p \in Launches, CliReady(p) PROVE \A q \in Launches : Same(q)
  <2> DEFINE e == Append(cli[p].events, Event("ready", 0, TRUE))
  <2>1. cli' = [cli EXCEPT ![p] = [cli[p] EXCEPT !.told = TRUE, !.events = e]]
    BY <1>5 DEF CliReady
  <2> HIDE DEF e
  <2> QED
    BY <1>c, <2>1 DEF Processes, Same, SameConfig, SameWork
<1>6. ASSUME NEW p \in Launches, CliAnswers(p) PROVE \A q \in Launches : Same(q)
  <2>1. PICK a, e : cli' = [cli EXCEPT ![p] = [cli[p] EXCEPT !.answered = a, !.events = e]]
    BY <1>6 DEF CliAnswers
  <2> QED
    BY <1>c, <2>1 DEF Processes, Same, SameConfig, SameWork
<1>7. CASE \/ \E s \in Subs : Arrive(s)
           \/ \E d \in Settings : Change(d)
           \/ StartWoken \/ StartBegin \/ EnsureReuse \/ EnsureBlocked
           \/ StartBind \/ StartTimeout \/ StartError
  BY <1>1, <1>7
    DEF Arrive, Change, StartWoken, StartBegin, EnsureReuse, EnsureBlocked, StartBind,
        StartTimeout, StartError
<1> QED
  BY <1>1, <1>2, <1>3, <1>4, <1>5, <1>6, <1>7

\* A process is stopped
LEMMA StopStep ==
  ASSUME StartsTypeOK, InOrder, Resolved, NEW p \in Launches,
         \/ EnsureReset /\ p = serving
         \/ EnsureFails /\ p = starter.p
         \/ CliDies(p)
  PROVE  /\ \A q \in Launches : SameConfig(q) /\ SameWork(q)
         /\ \A q \in Launches \ {p} : cli'[q].st = cli[q].st
         /\ cli'[p].st = "stopped" /\ cli[p].st # "new"
<1>c. cli \in [Launches -> Processes]
  BY DEF StartsTypeOK
<1>1. cli[p].st # "new"
  BY DEF EnsureReset, EnsureFails, CliDies, Running, InOrder, Resolved
<1>2. CASE EnsureReset /\ p = serving
  BY <1>c, <1>1, <1>2 DEF EnsureReset, Processes, SameConfig, SameWork
<1>3. CASE EnsureFails /\ p = starter.p
  BY <1>c, <1>1, <1>3 DEF EnsureFails, Processes, SameConfig, SameWork
<1>4. CASE CliDies(p)
  BY <1>c, <1>1, <1>4 DEF CliDies, Processes, SameConfig, SameWork
<1> QED
  BY <1>2, <1>3, <1>4

LEMMA HotStep ==
  ASSUME StartsTypeOK, EnsureHot
  PROVE  /\ serving \in Launches /\ cli[serving].st = "up"
         /\ \A q \in Launches : SameWork(q) /\ cli'[q].st = cli[q].st
         /\ \A q \in Launches \ {serving} : SameConfig(q)
         /\ \/ /\ cli'[serving].real = desired /\ cli'[serving].applied = desired
               /\ starter' = [starter EXCEPT !.pc = "bind", !.p = serving, !.want = desired]
               /\ sess' = sess
            \/ cli'[serving].valid = FALSE /\ starter' = Idle /\ sess'.op = NoSub
<1>c. /\ cli \in [Launches -> Processes] /\ serving \in Launches /\ cli[serving].st = "up"
      /\ sess \in Sessions
  BY DEF StartsTypeOK, EnsureHot, Reusable, Running, Sessions
<1>1. CASE /\ cli' = [cli EXCEPT ![serving] = Noted([@ EXCEPT !.real = desired], desired)]
           /\ starter' = [starter EXCEPT !.pc = "bind", !.p = serving, !.want = desired]
           /\ sess' = sess
  BY <1>c, <1>1 DEF Noted, Processes, SameConfig, SameWork
<1>2. ASSUME NEW half,
             cli' = [cli EXCEPT ![serving] = ApplyFailed([@ EXCEPT !.real = half])],
             Defer
      PROVE  /\ \A q \in Launches : SameWork(q) /\ cli'[q].st = cli[q].st
             /\ \A q \in Launches \ {serving} : SameConfig(q)
             /\ cli'[serving].valid = FALSE /\ starter' = Idle /\ sess'.op = NoSub
  <2>1. starter' = Idle /\ sess'.op = NoSub
    BY <1>c, <1>2 DEF Defer, Ended, Sessions
  <2> QED
    BY <1>c, <1>2, <2>1 DEF ApplyFailed, Processes, SameConfig, SameWork
<1> QED
  BY <1>c, <1>1, <1>2 DEF EnsureHot

LEMMA EnsureLaunchStep ==
  ASSUME StartsTypeOK, InOrder, EnsureLaunch
  PROVE  LET p == LastLaunch + 1 IN
           /\ p \in Launches /\ cli[p].st = "new" /\ Started = 1 .. LastLaunch
           /\ LastLaunch \in Nat
           /\ cli'[p].st = "up" /\ cli'[p].real = desired /\ cli'[p].applied = desired
           /\ SameWork(p) /\ \A q \in Launches \ {p} : Same(q)
<1> DEFINE p == LastLaunch + 1
<1>1. p \in Launches /\ cli[p].st = "new" /\ LastLaunch \in Nat /\ Started = 1 .. LastLaunch
  BY NextLaunch DEF EnsureLaunch
<1>2. cli' = [cli EXCEPT ![p] = Noted([@ EXCEPT !.st = "up", !.real = desired,
                                                !.conv = starter.resume], desired)]
  BY DEF EnsureLaunch
<1>c. cli \in [Launches -> Processes]
  BY DEF StartsTypeOK
<1> HIDE DEF p
<1>3. /\ cli'[p].st = "up" /\ cli'[p].real = desired /\ cli'[p].applied = desired
      /\ SameWork(p) /\ \A q \in Launches \ {p} : Same(q)
  BY <1>c, <1>1, <1>2 DEF Noted, Processes, SameConfig, SameWork, Same
<1> QED
  BY <1>1, <1>3 DEF p

LEMMA StoreStep ==
  ASSUME StartsTypeOK, Resolved, Operation, StartStore
  PROVE  /\ starter.p \in Launches /\ starter.n \in Numbers
         /\ \A q \in Launches : SameConfig(q) /\ cli'[q].st = cli[q].st
                                 /\ cli'[q].loop = cli[q].loop
         /\ \A q \in Launches \ {starter.p} : cli'[q].turns = cli[q].turns
         /\ cli'[starter.p].turns[starter.n] = [sub |-> starter.sub, suppress |-> TRUE]
<1>c. cli \in [Launches -> Processes] /\ starter.p \in Launches /\ starter.n \in Numbers
  BY DEF StartsTypeOK, Resolved, Operation, StartStore
<1> QED
  BY <1>c DEF StartStore, Processes, SameConfig

LEMMA ReadyStep ==
  ASSUME StartsTypeOK, Resolved, Operation, StartReady
  PROVE  /\ starter.p \in Launches /\ starter.n \in Numbers
         /\ \A q \in Launches : SameConfig(q) /\ cli'[q].st = cli[q].st
                                 /\ cli'[q].loop = cli[q].loop
         /\ \/ /\ cli[starter.p].st # "up" /\ starter' = [starter EXCEPT !.pc = "error"]
               /\ \A q \in Launches : Same(q)
            \/ /\ cli[starter.p].st = "up" /\ starter' = Idle
               /\ cli'[starter.p].turns[starter.n]
                    = [cli[starter.p].turns[starter.n] EXCEPT !.suppress = FALSE]
<1>c. /\ cli \in [Launches -> Processes] /\ starter.p \in Launches /\ starter.n \in Numbers
  BY DEF StartsTypeOK, Resolved, Operation, StartReady
<1>1. CASE /\ Running(starter.p) /\ starter' = Idle
           /\ cli' = [cli EXCEPT ![starter.p] =
                [@ EXCEPT !.preserve = FALSE, !.turns[starter.n].suppress = FALSE]]
  <2> DEFINE u == [cli[starter.p].turns[starter.n] EXCEPT !.suppress = FALSE]
             t == [cli[starter.p].turns EXCEPT ![starter.n] = u]
  <2>1. cli' = [cli EXCEPT ![starter.p] = [@ EXCEPT !.preserve = FALSE, !.turns = t]]
    <3>1. cli[starter.p] \in Processes
      BY <1>c
    <3> DEFINE r == [cli[starter.p] EXCEPT !.preserve = FALSE]
    <3>2. r.turns = cli[starter.p].turns
      BY <3>1 DEF Processes
    <3> QED
      BY <1>1, <3>2
  <2>2. t[starter.n] = u
    BY <1>c DEF Processes
  <2> HIDE DEF t, u
  <2>3. /\ \A q \in Launches : SameConfig(q) /\ cli'[q].st = cli[q].st
                                /\ cli'[q].loop = cli[q].loop
        /\ cli'[starter.p].turns = t
    BY <1>c, <2>1 DEF Processes, SameConfig
  <2>4. cli'[starter.p].turns[starter.n]
          = [cli[starter.p].turns[starter.n] EXCEPT !.suppress = FALSE]
    BY <2>2, <2>3 DEF u
  <2>5. cli[starter.p].st = "up" /\ starter' = Idle
    BY <1>1 DEF Running
  <2> QED
    BY <1>c, <2>3, <2>4, <2>5
<1>2. CASE /\ ~Running(starter.p) /\ starter' = [starter EXCEPT !.pc = "error"]
           /\ cli' = cli
  BY <1>c, <1>2 DEF Running, Launches, Same, SameConfig, SameWork
<1> QED
  BY <1>1, <1>2 DEF StartReady, Ended

\* The loop of p goes on
LEMMA LoopGoesOn ==
  ASSUME StartsTypeOK, NEW p \in Launches,
         \/ LoopReady(p) \/ LoopBind(p) \/ LoopStarted(p) \/ LoopFinish(p)
         \/ LoopError(p) \/ LoopFail(p)
  PROVE  /\ \A q \in Launches : SameConfig(q) /\ cli'[q].st = cli[q].st
                                 /\ cli'[q].turns = cli[q].turns
         /\ \A q \in Launches \ {p} : cli'[q].loop = cli[q].loop
         /\ cli'[p].loop.pc \in {"recv", "bind", "fail"}
         /\ cli[p].loop.pc \notin {"cleanup", "end"}
         /\ cli[p].loop.pc = "finish" => LoopFinish(p)
<1>c. cli \in [Launches -> Processes]
  BY DEF StartsTypeOK
<1>1. CASE LoopReady(p)
  BY <1>c, <1>1 DEF LoopReady, CanTake, Processes, SameConfig
<1>2. CASE LoopBind(p)
  BY <1>c, <1>2 DEF LoopBind, Processes, SameConfig
<1>3. CASE LoopStarted(p)
  BY <1>c, <1>3 DEF LoopStarted, CanTake, Processes, SameConfig
<1>4. CASE LoopFinish(p)
  BY <1>c, <1>4 DEF LoopFinish, Processes, SameConfig
<1>5. CASE LoopError(p)
  BY <1>c, <1>5 DEF LoopError, CanTake, Processes, SameConfig
<1>6. CASE LoopFail(p)
  BY <1>c, <1>6 DEF LoopFail, Processes, SameConfig
<1> QED
  BY <1>1, <1>2, <1>3, <1>4, <1>5, <1>6

LEMMA CompleteStep ==
  ASSUME StartsTypeOK, NEW p \in Launches, LoopComplete(p)
  PROVE  LET n == Next1(p).n
             entry == cli[p].turns[n]
             silent == entry = Fresh \/ (entry.suppress /\ ~Next1(p).ok)
         IN  /\ n \in Numbers /\ entry \in Turns /\ cli[p].loop.pc = "recv"
             /\ \A q \in Launches : SameConfig(q) /\ cli'[q].st = cli[q].st
             /\ \A q \in Launches \ {p} : SameWork(q)
             /\ \A k \in Numbers \ {n} : cli'[p].turns[k] = cli[p].turns[k]
             /\ silent => cli'[p].loop = cli[p].loop
             /\ ~silent => cli'[p].loop.pc = "finish" /\ cli'[p].loop.sub = entry.sub
<1> DEFINE n == Next1(p).n
           entry == cli[p].turns[n]
           silent == entry = Fresh \/ (entry.suppress /\ ~Next1(p).ok)
           l == IF silent THEN cli[p].loop
                ELSE [pc |-> "finish", sub |-> entry.sub, ok |-> Next1(p).ok]
           f == Forget(cli[p], n)
           r == [f EXCEPT !.events = Later(p), !.loop = l]
<1>c. cli \in [Launches -> Processes]
  BY DEF StartsTypeOK
<1>1. n \in Numbers /\ cli[p].loop.pc = "recv"
  BY TakenEvent DEF LoopComplete, CanTake
<1>2. entry \in Turns
  BY <1>c, <1>1 DEF Processes
<1>3. cli' = [cli EXCEPT ![p] = r]
  BY DEF LoopComplete
<1>4. /\ f.real = cli[p].real /\ f.applied = cli[p].applied /\ f.valid = cli[p].valid
      /\ f.st = cli[p].st
      /\ \A k \in Numbers \ {n} : f.turns[k] = cli[p].turns[k]
      /\ f \in Processes
  <2>1. Fresh \in Turns
    BY DEF Fresh, Turns
  <2> DEFINE t == [cli[p].turns EXCEPT ![n] = Fresh]
             m == IF cli[p].cur = n THEN 0 ELSE cli[p].cur
  <2>2. f = [cli[p] EXCEPT !.turns = t, !.cur = m, !.interrupt = FALSE]
    <3> DEFINE r1 == [cli[p] EXCEPT !.turns = t]
    <3>1. r1.cur = cli[p].cur
      BY <1>c DEF Processes
    <3> QED
      BY <3>1 DEF Forget
  <2>3. t \in [Numbers -> Turns] /\ m \in Numbers \cup {0}
    BY <1>c, <1>1, <2>1 DEF Processes
  <2>4. \A k \in Numbers \ {n} : t[k] = cli[p].turns[k]
    BY <1>c, <1>1 DEF Processes
  <2> HIDE DEF t, m, n, f
  <2>5. f.turns = t /\ f.real = cli[p].real /\ f.applied = cli[p].applied
          /\ f.valid = cli[p].valid /\ f.st = cli[p].st
    BY <1>c, <2>2 DEF Processes
  <2>6. f \in Processes
    BY <1>c, <1>1, ForgetTyped DEF f, n
  <2> QED
    BY <2>4, <2>5, <2>6
<1>5. /\ r.real = f.real /\ r.applied = f.applied /\ r.valid = f.valid /\ r.st = f.st
      /\ r.turns = f.turns /\ r.loop = l
  <2> HIDE DEF f, l
  <2> QED
    BY <1>4 DEF Processes
<1>6. /\ silent => l = cli[p].loop
      /\ ~silent => l.pc = "finish" /\ l.sub = entry.sub
  <2> HIDE DEF silent, entry
  <2> QED
    OBVIOUS
<1>7. cli'[p] = r /\ \A q \in Launches \ {p} : cli'[q] = cli[q]
  <2> HIDE DEF r
  <2> QED
    BY <1>c, <1>3
<1>8. /\ \A q \in Launches : SameConfig(q) /\ cli'[q].st = cli[q].st
      /\ \A q \in Launches \ {p} : SameWork(q)
      /\ \A k \in Numbers \ {n} : cli'[p].turns[k] = cli[p].turns[k]
      /\ cli'[p].loop = l
  <2> HIDE DEF r, f, l, n
  <2> QED
    BY <1>4, <1>5, <1>7 DEF SameConfig, SameWork
<1> QED
  <2> HIDE DEF l, r, f
  <2> QED
    BY <1>1, <1>2, <1>6, <1>8

\* The loop of a stopped process ends
LEMMA LoopEnds ==
  ASSUME StartsTypeOK, InOrder, NEW p \in Launches, LoopOver(p) \/ LoopCleanup(p)
  PROVE  /\ \A q \in Launches \ {p} : Same(q)
         /\ cli[p].st = "stopped" /\ cli'[p].st = "stopped"
         /\ \/ SameConfig(p)
            \/ cli'[p].real = cli'[p].applied
         /\ \/ cli'[p].loop.pc = "end" /\ LoopOver(p) /\ sess.op = NoSub
            \/ cli'[p].loop.pc = "end" /\ LoopCleanup(p)
            \/ cli'[p].loop.pc = "cleanup" /\ cli'[p].loop.sub = sess.op /\ LoopOver(p)
<1>c. cli \in [Launches -> Processes] /\ NewCli \in Processes
  BY NewCliTyped DEF StartsTypeOK
<1>1. cli[p].st = "stopped"
  BY DEF LoopOver, LoopCleanup, InOrder
<1>2. LET g == Gone(cli[p]) IN
        g.st = "stopped" /\ g.real = g.applied /\ g.loop.pc = "end"
  BY DEF Gone, NewCli
<1>3. CASE cli' = [cli EXCEPT ![p] = Gone(@)] /\ (LoopCleanup(p) \/ sess.op = NoSub)
  BY <1>c, <1>1, <1>2, <1>3 DEF Same, SameConfig, SameWork, LoopOver, LoopCleanup
<1>4. CASE /\ LoopOver(p)
           /\ cli' = [cli EXCEPT ![p] =
                [@ EXCEPT !.ready = TRUE,
                          !.loop = [pc |-> "cleanup", sub |-> sess.op, ok |-> FALSE]]]
  BY <1>c, <1>1, <1>4 DEF Processes, Same, SameConfig, SameWork
<1> QED
  BY <1>3, <1>4 DEF LoopOver, LoopCleanup

Quiet ==
  \/ \E s \in Subs : Arrive(s)
  \/ \E d \in Settings : Change(d)
  \/ StartWoken \/ StartBegin \/ EnsureReuse \/ EnsureBlocked \/ EnsureInit
  \/ StartBind \/ StartSend \/ StartTimeout \/ StartError \/ Interrupt
  \/ \E p \in Launches : CliReady(p) \/ CliAnswers(p)
GoesOn(p) ==
  LoopReady(p) \/ LoopBind(p) \/ LoopStarted(p) \/ LoopFinish(p) \/ LoopError(p)
    \/ LoopFail(p)
GivesUp(p) == LoopOver(p) \/ LoopCleanup(p)

LEMMA Cases ==
  ASSUME StartsNext
  PROVE  \/ Quiet \/ EnsureHot \/ EnsureReset \/ EnsureFails \/ EnsureLaunch
         \/ StartStore \/ StartReady
         \/ \E p \in Launches : GoesOn(p) \/ LoopComplete(p) \/ GivesUp(p) \/ CliDies(p)
BY DEF StartsNext, StartStep, LoopStep, Quiet, GoesOn, GivesUp

LEMMA SnapshotsKept ==
  ASSUME StartsInv, StartsNext
  PROVE  Snapshots'
<1> USE DEF StartsInv
<1> SUFFICES ASSUME NEW q \in Launches, cli'[q].valid PROVE cli'[q].real = cli'[q].applied
  BY DEF Snapshots
<1>1. SameConfig(q) => cli'[q].real = cli'[q].applied
  BY DEF Snapshots, SameConfig
<1>2. CASE Quiet
  BY <1>1, <1>2, QuietStep DEF Quiet, Same
<1>3. CASE EnsureHot
  <2>1. CASE q = serving
    BY <1>3, <2>1, HotStep
  <2>2. CASE q # serving
    BY <1>1, <1>3, <2>2, HotStep
  <2> QED
    BY <2>1, <2>2
<1>4. CASE EnsureReset
  <2>1. serving \in Launches
    BY <1>4 DEF EnsureReset, StartsTypeOK
  <2> QED
    BY <1>1, <1>4, <2>1, StopStep
<1>5. CASE EnsureFails
  <2>1. starter.p \in Launches
    BY <1>5 DEF EnsureFails, Resolved
  <2> QED
    BY <1>1, <1>5, <2>1, StopStep
<1>6. CASE EnsureLaunch
  <2>1. CASE q = LastLaunch + 1
    BY <1>6, <2>1, EnsureLaunchStep
  <2>2. CASE q # LastLaunch + 1
    BY <1>1, <1>6, <2>2, EnsureLaunchStep DEF Same
  <2> QED
    BY <2>1, <2>2
<1>7. CASE StartStore
  BY <1>1, <1>7, StoreStep
<1>8. CASE StartReady
  BY <1>1, <1>8, ReadyStep
<1>9. ASSUME NEW p \in Launches, GoesOn(p) PROVE SameConfig(q)
  BY <1>9, LoopGoesOn DEF GoesOn
<1>10. ASSUME NEW p \in Launches, LoopComplete(p) PROVE SameConfig(q)
  BY <1>10, CompleteStep
<1>11. ASSUME NEW p \in Launches, GivesUp(p) PROVE cli'[q].real = cli'[q].applied
  <2>1. CASE q = p
    BY <1>1, <1>11, <2>1, LoopEnds DEF GivesUp
  <2>2. CASE q # p
    BY <1>1, <1>11, <2>2, LoopEnds DEF GivesUp, Same
  <2> QED
    BY <2>1, <2>2
<1>12. ASSUME NEW p \in Launches, CliDies(p) PROVE SameConfig(q)
  BY <1>12, StopStep
<1> QED
  BY <1>1, <1>2, <1>3, <1>4, <1>5, <1>6, <1>7, <1>8, <1>9, <1>10, <1>11, <1>12, Cases

LEMMA OldProcesses ==
  ASSUME StartsInv, StartsNext, ~EnsureLaunch, NEW q \in Launches
  PROVE  /\ cli'[q].st = cli[q].st \/ (cli[q].st # "new" /\ cli'[q].st = "stopped")
         /\ cli'[q].loop.pc \in {"cleanup", "end"} => cli'[q].st = "stopped"
<1> USE DEF StartsInv
<1>1. cli[q].loop.pc \in {"cleanup", "end"} => cli[q].st = "stopped"
  BY DEF InOrder
<1>2. CASE Quiet
  BY <1>1, <1>2, QuietStep DEF Quiet, Same, SameWork
<1>3. CASE EnsureHot
  BY <1>1, <1>3, HotStep DEF SameWork
<1>4. CASE EnsureReset
  <2>1. serving \in Launches
    BY <1>4 DEF EnsureReset, StartsTypeOK
  <2> QED
    BY <1>1, <1>4, <2>1, StopStep DEF SameWork
<1>5. CASE EnsureFails
  <2>1. starter.p \in Launches
    BY <1>5 DEF EnsureFails, Resolved
  <2> QED
    BY <1>1, <1>5, <2>1, StopStep DEF SameWork
<1>6. CASE StartStore
  BY <1>1, <1>6, StoreStep
<1>7. CASE StartReady
  BY <1>1, <1>7, ReadyStep
<1>8. ASSUME NEW p \in Launches, GoesOn(p)
      PROVE  cli'[q].st = cli[q].st
               /\ (cli'[q].loop = cli[q].loop \/ cli'[q].loop.pc \in {"recv", "bind", "fail"})
  BY <1>8, LoopGoesOn DEF GoesOn
<1>9. ASSUME NEW p \in Launches, LoopComplete(p)
      PROVE  cli'[q].st = cli[q].st
               /\ (cli'[q].loop = cli[q].loop \/ cli'[q].loop.pc = "finish")
  BY <1>9, CompleteStep DEF SameWork
<1>10. ASSUME NEW p \in Launches, GivesUp(p)
       PROVE  cli'[q].st = cli[q].st
                /\ (cli'[q].loop = cli[q].loop \/ cli'[q].st = "stopped")
  BY <1>10, LoopEnds DEF GivesUp, Same, SameWork
<1>11. ASSUME NEW p \in Launches, CliDies(p)
       PROVE  /\ cli'[q].st = cli[q].st \/ (cli[q].st # "new" /\ cli'[q].st = "stopped")
              /\ cli'[q].loop = cli[q].loop
  BY <1>11, StopStep DEF SameWork
<1> QED
  BY <1>1, <1>2, <1>3, <1>4, <1>5, <1>6, <1>7, <1>8, <1>9, <1>10, <1>11, Cases

LEMMA InOrderKept ==
  ASSUME StartsInv, StartsNext
  PROVE  InOrder'
<1> USE DEF StartsInv
<1>1. CASE ~EnsureLaunch
  <2>1. Started' = Started
    BY <1>1, OldProcesses DEF Started
  <2>2. serving' \in {serving, NoCli}
    <3>1. CASE Quiet
      BY <3>1
        DEF Quiet, Arrive, Change, Interrupt, StartWoken, StartBegin, EnsureReuse,
            EnsureBlocked, EnsureInit, StartBind, StartSend, StartTimeout, StartError,
            CliReady, CliAnswers
    <3>2. CASE EnsureHot \/ EnsureReset \/ EnsureFails \/ StartStore \/ StartReady
      BY <3>2 DEF EnsureHot, EnsureReset, EnsureFails, StartStore, StartReady
    <3>3. ASSUME NEW p \in Launches, GoesOn(p) \/ LoopComplete(p) \/ GivesUp(p) \/ CliDies(p)
          PROVE  serving' = serving
      <4>1. CASE GoesOn(p)
        BY <4>1 DEF GoesOn, LoopReady, LoopBind, LoopStarted, LoopFinish, LoopError, LoopFail
      <4>2. CASE LoopComplete(p) \/ GivesUp(p) \/ CliDies(p)
        BY <4>2 DEF GivesUp, LoopComplete, LoopOver, LoopCleanup, CliDies
      <4> QED
        BY <3>3, <4>1, <4>2
    <3> QED
      BY <1>1, <3>1, <3>2, <3>3, Cases
  <2>3. serving' # NoCli => serving \in Launches /\ cli[serving].st # "new"
    BY <2>2 DEF StartsTypeOK, InOrder
  <2>4. serving' # NoCli => cli'[serving'].st # "new"
    BY <1>1, <2>2, <2>3, OldProcesses
  <2> QED
    BY <1>1, <2>1, <2>4, OldProcesses DEF InOrder
<1>2. CASE EnsureLaunch
  <2> DEFINE k == LastLaunch
             p == k + 1
  <2>1. /\ p \in Launches /\ k \in Nat /\ Started = 1 .. k /\ cli[p].st = "new"
        /\ cli'[p].st = "up" /\ SameWork(p) /\ \A q \in Launches \ {p} : Same(q)
    BY <1>2, EnsureLaunchStep
  <2>2. serving' = p
    BY <1>2 DEF EnsureLaunch
  <2> HIDE DEF k
  <2>3. Started' = Started \cup {p}
    BY <2>1 DEF Started, Same
  <2>4. Started' = 1 .. p /\ p \in 0 .. MaxLaunches
    BY <2>1, <2>3, StartsAssumption DEF Launches
  <2>5. \A q \in Launches : cli'[q].loop.pc \in {"cleanup", "end"} => cli'[q].st = "stopped"
    <3> HIDE DEF p
    <3> QED
      BY <2>1 DEF InOrder, Same, SameWork
  <2> HIDE DEF p
  <2> QED
    BY <2>1, <2>2, <2>4, <2>5 DEF InOrder
<1> QED
  BY <1>1, <1>2

LEMMA LoopsLeaveStarter ==
  ASSUME NEW p \in Launches, GoesOn(p) \/ LoopComplete(p) \/ GivesUp(p) \/ CliDies(p)
  PROVE  starter' = starter
BY DEF GoesOn, GivesUp, LoopReady, LoopBind, LoopStarted, LoopComplete, LoopFinish, LoopError, LoopFail,
        LoopOver, LoopCleanup, CliDies

LEMMA ResolvedKept ==
  ASSUME StartsInv, StartsNext
  PROVE  Resolved'
<1> USE DEF StartsInv
<1>s. /\ starter \in Starters /\ Idle.pc = "idle"
      /\ serving \in Launches \cup {NoCli}
  BY DEF StartsTypeOK, Idle
<1>1. CASE Quiet
  <2>1. \A q \in Launches : Same(q)
    BY <1>1, QuietStep DEF Quiet
  <2>2. CASE EnsureReuse
    <3>1. /\ serving \in Launches /\ cli[serving].st = "up"
          /\ cli[serving].valid /\ cli[serving].applied = desired
      BY <1>s, <2>2 DEF EnsureReuse, Reusable, Running
    <3>2. starter'.p = serving /\ starter'.want = desired /\ starter'.pc = "bind"
      BY <1>s, <2>2 DEF EnsureReuse, Starters
    <3> QED
      BY <2>1, <3>1, <3>2 DEF Resolved, Snapshots, Same, SameConfig
  <2>3. CASE EnsureInit \/ StartBind
    <3>1. /\ starter'.p = starter.p /\ starter'.want = starter.want
          /\ starter.pc \in {"init", "bind"} /\ starter'.pc \in {"bind", "send"}
      BY <1>s, <2>3 DEF EnsureInit, StartBind, Starters
    <3> QED
      BY <2>1, <3>1 DEF Resolved, Same, SameConfig
  <2>4. CASE StartSend \/ StartTimeout
    <3>1. /\ starter'.p = starter.p /\ starter.pc \in {"send", "ready"}
          /\ starter'.pc \in {"store", "error"}
      BY <1>s, <2>4 DEF StartSend, StartTimeout, Starters
    <3> QED
      BY <2>1, <3>1 DEF Resolved, Same
  <2>5. CASE \/ \E s \in Subs : Arrive(s)
             \/ StartWoken \/ StartBegin \/ EnsureBlocked \/ StartError
    <3>1. starter' = starter \/ starter'.pc \in {"idle", "begin", "ensure"}
      BY <1>s, <2>5, IdleTyped
        DEF Arrive, StartWoken, StartBegin, EnsureBlocked, StartError, Defer, Fail, Ended,
            Starters
    <3> QED
      BY <2>1, <3>1 DEF Resolved, Same, SameConfig
  <2>6. CASE starter' = starter
    BY <2>1, <2>6 DEF Resolved, Same, SameConfig
  <2> QED
    BY <1>1, <2>2, <2>3, <2>4, <2>5, <2>6 DEF Quiet, Change, Interrupt, CliReady, CliAnswers
<1>2. CASE EnsureHot
  <2>1. /\ serving \in Launches /\ cli'[serving].st = "up"
        /\ \/ /\ cli'[serving].real = desired
              /\ starter' = [starter EXCEPT !.pc = "bind", !.p = serving, !.want = desired]
           \/ starter' = Idle
    BY <1>2, HotStep
  <2>2. \/ /\ starter'.pc = "bind" /\ starter'.p = serving /\ starter'.want = desired
           /\ cli'[serving].real = desired
        \/ starter'.pc = "idle"
    BY <1>s, <2>1 DEF Starters
  <2> QED
    BY <2>1, <2>2 DEF Resolved
<1>3. CASE EnsureReset
  <2>1. starter'.pc = "ensure"
    BY <1>s, <1>3 DEF EnsureReset, Starters
  <2> QED
    BY <2>1 DEF Resolved
<1>4. CASE EnsureFails
  <2>1. starter'.pc \in {"idle", "ensure"}
    BY <1>s, <1>4 DEF EnsureFails, Defer, Fail, Ended, Starters
  <2> QED
    BY <2>1 DEF Resolved
<1>5. CASE EnsureLaunch
  <2> DEFINE p == LastLaunch + 1
  <2>1. p \in Launches /\ cli'[p].st = "up" /\ cli'[p].real = desired
    BY <1>5, EnsureLaunchStep
  <2>2. starter'.p = p /\ starter'.want = desired
    BY <1>s, <1>5 DEF EnsureLaunch, Starters
  <2> HIDE DEF p
  <2> QED
    BY <2>1, <2>2 DEF Resolved
<1>6. CASE StartStore
  <2>1. starter'.pc = "ready" /\ starter'.p = starter.p /\ starter.pc = "store"
    BY <1>s, <1>6 DEF StartStore, Starters
  <2> QED
    BY <1>6, <2>1, StoreStep DEF Resolved
<1>7. CASE StartReady
  <2>1. /\ starter'.pc = "idle" \/ (starter'.pc = "error" /\ starter'.p = starter.p)
        /\ starter.pc = "ready"
    BY <1>s, <1>7 DEF StartReady, Ended, Starters
  <2> QED
    BY <1>7, <2>1, ReadyStep DEF Resolved
<1>8. ASSUME NEW p \in Launches, GoesOn(p) \/ LoopComplete(p) \/ GivesUp(p) \/ CliDies(p)
      PROVE  Resolved'
  <2>1. starter' = starter
    BY <1>8, LoopsLeaveStarter
  <2>2. \A q \in Launches :
          SameConfig(q) \/ (cli[q].st = "stopped" /\ cli'[q].st = "stopped")
    BY <1>8, LoopGoesOn, CompleteStep, LoopEnds, StopStep DEF GoesOn, GivesUp, Same
  <2>3. ~EnsureLaunch
    <3>1. starter'.pc # starter.pc \/ ~EnsureLaunch
      BY <1>s DEF EnsureLaunch, Starters
    <3> QED
      BY <2>1, <3>1
  <2>4. \A q \in Launches :
          cli'[q].st = cli[q].st \/ (cli[q].st # "new" /\ cli'[q].st = "stopped")
    BY <2>3, OldProcesses
  <2> QED
    BY <2>1, <2>2, <2>4 DEF Resolved, SameConfig
<1> QED
  BY <1>1, <1>2, <1>3, <1>4, <1>5, <1>6, <1>7, <1>8, Cases

LEMMA LoopsEndWork ==
  ASSUME StartsTypeOK, NEW p \in Launches,
         GoesOn(p) \/ LoopComplete(p) \/ GivesUp(p) \/ CliDies(p)
  PROVE  sess'.op \in {sess.op, NoSub} /\ excused \subseteq excused'
<1>s. sess \in Sessions
  BY DEF StartsTypeOK, Sessions
<1>1. CASE LoopFinish(p) \/ LoopFail(p) \/ LoopCleanup(p)
  BY <1>s, <1>1 DEF LoopFinish, LoopFail, LoopCleanup, Finish, Sessions
<1>2. CASE LoopBind(p)
  BY <1>s, <1>2 DEF LoopBind, Sessions
<1> QED
  BY <1>1, <1>2
    DEF GoesOn, GivesUp, LoopReady, LoopStarted, LoopComplete, LoopError, LoopOver, CliDies

LEMMA OperationKept ==
  ASSUME StartsInv, StartsNext
  PROVE  Operation'
<1> USE DEF StartsInv
<1>s. /\ starter \in Starters /\ sess \in Sessions /\ Idle.pc = "idle"
      /\ cli \in [Launches -> Processes]
  BY DEF StartsTypeOK, Sessions, Idle
<1>1. CASE \E s \in Subs : Arrive(s)
  <2>1. sess'.op = sess.op /\ (starter' = starter \/ starter'.pc = "begin")
    BY <1>s, <1>1, IdleTyped DEF Arrive, Sessions, Starters
  <2> QED
    BY <2>1 DEF Operation
<1>2. CASE StartWoken
  <2>1. starter'.pc = "begin"
    BY <1>s, <1>2, IdleTyped DEF StartWoken, Starters
  <2> QED
    BY <2>1 DEF Operation
<1>3. CASE StartBegin
  <2>1. CASE starter' = Idle
    BY <1>s, <2>1 DEF Operation
  <2>2. CASE sess.op = NoSub /\ sess.queue # <<>>
    <3>1. Head(sess.queue) \in Subs
      BY <1>s, <2>2 DEF Sessions
    <3>2. starter'.pc = "ensure" /\ starter'.sub = Head(sess.queue) /\ sess'.op = sess.op
      BY <1>s, <1>3, <2>2 DEF StartBegin, Starters, Sessions
    <3> QED
      BY <2>2, <3>1, <3>2 DEF Operation
  <2> QED
    BY <1>3, <2>1, <2>2 DEF StartBegin, Ended
<1>4. CASE EnsureReuse \/ EnsureReset \/ EnsureLaunch \/ EnsureInit
  <2>1. /\ starter'.pc \in {"ensure", "bind", "init"} /\ starter.pc \in {"ensure", "init"}
        /\ starter'.sub = starter.sub /\ sess' = sess
    BY <1>s, <1>4 DEF EnsureReuse, EnsureReset, EnsureLaunch, EnsureInit, Starters
  <2> QED
    BY <2>1 DEF Operation
<1>5. CASE EnsureBlocked \/ EnsureHot
  <2>1. \/ starter' = Idle
        \/ /\ starter' = [starter EXCEPT !.pc = "bind", !.p = serving, !.want = desired]
           /\ sess' = sess /\ starter.pc = "ensure"
    BY <1>5 DEF EnsureBlocked, EnsureHot, Defer, Ended
  <2>2. \/ starter'.pc = "idle"
        \/ /\ starter'.pc = "bind" /\ starter'.sub = starter.sub
           /\ sess' = sess /\ starter.pc = "ensure"
    BY <1>s, <2>1 DEF Starters
  <2> QED
    BY <2>2 DEF Operation
<1>6. CASE EnsureFails \/ StartError
  <2>1. \/ starter' = Idle
        \/ /\ starter' = [starter EXCEPT !.pc = "ensure", !.resume = NoConv]
           /\ starter.pc \in {"init", "error"}
           /\ \/ sess' = [sess EXCEPT !.thread = NoConv] /\ starter.pc = "init"
              \/ sess' = [sess EXCEPT !.op = NoSub, !.thread = NoConv]
    BY <1>6 DEF EnsureFails, StartError, Defer, Fail, Ended
  <2>2. \/ starter'.pc = "idle"
        \/ /\ starter'.pc = "ensure" /\ starter'.sub = starter.sub
           /\ starter.pc \in {"init", "error"}
           /\ (sess'.op = sess.op /\ starter.pc = "init") \/ sess'.op = NoSub
    BY <1>s, <2>1 DEF Starters, Sessions
  <2> QED
    BY <2>2 DEF Operation
<1>7. CASE StartBind
  <2>1. /\ starter'.pc = "send" /\ starter'.sub = starter.sub /\ starter.pc = "bind"
        /\ sess'.op = starter.sub
    BY <1>s, <1>7 DEF StartBind, Starters, Sessions
  <2> QED
    BY <2>1 DEF Operation
<1>8. CASE StartSend
  <2>1. starter.pc = "send" /\ starter'.sub = starter.sub /\ sess' = sess
    BY <1>s, <1>8 DEF StartSend, Starters
  <2>2. CASE starter'.pc = "error"
    BY <2>1, <2>2 DEF Operation
  <2>3. CASE starter'.pc # "error"
    <3>1. /\ cli[starter.p].sent < MaxSends /\ starter'.pc = "store"
          /\ starter'.n = cli[starter.p].sent + 1
      BY <1>s, <1>8, <2>3 DEF StartSend, Starters
    <3>2. cli[starter.p].sent \in 0 .. MaxSends
      BY <1>s, <2>1 DEF Resolved, Processes
    <3>3. starter'.n \in Numbers
      BY <3>1, <3>2, StartsAssumption DEF Numbers
    <3> QED
      BY <2>1, <3>1, <3>3 DEF Operation
  <2> QED
    BY <2>2, <2>3
<1>9. CASE StartStore \/ StartReady \/ StartTimeout
  <2>1. /\ sess' = sess /\ starter.pc \in {"store", "ready"}
        /\ \/ starter' = Idle
           \/ \E c \in {"ready", "error"} : starter' = [starter EXCEPT !.pc = c]
    BY <1>9 DEF StartStore, StartReady, StartTimeout, Ended
  <2>2. \/ starter'.pc = "idle"
        \/ /\ starter'.pc \in {"ready", "error"} /\ starter'.sub = starter.sub
           /\ starter'.n = starter.n
    BY <1>s, <2>1 DEF Starters
  <2> QED
    BY <2>1, <2>2 DEF Operation
<1>10. ASSUME NEW p \in Launches, GoesOn(p) \/ LoopComplete(p) \/ GivesUp(p) \/ CliDies(p)
       PROVE  Operation'
  BY <1>10, LoopsLeaveStarter, LoopsEndWork DEF Operation
<1>11. CASE \/ \E d \in Settings : Change(d)
            \/ Interrupt
            \/ \E p \in Launches : CliReady(p) \/ CliAnswers(p)
  BY <1>11 DEF Change, Interrupt, CliReady, CliAnswers, Operation
<1> QED
  BY <1>1, <1>2, <1>3, <1>4, <1>5, <1>6, <1>7, <1>8, <1>9, <1>10, <1>11, Cases DEF Quiet

\* What a quiet step does to a start that is over or waits for its turn
LEMMA QuietStarter ==
  ASSUME StartsInv, Quiet
  PROVE  /\ excused' = excused
         /\ starter'.pc = "ready" => starter' = starter /\ sess'.op = sess.op
         /\ starter'.pc \in {"idle", "begin"}
              => \/ sess'.op = NoSub
                 \/ sess'.op = sess.op /\ starter.pc \in {"idle", "begin"}
<1> USE DEF StartsInv
<1>s. /\ starter \in Starters /\ sess \in Sessions /\ Idle.pc = "idle"
  BY DEF StartsTypeOK, Sessions, Idle
<1>1. CASE \E s \in Subs : Arrive(s)
  <2>1. /\ sess'.op = sess.op /\ excused' = excused
        /\ starter' = starter \/ (starter'.pc = "begin" /\ starter.pc = "idle")
    BY <1>s, <1>1, IdleTyped DEF Arrive, Sessions, Starters
  <2> QED
    BY <2>1
<1>2. CASE StartWoken
  <2>1. /\ sess' = sess /\ excused' = excused
        /\ starter'.pc = "begin" /\ starter.pc = "idle"
    BY <1>s, <1>2, IdleTyped DEF StartWoken, Starters
  <2> QED
    BY <2>1
<1>3. CASE StartBegin
  <2>1. /\ sess'.op = sess.op /\ excused' = excused
        /\ starter.pc = "begin" /\ starter'.pc \in {"idle", "ensure"}
    BY <1>s, <1>3 DEF StartBegin, Ended, Sessions, Starters
  <2> QED
    BY <2>1
<1>4. CASE EnsureReuse \/ EnsureInit \/ StartBind \/ StartSend \/ StartTimeout
  <2>1. excused' = excused /\ starter'.pc \in {"bind", "send", "store", "error"}
    BY <1>s, <1>4 DEF EnsureReuse, EnsureInit, StartBind, StartSend, StartTimeout, Starters
  <2> QED
    BY <2>1
<1>5. CASE EnsureBlocked \/ StartError
  <2>1. /\ excused' = excused
        /\ \/ /\ starter' = Idle
              /\ \/ sess' = [sess EXCEPT !.queue = <<starter.sub>> \o sess.queue, !.op = NoSub]
                 \/ sess' = [sess EXCEPT !.op = NoSub, !.thread = sess.thread]
           \/ starter' = [starter EXCEPT !.pc = "ensure", !.resume = NoConv]
    BY <1>5 DEF EnsureBlocked, StartError, Defer, Fail, Ended
  <2>2. (starter'.pc = "idle" /\ sess'.op = NoSub) \/ starter'.pc = "ensure"
    BY <1>s, <2>1 DEF Starters, Sessions
  <2> QED
    BY <2>1, <2>2
<1>6. CASE \/ \E d \in Settings : Change(d)
           \/ Interrupt
           \/ \E p \in Launches : CliReady(p) \/ CliAnswers(p)
  BY <1>6 DEF Change, Interrupt, CliReady, CliAnswers
<1> QED
  BY <1>1, <1>2, <1>3, <1>4, <1>5, <1>6 DEF Quiet

\* The other steps of the start
LEMMA BusyStarter ==
  ASSUME StartsInv, EnsureHot \/ EnsureReset \/ EnsureFails \/ EnsureLaunch
  PROVE  /\ starter'.pc \notin {"begin", "ready"}
         /\ starter'.pc = "idle" => sess'.op = NoSub
<1> USE DEF StartsInv
<1>s. starter \in Starters /\ sess \in Sessions /\ Idle.pc = "idle"
  BY DEF StartsTypeOK, Sessions, Idle
<1>1. CASE EnsureHot
  <2>1. \/ starter' = Idle /\ sess'.op = NoSub
        \/ starter' = [starter EXCEPT !.pc = "bind", !.p = serving, !.want = desired]
    BY <1>1, HotStep
  <2> QED
    BY <1>s, <2>1 DEF Starters
<1>2. CASE EnsureReset \/ EnsureLaunch
  <2>1. starter'.pc \in {"ensure", "init"}
    BY <1>s, <1>2 DEF EnsureReset, EnsureLaunch, Starters
  <2> QED
    BY <2>1
<1>3. CASE EnsureFails
  <2>1. \/ /\ starter' = Idle
           /\ \/ sess' = [sess EXCEPT !.queue = <<starter.sub>> \o sess.queue, !.op = NoSub]
              \/ sess' = [sess EXCEPT !.op = NoSub, !.thread = sess.thread]
        \/ starter' = [starter EXCEPT !.pc = "ensure", !.resume = NoConv]
    BY <1>3 DEF EnsureFails, Defer, Fail, Ended
  <2> QED
    BY <1>s, <2>1 DEF Starters, Sessions
<1> QED
  BY <1>1, <1>2, <1>3

LEMMA AnsweringKept ==
  ASSUME StartsInv, StartsNext
  PROVE  Answering'
<1> USE DEF StartsInv
<1>s. starter \in Starters /\ Idle.pc = "idle"
  BY DEF StartsTypeOK, Idle
<1>1. CASE Quiet
  <2>1. \A q \in Launches : Same(q)
    BY <1>1, QuietStep DEF Quiet
  <2>2. CASE starter'.pc = "ready"
    <3>1. starter' = starter /\ sess'.op = sess.op /\ excused' = excused
      BY <1>1, <2>2, QuietStarter
    <3>2. starter.p \in Launches
      BY <2>2, <3>1 DEF Resolved
    <3>3. Same(starter.p)
      BY <2>1, <3>2
    <3> QED
      BY <3>1, <3>3 DEF Answering, Same, SameWork
  <2>3. CASE starter'.pc # "ready"
    BY <2>3 DEF Answering
  <2> QED
    BY <2>2, <2>3
<1>2. CASE EnsureHot \/ EnsureReset \/ EnsureFails \/ EnsureLaunch
  BY <1>2, BusyStarter DEF Answering
<1>3. CASE StartStore
  <2>1. /\ starter'.sub = starter.sub /\ starter'.n = starter.n /\ starter'.p = starter.p
    BY <1>s, <1>3 DEF StartStore, Starters
  <2> QED
    BY <1>3, <2>1, StoreStep DEF Answering
<1>4. CASE StartReady
  <2>1. starter'.pc # "ready"
    BY <1>s, <1>4 DEF StartReady, Ended, Starters
  <2> QED
    BY <2>1 DEF Answering
<1>5. ASSUME NEW p \in Launches, GoesOn(p) \/ LoopComplete(p) \/ GivesUp(p) \/ CliDies(p)
      PROVE  Answering'
  <2> DEFINE r == starter.p
             entry == [sub |-> starter.sub, suppress |-> TRUE]
  <2>1. starter' = starter /\ sess'.op \in {sess.op, NoSub} /\ excused \subseteq excused'
    BY <1>5, LoopsLeaveStarter, LoopsEndWork
  <2> SUFFICES ASSUME starter.pc = "ready", cli'[r].st = "up", sess'.op = starter.sub,
                      starter.sub \notin excused'
               PROVE  \/ cli'[r].turns[starter.n] = entry
                      \/ cli'[r].loop.pc = "finish" /\ cli'[r].loop.sub = starter.sub
    BY <2>1 DEF Answering
  <2>2. /\ r \in Launches /\ starter.sub \in Subs /\ starter.sub # NoSub
        /\ starter.n \in Numbers
    BY StartsAssumption DEF Resolved, Operation
  <2>3. ~EnsureLaunch
    BY DEF EnsureLaunch
  <2>4. cli[r].st = "up"
    BY <2>2, <2>3, OldProcesses
  <2>5. \/ cli[r].turns[starter.n] = entry
        \/ cli[r].loop.pc = "finish" /\ cli[r].loop.sub = starter.sub
    BY <2>1, <2>2, <2>4 DEF Answering
  <2>6. CASE GoesOn(p)
    <3>1. ~(LoopFinish(p) /\ cli[p].loop.sub = starter.sub)
      <4> SUFFICES ASSUME LoopFinish(p), cli[p].loop.sub = starter.sub PROVE FALSE
        OBVIOUS
      <4>1. sess \in Sessions
        BY DEF StartsTypeOK, Sessions
      <4>2. sess.op = starter.sub
        BY <2>1, <2>2
      <4>3. sess' = [sess EXCEPT !.op = NoSub]
        BY <4>2 DEF LoopFinish, Finish
      <4> QED
        BY <2>2, <4>1, <4>3 DEF Sessions
    <3>2. cli'[r].turns = cli[r].turns /\ (r # p => cli'[r].loop = cli[r].loop)
      BY <2>2, <2>6, LoopGoesOn DEF GoesOn
    <3>3. cli[p].loop.pc = "finish" => LoopFinish(p)
      BY <2>6, LoopGoesOn DEF GoesOn
    <3> QED
      BY <2>5, <3>1, <3>2, <3>3
  <2>7. CASE LoopComplete(p) /\ r = p
    <3> DEFINE n == Next1(p).n
               silent == cli[p].turns[n] = Fresh
                           \/ (cli[p].turns[n].suppress /\ ~Next1(p).ok)
    <3>1. /\ cli[p].loop.pc = "recv"
          /\ \A k \in Numbers \ {n} : cli'[p].turns[k] = cli[p].turns[k]
          /\ ~silent => cli'[p].loop.pc = "finish" /\ cli'[p].loop.sub = cli[p].turns[n].sub
      BY <2>7, CompleteStep
    <3>2. excused' = excused \cup {s \in {starter.sub} : silent
            /\ starter.pc \in {"store", "ready"} /\ starter.p = p /\ starter.n = n}
      BY <2>7 DEF LoopComplete
    <3> HIDE DEF silent, n
    <3>3. silent => n # starter.n
      BY <2>7, <3>2
    <3>4. cli[p].turns[starter.n] = entry
      BY <2>5, <2>7, <3>1
    <3> QED
      BY <2>2, <2>7, <3>1, <3>3, <3>4
  <2>8. CASE (LoopComplete(p) \/ GivesUp(p) \/ CliDies(p)) /\ r # p
    <3>1. SameWork(r)
      BY <2>2, <2>8, CompleteStep, LoopEnds, StopStep DEF GivesUp, Same
    <3> QED
      BY <2>5, <3>1 DEF SameWork
  <2>9. CASE (GivesUp(p) \/ CliDies(p)) /\ r = p
    BY <2>9, LoopEnds, StopStep DEF GivesUp
  <2> QED
    BY <1>5, <2>6, <2>7, <2>8, <2>9
<1> QED
  BY <1>1, <1>2, <1>3, <1>4, <1>5, Cases

LEMMA SameHolds ==
  ASSUME NEW q \in Launches, NEW o, WillEnd(q, o), SameWork(q), cli'[q].st = cli[q].st,
         sess'.op = o
  PROVE  WillEnd(q, sess.op)'
BY DEF WillEnd, SameWork

LEMMA SuppressField ==
  ASSUME NEW S, NEW u \in [sub : S, suppress : BOOLEAN], NEW b \in BOOLEAN
  PROVE  [u EXCEPT !.suppress = b] = [sub |-> u.sub, suppress |-> b]
OBVIOUS

LEMMA Heard ==
  ASSUME NEW o \in Subs, NEW u, u = [sub |-> o, suppress |-> TRUE]
  PROVE  [u EXCEPT !.suppress = FALSE] = [sub |-> o, suppress |-> FALSE]
<1>1. u \in [sub : Subs, suppress : BOOLEAN] /\ u.sub = o /\ FALSE \in BOOLEAN
  OBVIOUS
<1>2. [u EXCEPT !.suppress = FALSE] = [sub |-> u.sub, suppress |-> FALSE]
  BY <1>1, SuppressField, Zenon
<1> QED
  BY <1>1, <1>2, Zenon

LEMMA HeldKept ==
  ASSUME StartsInv, StartsNext
  PROVE  Held'
<1> USE DEF StartsInv
<1>s. starter \in Starters /\ sess \in Sessions /\ Idle.pc = "idle"
  BY DEF StartsTypeOK, Sessions, Idle
<1> SUFFICES ASSUME starter'.pc \in {"idle", "begin"}, sess'.op # NoSub,
                    sess'.op \notin excused'
             PROVE  \E q \in Launches : WillEnd(q, sess.op)'
  BY DEF Held
<1>1. CASE Quiet
  <2>1. /\ sess'.op = sess.op /\ starter.pc \in {"idle", "begin"}
        /\ excused' = excused
    BY <1>1, QuietStarter
  <2>2. PICK q \in Launches : WillEnd(q, sess.op)
    BY <2>1 DEF Held
  <2>3. Same(q)
    BY <1>1, QuietStep DEF Quiet
  <2> QED
    BY <2>1, <2>2, <2>3, SameHolds DEF Same
<1>2. CASE EnsureHot \/ EnsureReset \/ EnsureFails \/ EnsureLaunch
  BY <1>2, BusyStarter
<1>3. CASE StartStore
  BY <1>s, <1>3 DEF StartStore, Starters
<1>4. CASE StartReady
  <2>1. starter.pc = "ready" /\ sess' = sess /\ excused' = excused
    BY <1>4 DEF StartReady
  <2>2. PICK r \in Launches, n \in Numbers, o \in Subs :
          r = starter.p /\ n = starter.n /\ o = starter.sub
    BY <2>1 DEF Resolved, Operation
  <2>3. /\ starter' = Idle
        /\ cli[r].st = "up" /\ cli'[r].st = "up" /\ cli'[r].loop = cli[r].loop
        /\ cli'[r].turns[n] = [cli[r].turns[n] EXCEPT !.suppress = FALSE]
    <3>1. starter' # [starter EXCEPT !.pc = "error"]
      BY <1>s DEF Starters
    <3> QED
      BY <1>4, <2>2, <3>1, ReadyStep
  <2>4. sess.op = o /\ sess'.op = o /\ o \notin excused
    BY <2>1, <2>2 DEF Operation
  <2>5. CASE cli[r].turns[n] = [sub |-> o, suppress |-> TRUE]
    <3>1. cli'[r].turns[n] = [sub |-> o, suppress |-> FALSE]
      BY <2>3, <2>5, Heard
    <3>2. WillEnd(r, sess.op)'
      BY <2>3, <2>4, <3>1 DEF WillEnd
    <3> QED
      BY <3>2
  <2>6. CASE cli[r].loop.pc = "finish" /\ cli[r].loop.sub = o
    <3>1. WillEnd(r, sess.op)'
      BY <2>3, <2>4, <2>6 DEF WillEnd
    <3> QED
      BY <3>1
  <2>7. Answering
    OBVIOUS
  <2> QED
    BY <2>1, <2>2, <2>3, <2>4, <2>5, <2>6, <2>7 DEF Answering
<1>5. ASSUME NEW p \in Launches, GoesOn(p) \/ LoopComplete(p) \/ GivesUp(p) \/ CliDies(p)
      PROVE  \E q \in Launches : WillEnd(q, sess.op)'
  <2> DEFINE o == sess.op
  <2>1. starter' = starter /\ sess'.op = o /\ excused \subseteq excused'
    BY <1>5, LoopsLeaveStarter, LoopsEndWork
  <2>2. PICK q \in Launches : WillEnd(q, o)
    BY <2>1 DEF Held
  <2>3. CASE q # p
    <3>1. SameWork(q) /\ cli'[q].st = cli[q].st
      BY <1>5, <2>3, LoopGoesOn, CompleteStep, LoopEnds, StopStep
        DEF GoesOn, GivesUp, Same, SameWork
    <3> QED
      BY <2>1, <2>2, <3>1, SameHolds
  \* an operation whose end is due would be over now
  <2>4. ~(LoopFinish(p) \/ LoopCleanup(p)) \/ cli[p].loop.sub # o
    <3> SUFFICES ASSUME LoopFinish(p) \/ LoopCleanup(p), cli[p].loop.sub = o PROVE FALSE
      OBVIOUS
    <3>1. sess' = [sess EXCEPT !.op = NoSub]
      BY DEF LoopFinish, LoopCleanup, Finish
    <3> QED
      BY <1>s, <3>1 DEF Sessions
  <2>5. CASE q = p /\ GoesOn(p)
    <3>1. /\ cli'[p].st = cli[p].st /\ cli'[p].turns = cli[p].turns
          /\ cli'[p].loop.pc \in {"recv", "bind", "fail"}
          /\ cli[p].loop.pc \notin {"cleanup", "end"}
          /\ cli[p].loop.pc = "finish" => LoopFinish(p)
      BY <2>5, LoopGoesOn DEF GoesOn
    <3>2. WillEnd(p, sess.op)'
      BY <2>1, <2>2, <2>4, <2>5, <3>1 DEF WillEnd
    <3> QED
      BY <3>2
  <2>6. CASE q = p /\ LoopComplete(p)
    <3> DEFINE n == Next1(p).n
               silent == cli[p].turns[n] = Fresh
                           \/ (cli[p].turns[n].suppress /\ ~Next1(p).ok)
    <3>1. /\ cli[p].loop.pc = "recv" /\ cli'[p].st = cli[p].st
          /\ \A k \in Numbers \ {n} : cli'[p].turns[k] = cli[p].turns[k]
          /\ silent => cli'[p].loop = cli[p].loop
          /\ ~silent => cli'[p].loop.pc = "finish" /\ cli'[p].loop.sub = cli[p].turns[n].sub
      BY <2>6, CompleteStep
    <3>2. CASE cli[p].st = "stopped"
      <4>1. cli'[p].loop.pc \in {"recv", "finish"}
        <5> HIDE DEF silent, n
        <5> QED
          BY <3>1
      <4> QED
        BY <2>6, <3>1, <3>2, <4>1 DEF WillEnd
    <3>3. CASE cli[p].st # "stopped"
      <4>1. PICK k \in Numbers : cli[p].turns[k] = [sub |-> o, suppress |-> FALSE]
        BY <2>2, <2>6, <3>1, <3>3 DEF WillEnd
      <4>2. cli[p].st = "up"
        BY <2>2, <2>6, <3>1, <3>3 DEF WillEnd
      <4>3. CASE k = n
        <5>1. ~silent /\ cli[p].turns[n].sub = o
          BY <2>1, <4>1, <4>3 DEF Fresh
        <5>2. cli'[p].loop.pc = "finish" /\ cli'[p].loop.sub = o
          BY <3>1, <5>1
        <5>3. WillEnd(p, sess.op)'
          BY <2>1, <5>2 DEF WillEnd
        <5> QED
          BY <5>3
      <4>4. CASE k # n
        <5>1. cli'[p].turns[k] = [sub |-> o, suppress |-> FALSE]
          BY <3>1, <4>1, <4>4
        <5>2. WillEnd(p, sess.op)'
          BY <2>1, <3>1, <4>2, <5>1 DEF WillEnd
        <5> QED
          BY <5>2
      <4> QED
        BY <4>3, <4>4
    <3> QED
      BY <3>2, <3>3
  <2>7. CASE q = p /\ GivesUp(p)
    <3>1. /\ cli[p].st = "stopped" /\ cli'[p].st = "stopped"
          /\ \/ cli'[p].loop.pc = "end" /\ LoopOver(p) /\ sess.op = NoSub
             \/ cli'[p].loop.pc = "end" /\ LoopCleanup(p)
             \/ cli'[p].loop.pc = "cleanup" /\ cli'[p].loop.sub = sess.op /\ LoopOver(p)
      BY <2>7, LoopEnds DEF GivesUp
    <3>2. ~LoopCleanup(p)
      BY <2>2, <2>4, <2>7, <3>1 DEF WillEnd, LoopCleanup
    <3>3. cli'[p].loop.pc = "cleanup" /\ cli'[p].loop.sub = o
      BY <2>1, <3>1, <3>2
    <3>4. WillEnd(p, sess.op)'
      BY <2>1, <3>3 DEF WillEnd
    <3> QED
      BY <3>4
  <2>8. CASE q = p /\ CliDies(p)
    <3>1. SameWork(p) /\ cli'[p].st = "stopped"
      BY <2>8, StopStep
    <3>2. cli[p].loop.pc \in {"cleanup", "end"} => cli[p].st = "stopped"
      BY DEF InOrder
    <3>3. cli[p].st = "up"
      BY <2>8 DEF CliDies, Running
    <3>4. WillEnd(p, sess.op)'
      BY <2>1, <2>2, <2>8, <3>1, <3>2, <3>3 DEF WillEnd, SameWork
    <3> QED
      BY <3>4
  <2> QED
    BY <1>5, <2>3, <2>5, <2>6, <2>7, <2>8
<1> QED
  BY <1>1, <1>2, <1>3, <1>4, <1>5, Cases

LEMMA StartsInductive == StartsInv /\ [StartsNext]_startsVars => StartsInv'
<1> SUFFICES ASSUME StartsInv, [StartsNext]_startsVars PROVE StartsInv'
  OBVIOUS
<1>1. CASE UNCHANGED startsVars
  <2>1. StartsTypeOK'
    BY <1>1 DEF StartsInv, StartsTypeOK, startsVars
  <2>2. Snapshots' /\ Resolved' /\ Operation'
    BY <1>1 DEF StartsInv, Snapshots, Resolved, Operation, startsVars
  <2>3. InOrder'
    <3>1. Started' = Started
      BY <1>1 DEF Started, startsVars
    <3> QED
      BY <1>1, <3>1 DEF StartsInv, InOrder, startsVars
  <2>4. Answering'
    BY <1>1 DEF StartsInv, Answering, startsVars
  <2>5. Held'
    <3>1. SUFFICES ASSUME starter.pc \in {"idle", "begin"}, sess.op # NoSub,
                          sess.op \notin excused
                   PROVE  \E p \in Launches : WillEnd(p, sess.op)'
      BY <1>1 DEF Held, startsVars
    <3>2. PICK p \in Launches : WillEnd(p, sess.op)
      BY <3>1 DEF StartsInv, Held
    <3>3. WillEnd(p, sess.op)'
      BY <1>1, <3>2 DEF WillEnd, startsVars
    <3> QED
      BY <3>3
  <2> QED
    BY <2>1, <2>2, <2>3, <2>4, <2>5 DEF StartsInv
<1>2. CASE StartsNext
  BY <1>2, Typed, SnapshotsKept, InOrderKept, ResolvedKept, OperationKept, AnsweringKept,
    HeldKept DEF StartsInv
<1> QED
  BY <1>1, <1>2

LEMMA StartsInitially == StartsInit => StartsInv
<1> SUFFICES ASSUME StartsInit PROVE StartsInv
  OBVIOUS
<1>1. /\ \A p \in Launches : cli[p] = NewCli
      /\ starter.pc = "idle" /\ sess.op = NoSub /\ serving = NoCli
  BY DEF StartsInit, Idle
<1>2. /\ NewCli.real = NewCli.applied /\ NewCli.st = "new" /\ NewCli.loop.pc = "recv"
  BY DEF NewCli
<1>3. Started = 1 .. 0 /\ 0 \in 0 .. MaxLaunches
  BY <1>1, <1>2, StartsAssumption DEF Started
<1>4. InOrder
  BY <1>1, <1>2, <1>3 DEF InOrder
<1> QED
  BY <1>1, <1>2, <1>4, InitTyped
    DEF StartsInv, Snapshots, Resolved, Operation, Answering, Held

\* Wherever a submission is active and no start is under way, some process will end
\* its operation.
THEOREM StartsRunningHasProcess == StartsSpec => []RunningHasProcess
<1>1. StartsInv => RunningHasProcess
  <2> SUFFICES ASSUME StartsInv, sess.op # NoSub, starter.pc = "idle",
                      sess.op \notin excused
               PROVE  \E p \in Launches :
                        \/ \E n \in Numbers : cli[p].turns[n].sub = sess.op
                        \/ cli[p].loop.pc = "finish" /\ cli[p].loop.sub = sess.op
                        \/ cli[p].st = "stopped" /\ cli[p].loop.pc # "end"
    BY DEF RunningHasProcess
  <2>1. PICK p \in Launches : WillEnd(p, sess.op)
    BY DEF StartsInv, Held
  <2> QED
    BY <2>1 DEF WillEnd, StartsInv, InOrder
<1> QED
  BY <1>1, StartsInitially, StartsInductive, PTL DEF StartsSpec

\* A prompt is only sent to a process that runs with the settings resolved for it.
THEOREM StartsPromptUsesSettings == StartsSpec => PromptUsesSettings
<1>1. ASSUME StartsInv, [StartsNext]_startsVars
      PROVE  [starter.pc = "send" /\ starter'.pc = "store"
                => cli[starter.p].real = starter.want]_startsVars
  <2> SUFFICES ASSUME StartsNext, starter.pc = "send", starter'.pc = "store"
               PROVE  cli[starter.p].real = starter.want
    BY <1>1 DEF startsVars
  <2>s. starter \in Starters /\ Idle.pc = "idle"
    BY <1>1 DEF StartsInv, StartsTypeOK, Idle
  <2>1. StartSend
    <3>1. starter' # starter
      OBVIOUS
    <3>2. ~\E p \in Launches : GoesOn(p) \/ LoopComplete(p) \/ GivesUp(p) \/ CliDies(p)
      BY <3>1, LoopsLeaveStarter
    <3>3. Quiet
      BY SMTT(30), <3>2, Cases
        DEF EnsureHot, EnsureReset, EnsureFails, EnsureLaunch, StartStore, StartReady
    <3>4. ~\E s \in Subs : Arrive(s)
      BY <3>1 DEF Arrive
    <3>5. /\ ~\E d \in Settings : Change(d)
          /\ ~Interrupt
          /\ ~\E p \in Launches : CliReady(p) \/ CliAnswers(p)
      BY <3>1 DEF Change, Interrupt, CliReady, CliAnswers
    <3>6. /\ ~StartWoken /\ ~StartBegin /\ ~EnsureReuse /\ ~EnsureBlocked /\ ~EnsureInit
          /\ ~StartBind /\ ~StartTimeout /\ ~StartError
      BY DEF StartWoken, StartBegin, EnsureReuse, EnsureBlocked, EnsureInit, StartBind,
             StartTimeout, StartError
    <3> QED
      BY <3>3, <3>4, <3>5, <3>6 DEF Quiet
  <2>2. cli[starter.p].st = "up"
    BY <2>s, <2>1 DEF StartSend, Running, Starters
  <2> QED
    BY <1>1, <2>2 DEF StartsInv, Resolved
<1> QED
  BY <1>1, StartsInitially, StartsInductive, PTL DEF StartsSpec, PromptUsesSettings
=============================================================================

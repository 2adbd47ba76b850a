------------------------ MODULE SubmissionQueue_proofs ------------------------
(***************************************************************************)
(* Inputs that carry their session key, in sessions that are not serial,   *)
(* are started once, one at a time, and are not stranded: for any number   *)
(* of sessions, inputs and failed or timed-out requests.                   *)
(***************************************************************************)
EXTENDS SubmissionQueue, FiniteSetTheorems, SequenceTheorems, TLAPS

\* The sessions do not share a lane, every input runs on the actor of its
\* session, and a turn is finished by its notification only.  Each of the three
\* is needed: without ~ChatInputs TLC finds StartedOnce violated, without ~Serial
\* or ~Reconciles OneTurnAtATime and NothingStranded.
Separate == ~Serial /\ ~ChatInputs /\ ~Reconciles
-----------------------------------------------------------------------------
(* The inductive invariant.                                                *)

StartPcs == {"check", "dequeue", "thread", "mark", "rpc", "activate", "end"}
WorkerPcs == {"idle", "load", "save", "queue", "begin"} \cup StartPcs
EventPcs == {"idle", "started", "bind", "find", "finalize", "next"}

Pcs == WorkerPcs \cup EventPcs

Operations == [sub : Subs, turn : Nat]
Records == [queue : Seq(Subs), ops : Seq(Operations), thread : BOOLEAN]

SessionTypes ==
  /\ sess \in [Sessions -> Records]
  /\ pending \in [Sessions -> Seq(Subs)]
  /\ starts \in [Sessions -> [running : BOOLEAN, pending : BOOLEAN]]
  /\ actor \in [Sessions -> Procs \cup {None}]
  /\ wake \in [Sessions -> Nat]

SubTypes ==
  /\ sub \in [Subs -> [exists : BOOLEAN, running : BOOLEAN,
                       finalized : BOOLEAN, turn : Nat]]
  /\ outcome \in [Subs -> Int]
  /\ created \in 0 .. MaxSubs /\ inputs \in 0 .. MaxSubs
  /\ failures \in 0 .. MaxFailures

Locals == [pc : Pcs, key : Sessions \cup {None}, snap : Records,
           sub : Subs \cup {NoSub}, turn : Nat, hold : Sessions \cup {None},
           start : BOOLEAN, blocked : BOOLEAN]
ProcTypes ==
  /\ loc \in [Procs -> Locals]
  /\ resp \in [Procs -> Int]

ServerTypes ==
  /\ inbox \subseteq [key : Sessions, sub : Subs, proc : Procs \cup {None}]
  /\ turns \in Seq([key : Sessions, sub : Subs, done : BOOLEAN])
  /\ wire \in Seq([kind : {"started", "completed"}, key : Sessions, turn : Nat])
  /\ \A t \in DOMAIN bindings : t \in DOMAIN turns /\ bindings[t] \in Subs

\* A process works on the session whose actor it holds.
Locks ==
  /\ At(Chat, "idle")
  /\ \A s \in Sessions :
       /\ loc[s].pc \in WorkerPcs
       /\ ~At(s, "idle") => loc[s].key = s /\ loc[s].hold = s /\ actor[s] = s
  /\ loc[Events].pc \in EventPcs
  /\ ~At(Events, "idle") => /\ loc[Events].key \in Sessions
                            /\ loc[Events].hold = loc[Events].key
                            /\ actor[loc[Events].key] = Events

\* The inputs received and not yet created are those being enqueued.
Enqueuing == {s \in Sessions : loc[s].pc \in {"load", "save", "queue"}}
Counted ==
  /\ IsFiniteSet(Enqueuing)
  /\ created + Cardinality(Enqueuing) = inputs

\* The guard of a start is up exactly while its process is in the start.
Guarded ==
  \A s \in Sessions : /\ starts[s].running <=> loc[s].pc \in StartPcs
                      /\ ~starts[s].pending

NoOp == <<>>
Op(i, t) == <<[sub |-> i, turn |-> t]>>

\* What the process of session s knows is what the store says.
Worker(s) ==
  LET w == loc[s] IN
    /\ At(s, "save") => w.snap = sess[s]
    /\ At(s, "queue") => ~w.blocked /\ (w.start <=> sess[s].ops = NoOp)
    /\ At(s, "dequeue") => sess[s].ops = NoOp
    /\ At(s, "thread") => sess[s].ops = NoOp /\ w.snap = sess[s] /\ w.sub \in Subs
    /\ w.pc \in {"mark", "rpc"} =>
         /\ sess[s].ops = Op(w.sub, NoTurn) /\ sess[s].thread
         /\ w.snap = sess[s] /\ pending[s] = <<w.sub>>
    /\ At(s, "activate") =>
         /\ sess[s].ops = Op(w.sub, NoTurn) /\ sess[s].thread
         /\ w.snap = [sess[s] EXCEPT !.ops = Op(w.sub, w.turn)]
Workers == \A s \in Sessions : Worker(s)

\* A session has one operation or none, and a pending binding only for an
\* operation without a turn.
SingleOk(s) ==
  IF sess[s].ops = NoOp THEN pending[s] = <<>>
  ELSE /\ Len(sess[s].ops) = 1
       /\ pending[s] = <<>> \/ /\ sess[s].ops[1].turn = NoTurn
                               /\ pending[s] = <<sess[s].ops[1].sub>>
Single == \A s \in Sessions : SingleOk(s)
-----------------------------------------------------------------------------
Queued(i, s) == \E k \in DOMAIN sess[s].queue : sess[s].queue[k] = i
Held(i, s) ==
  \/ At(s, "thread") /\ loc[s].sub = i
  \/ \E k \in DOMAIN sess[s].ops : sess[s].ops[k].sub = i

Alive(i) == /\ i \in 1 .. created /\ Exists(i) /\ ~sub[i].finalized
            /\ outcome[i] = NoTurn
Requested(i) == \E c \in inbox : c.sub = i
Run(i) == \E t \in DOMAIN turns : turns[t].sub = i

\* A submission is in one place.
Places ==
  /\ \A s \in Sessions : \A j, k \in DOMAIN sess[s].queue :
       sess[s].queue[j] = sess[s].queue[k] => j = k
  /\ \A s, r \in Sessions : \A i \in Subs :
       /\ Queued(i, s) => ~Held(i, r)
       /\ Queued(i, s) /\ Queued(i, r) => s = r
       /\ Held(i, s) /\ Held(i, r) => s = r
  /\ \A s \in Sessions : \A i \in Subs :
       /\ Queued(i, s) => Alive(i) /\ ~Requested(i) /\ ~Run(i)
       /\ Held(i, s) => Alive(i)
       /\ loc[s].pc \in {"thread", "mark"} /\ loc[s].sub = i =>
            ~Requested(i) /\ ~Run(i)
  /\ \A i \in Subs : i > created =>
       ~sub[i].finalized /\ outcome[i] = NoTurn /\ ~Run(i)

\* Every submission that was created is queued, being worked on or settled.
Accounted ==
  \A i \in 1 .. created :
    outcome[i] # NoTurn \/ \E s \in Sessions : Queued(i, s) \/ Held(i, s)
-----------------------------------------------------------------------------
\* A notification of turn t is on its way.
OnWire(t, kind) == \E k \in DOMAIN wire : wire[k].turn = t /\ wire[k].kind = kind

\* Turn t still has a notification to be sent, delivered or handled.
Unsettled(t) ==
  \/ ~turns[t].done
  \/ OnWire(t, "started") \/ OnWire(t, "completed")
  \/ /\ loc[Events].turn = t
     /\ loc[Events].pc \in {"started", "bind", "find", "finalize"}

OpenTurn(s) == \E t \in DOMAIN turns : turns[t].key = s /\ Unsettled(t)
Asked(s) == \E c \in inbox : c.key = s

\* turn/started of turn t has not been handled.
Unstarted(t) ==
  OnWire(t, "started") \/ (At(Events, "started") /\ loc[Events].turn = t)

\* The binding of an unsettled turn t of session s to submission i.
Unbound(s, i, t) ==
  /\ sess[s].ops = Op(i, NoTurn) /\ pending[s] = <<i>>
  /\ t \notin DOMAIN bindings /\ Unstarted(t)
  /\ ~At(s, "activate") /\ ~(At(Events, "bind") /\ loc[Events].key = s)
BindingNow(s, i, t) ==
  /\ sess[s].ops = Op(i, NoTurn) /\ pending[s] = <<>>
  /\ t \in DOMAIN bindings /\ bindings[t] = i
  /\ \/ At(s, "activate") /\ loc[s].sub = i /\ loc[s].turn = t
     \/ /\ At(Events, "bind") /\ loc[Events].sub = i /\ loc[Events].turn = t
        /\ loc[Events].key = s
        /\ loc[Events].snap = [sess[s] EXCEPT !.ops = Op(i, t)]
Bound(s, i, t) ==
  /\ sess[s].ops = Op(i, t) /\ pending[s] = <<>>
  /\ t \in DOMAIN bindings /\ bindings[t] = i
  /\ ~(At(Events, "bind") /\ loc[Events].key = s)

\* The operation of a session is its unsettled turn, and only one is unsettled.
TurnOk(t) ==
  LET s == turns[t].key  i == turns[t].sub IN
    /\ sess[s].thread /\ ~Asked(s) /\ ~At(s, "mark")
    /\ Unbound(s, i, t) \/ BindingNow(s, i, t) \/ Bound(s, i, t)
    /\ At(s, "rpc") => resp[s] = t
Turns ==
  /\ \A t \in DOMAIN turns : Unsettled(t) => TurnOk(t)
  /\ \A t, u \in DOMAIN turns :
       Unsettled(t) /\ Unsettled(u) /\ turns[t].key = turns[u].key => t = u
  /\ StartedOnce

\* A request in flight is the unbound operation of its session.
RequestOk(c) ==
  /\ sess[c.key].ops = Op(c.sub, NoTurn) /\ pending[c.key] = <<c.sub>>
  /\ sess[c.key].thread
  /\ IF c.proc = None THEN loc[c.key].pc \notin {"mark", "rpc", "activate"}
     ELSE c.proc = c.key /\ At(c.key, "rpc") /\ resp[c.key] = NoTurn
Requests ==
  /\ \A c \in inbox : RequestOk(c) /\ ~Run(c.sub)
  /\ \A c, d \in inbox : c.key = d.key => c = d

\* The answer to the request of the process of session s.
ResponseOk(s) ==
  At(s, "rpc") =>
    \/ resp[s] = NoTurn /\ Asked(s)
    \/ resp[s] = Failed /\ ~Asked(s) /\ ~OpenTurn(s) /\ ~Run(loc[s].sub)
    \/ /\ resp[s] \in DOMAIN turns /\ turns[resp[s]].key = s
       /\ turns[resp[s]].sub = loc[s].sub /\ Unsettled(resp[s])
Responses ==
  /\ \A p \in Procs : resp[p] # NoTurn => p \in Sessions /\ At(p, "rpc")
  /\ \A s \in Sessions : ResponseOk(s)

\* An operation has its request or its turn.
BackedOk(s) ==
  sess[s].ops # NoOp => \/ At(s, "mark") \/ Asked(s) \/ OpenTurn(s)
                        \/ At(s, "rpc") /\ resp[s] = Failed
Backed == \A s \in Sessions : BackedOk(s)

\* The completion of turn t is still to come.
Ending(t) == turns[t].done => OnWire(t, "completed")

\* Notifications of a turn are sent in order, once each,
WireOk ==
  \A k \in DOMAIN wire :
    /\ wire[k].turn \in DOMAIN turns
    /\ wire[k].key = turns[wire[k].turn].key
    /\ wire[k].kind = "completed" => turns[wire[k].turn].done
    /\ wire[k].kind = "started" => Ending(wire[k].turn)
    /\ \A l \in DOMAIN wire : k < l /\ wire[k].turn = wire[l].turn =>
         wire[k].kind = "started" /\ wire[l].kind = "completed"

\* and handled after those before them.
EventsOk ==
  ~At(Events, "idle") =>
       LET t == loc[Events].turn IN
         /\ t \in DOMAIN turns /\ turns[t].key = loc[Events].key
         /\ loc[Events].pc \in {"started", "bind"} =>
              ~OnWire(t, "started") /\ Ending(t)
         /\ loc[Events].pc \in {"find", "finalize", "next"} =>
              turns[t].done /\ ~OnWire(t, "started") /\ ~OnWire(t, "completed")
         /\ loc[Events].pc \in {"bind", "finalize", "next"} =>
              loc[Events].sub = turns[t].sub
         /\ At(Events, "next") => /\ sess[loc[Events].key].ops = NoOp
                                  /\ outcome[turns[t].sub] # NoTurn
Notifications == WireOk /\ EventsOk

\* The turn id of a submission is one of its turns.
OwnTurn ==
  \A i \in Subs : sub[i].turn # NoTurn =>
    sub[i].turn \in DOMAIN turns /\ turns[sub[i].turn].sub = i

\* A queue that could be started has a start coming.
WokenOk(s) ==
  sess[s].queue # <<>> /\ sess[s].ops = NoOp =>
    \/ wake[s] > 0
    \/ loc[s].pc \in {"queue", "begin", "check", "dequeue", "thread"}
    \/ At(Events, "next") /\ loc[Events].key = s
Woken == \A s \in Sessions : WokenOk(s)

QueueInv ==
  /\ SessionTypes /\ SubTypes /\ ProcTypes /\ ServerTypes
  /\ Locks /\ Counted /\ Guarded /\ Workers /\ Single
  /\ Places /\ Accounted
  /\ Turns /\ Requests /\ Responses /\ Backed /\ Notifications /\ OwnTurn
  /\ Woken
  /\ ~panicked
-----------------------------------------------------------------------------
(* Facts about the operators of the model.                                 *)

\* The entries of a sequence and their positions.
LEMMA Element ==
  ASSUME NEW S, NEW q \in Seq(S)
  PROVE  \A k \in DOMAIN q : q[k] \in S /\ k \in Nat \ {0} /\ k \in 1 .. Len(q)
  BY LenProperties, ElementOfSeq

\* Keeping no position of a sequence leaves the empty sequence.
LEMMA EntriesNone ==
  ASSUME NEW q
  PROVE  Entries(q, {}) = <<>>
<1>1. Cardinality({}) = 0 BY FS_EmptySet
<1>2. 1 .. Cardinality({}) = {} BY <1>1
<1> QED BY <1>2 DEF Entries

\* Keeping the only position of a sequence leaves the sequence.
LEMMA EntriesOne ==
  ASSUME NEW a
  PROVE  Entries(<<a>>, {1}) = <<a>>
<1> DEFINE nth(n) == CHOOSE k \in {1} : Cardinality({j \in {1} : j <= k}) = n
<1>1. Cardinality({1}) = 1 BY FS_Singleton
<1>2. {j \in {1} : j <= 1} = {1} OBVIOUS
<1>3. nth(1) = 1 BY <1>1, <1>2
<1>4. 1 .. Cardinality({1}) = {1} BY <1>1
<1>5. Entries(<<a>>, {1}) = [n \in {1} |-> <<a>>[nth(n)]] BY <1>4 DEF Entries
<1>6. [n \in {1} |-> <<a>>[nth(n)]] = [n \in {1} |-> a]
  <2> HIDE DEF nth
  <2>1. \A n \in {1} : <<a>>[nth(n)] = a BY <1>3
  <2> QED BY <2>1
<1>7. <<a>> = [n \in {1} |-> a] OBVIOUS
<1> QED BY <1>5, <1>6, <1>7

\* A list of one operation is not the empty one.
LEMMA OpSome == \A i, t : Op(i, t) # NoOp
  BY DEF Op, NoOp

\* A list of one operation tells which operation it is.
LEMMA OpSame == \A i, t, j, u : Op(i, t) = Op(j, u) => i = j /\ t = u
<1> SUFFICES ASSUME NEW i, NEW t, NEW j, NEW u, Op(i, t) = Op(j, u)
             PROVE  i = j /\ t = u
  OBVIOUS
<1>1. /\ Op(i, t)[1] = [sub |-> i, turn |-> t]
      /\ Op(j, u)[1] = [sub |-> j, turn |-> u]
  BY DEF Op
<1> QED BY <1>1

\* The submission of its operation is held by a session.
LEMMA HeldOp ==
  ASSUME NEW s, NEW i, NEW t, sess[s].ops = Op(i, t)
  PROVE  Held(i, s)
<1>1. 1 \in DOMAIN Op(i, t) /\ Op(i, t)[1].sub = i BY DEF Op
<1> QED BY <1>1 DEF Held

\* RemoveActiveOperation takes away the only operation if it is of submission i.
LEMMA RemoveOnly ==
  ASSUME NEW sr \in Records, NEW i, NEW t,
         sr.ops = NoOp \/ \E u : sr.ops = Op(i, u)
  PROVE  RemoveActiveOperation(sr, i, t) = [sr EXCEPT !.ops = NoOp]
<1> DEFINE K == {k \in DOMAIN sr.ops : ~Matches(sr.ops[k], i, t)}
<1>1. K = {}
  <2>1. CASE sr.ops = NoOp BY <2>1 DEF NoOp
  <2>2. ASSUME NEW u, sr.ops = Op(i, u) PROVE K = {} BY <2>2 DEF Op, Matches
  <2> QED BY <2>1, <2>2
<1>2. Entries(sr.ops, K) = NoOp BY <1>1, EntriesNone DEF NoOp
<1> QED BY <1>2 DEF RemoveActiveOperation

\* UpsertActiveOperation of a submission whose operation is the only one or
\* none makes it the only one.
LEMMA UpsertOnly ==
  ASSUME NEW sr \in Records, NEW i, NEW t \in Nat,
         sr.ops = NoOp \/ sr.ops = Op(i, NoTurn)
  PROVE  UpsertActiveOperation(sr, i, t) = [sr EXCEPT !.ops = Op(i, t)]
<1>1. CASE sr.ops = NoOp
  BY <1>1 DEF UpsertActiveOperation, NoOp, Op
<1>2. CASE sr.ops = Op(i, NoTurn)
  <2> DEFINE new == [k \in DOMAIN sr.ops |->
                       IF Matches(sr.ops[k], i, t)
                       THEN [sub |-> i, turn |-> IF t = NoTurn THEN sr.ops[k].turn
                                                 ELSE t]
                       ELSE sr.ops[k]]
  <2>1. DOMAIN sr.ops = {1} /\ sr.ops[1] = [sub |-> i, turn |-> NoTurn]
    BY <1>2 DEF Op
  <2>2. Matches(sr.ops[1], i, t) BY <2>1 DEF Matches
  <2>3. new = [k \in {1} |-> [sub |-> i, turn |-> t]] BY <1>2, <2>1, <2>2
  <2>4. new = Op(i, t)
    <3> DEFINE rec == [sub |-> i, turn |-> t]
    <3>1. \A r : [k \in {1} |-> r] = <<r>> OBVIOUS
    <3>2. Op(i, t) = <<rec>> BY DEF Op
    <3> HIDE DEF new, rec
    <3> QED BY <2>3, <3>1, <3>2 DEF rec
  <2> QED BY <2>1, <2>2, <2>4 DEF UpsertActiveOperation
<1> QED BY <1>1, <1>2

\* Clearing the only pending binding leaves none.
LEMMA WithoutOnly ==
  ASSUME NEW i, NEW q, q = <<>> \/ q = <<i>>
  PROVE  Without(q, i) = <<>>
<1>1. {k \in DOMAIN q : q[k] # i} = {} OBVIOUS
<1> QED BY <1>1, EntriesNone DEF Without

\* PendingSubmissionForThread finds the only pending submission if it is alive.
LEMMA LiveOnly ==
  ASSUME NEW s \in Sessions
  PROVE  /\ pending[s] = <<>> => LivePending(s) = <<>>
         /\ \A i : pending[s] = <<i>> /\ Exists(i) /\ ~sub[i].finalized
                  => LivePending(s) = <<i>>
<1> DEFINE K == {k \in DOMAIN pending[s] :
                   Exists(pending[s][k]) /\ ~sub[pending[s][k]].finalized}
<1>1. ASSUME pending[s] = <<>> PROVE LivePending(s) = <<>>
  <2>1. K = {} BY <1>1
  <2> QED BY <2>1, EntriesNone DEF LivePending
<1>2. ASSUME NEW i, pending[s] = <<i>>, Exists(i), ~sub[i].finalized
      PROVE  LivePending(s) = <<i>>
  <2>1. K = {1} BY <1>2
  <2> QED BY <1>2, <2>1, EntriesOne DEF LivePending
<1> QED BY <1>1, <1>2

\* In a lane of its own a session is next when it has a queue and no operation.
LEMMA NextOwn ==
  ASSUME ~Serial, NEW ss \in [Sessions -> Records], NEW s \in Sessions
  PROVE  NextQueuedSessionKey(ss, s) =
           IF ss[s].queue # <<>> /\ ss[s].ops = NoOp THEN s ELSE None
<1> DEFINE ready == {c \in {s} : ss[c].queue # <<>>}
           first(R) == CHOOSE c \in R : \A d \in R :
                         Head(ss[c].queue) <= Head(ss[d].queue)
<1>1. CASE ss[s].queue = <<>>
  BY <1>1 DEF NextQueuedSessionKey
<1>2. CASE ss[s].queue # <<>>
  <2>0. ss[s].queue \in Seq(Subs) BY DEF Records
  <2>1. Head(ss[s].queue) \in Subs BY <1>2, <2>0
  <2>2. Head(ss[s].queue) <= Head(ss[s].queue) BY <2>1 DEF Subs
  <2>3. first({s}) = s BY <2>2
  <2>4. ready = {s} BY <1>2
  <2>5. first(ready) = s BY <2>3, <2>4
  <2>6. ready # {} BY <2>4
  <2> HIDE DEF first
  <2>7. NextQueuedSessionKey(ss, s) =
          IF ready = {} \/ \E c \in {s} : HasInFlightSubmission(ss[c])
          THEN None ELSE first(ready)
    BY DEF NextQueuedSessionKey, first
  <2> QED BY <1>2, <2>5, <2>6, <2>7 DEF HasInFlightSubmission, NoOp
<1> QED BY <1>1, <1>2
-----------------------------------------------------------------------------
(* Steps.                                                                  *)

\* The processes are distinct.
LEMMA Processes ==
  /\ Chat \in Procs /\ Events \in Procs /\ Sessions \subseteq Procs
  /\ Chat \notin Sessions /\ Events \notin Sessions /\ None \notin Procs
  /\ Chat # Events /\ Procs = {Chat, Events} \cup Sessions
  BY QueueAssumption DEF QueueAssumption, Chat, Events, None, Procs

\* What turns, requests and notifications are made of.
LEMMA Entities ==
  ASSUME ServerTypes
  PROVE  /\ \A t \in DOMAIN turns :
              /\ t \in Nat \ {0} /\ turns[t].key \in Sessions
              /\ turns[t].sub \in Subs /\ turns[t].done \in BOOLEAN
         /\ \A c \in inbox :
              /\ c.key \in Sessions /\ c.sub \in Subs
              /\ c.proc \in Procs \cup {None}
         /\ \A k \in DOMAIN wire :
              /\ wire[k].kind \in {"started", "completed"}
              /\ wire[k].key \in Sessions /\ wire[k].turn \in Nat
<1> USE DEF ServerTypes
<1>1. ASSUME NEW t \in DOMAIN turns
      PROVE  /\ t \in Nat \ {0} /\ turns[t].key \in Sessions
             /\ turns[t].sub \in Subs /\ turns[t].done \in BOOLEAN
  <2>1. t \in 1 .. Len(turns) BY LenProperties
  <2>2. turns[t] \in [key : Sessions, sub : Subs, done : BOOLEAN]
    BY <2>1, ElementOfSeq
  <2> QED BY <2>1, <2>2
<1>2. ASSUME NEW c \in inbox
      PROVE  c.key \in Sessions /\ c.sub \in Subs /\ c.proc \in Procs \cup {None}
  OBVIOUS
<1>3. ASSUME NEW k \in DOMAIN wire
      PROVE  /\ wire[k].kind \in {"started", "completed"}
             /\ wire[k].key \in Sessions /\ wire[k].turn \in Nat
  <2>1. k \in 1 .. Len(wire) BY LenProperties
  <2>2. wire[k] \in [kind : {"started", "completed"}, key : Sessions, turn : Nat]
    BY <2>1, ElementOfSeq
  <2> QED BY <2>2
<1> QED BY <1>1, <1>2, <1>3

\* At these points the process of a session holds no submission.
Quiet == {"idle", "load", "save", "queue", "begin", "check", "dequeue", "end"}

\* At these points it holds no operation.
Calm == Quiet \cup {"thread"}

\* A step of the process of s between such points, which leaves the operations,
\* the tracker and the App Server alone, keeps what relates them.
LEMMA CalmStep ==
  ASSUME QueueInv, NEW s \in Sessions,
         loc' \in [Procs -> Locals], \A p \in Procs \ {s} : loc'[p] = loc[p],
         loc[s].pc \in Calm, loc'[s].pc \in Calm,
         \A r \in Sessions : /\ sess'[r].ops = sess[r].ops
                             /\ sess'[r].thread = sess[r].thread,
         ~At(Events, "idle") => sess'[loc[Events].key] = sess[loc[Events].key],
         \A i \in Subs : sub'[i].turn = sub[i].turn,
         UNCHANGED <<tracker, server, resp, outcome>>
  PROVE  /\ ServerTypes' /\ Single' /\ ProcTypes'
         /\ Turns' /\ Requests' /\ Responses' /\ Backed' /\ Notifications' /\ OwnTurn'
<1> USE Processes DEF QueueInv, tracker, server
<1>1. ServerTypes' /\ Single' /\ ProcTypes'
  BY DEF ServerTypes, Single, SingleOk, NoOp, ProcTypes
<1>2. \A r \in Sessions : loc'[r].pc \notin Calm \/ loc[r].pc \notin Calm
        => loc'[r] = loc[r]
  OBVIOUS
<1>3. loc'[Events] = loc[Events] OBVIOUS
<1>4. \A r \in Sessions : /\ loc'[r].pc = "mark" <=> loc[r].pc = "mark"
                          /\ loc'[r].pc = "rpc" <=> loc[r].pc = "rpc"
                          /\ loc'[r].pc = "activate" <=> loc[r].pc = "activate"
  BY <1>2 DEF Quiet, Calm
<1>8. \A t \in DOMAIN turns : /\ Unsettled(t)' <=> Unsettled(t)
                              /\ Unstarted(t)' <=> Unstarted(t)
  BY <1>3 DEF Unsettled, Unstarted, OnWire, At
<1>9. ASSUME NEW t \in DOMAIN turns, NEW r \in Sessions, NEW i \in Subs
      PROVE  /\ Unbound(r, i, t)' <=> Unbound(r, i, t)
             /\ BindingNow(r, i, t)' <=> BindingNow(r, i, t)
             /\ Bound(r, i, t)' <=> Bound(r, i, t)
  <2>1. Unbound(r, i, t)' <=> Unbound(r, i, t)
    BY <1>3, <1>4, <1>8 DEF Unbound, At
  <2>2. Bound(r, i, t)' <=> Bound(r, i, t)
    BY <1>3 DEF Bound, At
  <2>3. BindingNow(r, i, t)' <=> BindingNow(r, i, t)
    BY <1>2, <1>3, <1>4 DEF BindingNow, At, Calm, Quiet
  <2> QED BY <2>1, <2>2, <2>3
<1>10. Turns'
  BY <1>4, <1>8, <1>9, Entities DEF Turns, TurnOk, StartedOnce, Asked, At
<1>11. Requests'
  <2>1. \A i : Run(i)' <=> Run(i) BY DEF Run
  <2>2. \A c \in inbox : /\ At(c.key, "rpc")' <=> At(c.key, "rpc")
                         /\ loc'[c.key].pc \in {"mark", "rpc", "activate"}
                              <=> loc[c.key].pc \in {"mark", "rpc", "activate"}
    BY <1>4, Entities DEF At
  <2> QED BY <2>1, <2>2, Entities DEF Requests, RequestOk
<1>12. \A r \in Sessions : (OpenTurn(r)' <=> OpenTurn(r)) /\ (Asked(r)' <=> Asked(r))
  BY <1>8 DEF OpenTurn, Asked
<1>13. Responses'
  BY <1>2, <1>4, <1>8, <1>12 DEF Responses, ResponseOk, Run, At, Calm, Quiet
<1>14. Backed'
  BY <1>4, <1>12 DEF Backed, BackedOk, At
<1>15. Notifications'
  BY <1>3 DEF Notifications, WireOk, EventsOk, Ending, OnWire, At
<1>16. OwnTurn' BY DEF OwnTurn
<1> QED BY <1>1, <1>10, <1>11, <1>13, <1>14, <1>15, <1>16

\* A step of the process of s between quiet points that leaves the store alone.
LEMMA PlacesKept ==
  ASSUME QueueInv, NEW s \in Sessions,
         \A p \in Procs \ {s} : loc'[p] = loc[p],
         loc[s].pc \in Quiet, loc'[s].pc \in Quiet,
         UNCHANGED <<sess, sub, outcome, created, inbox, turns>>
  PROVE  Places' /\ Accounted'
<1> USE Processes DEF QueueInv
<1>1. \A r \in Sessions : \/ loc'[r] = loc[r]
                          \/ loc'[r].pc \in Quiet /\ loc[r].pc \in Quiet
  OBVIOUS
<1>2. \A i, r : r \in Sessions => (Queued(i, r)' <=> Queued(i, r))
                                /\ (Held(i, r)' <=> Held(i, r))
  BY <1>1 DEF Queued, Held, At, Quiet
<1>3. Places'
  BY <1>1, <1>2 DEF Places, Alive, Requested, Run, Exists, Quiet
<1> QED BY <1>2, <1>3 DEF Accounted

\* A step of the process of s that takes, keeps or releases the actor of s.
LEMMA WorkerLocks ==
  ASSUME QueueInv, NEW s \in Sessions,
         \A p \in Procs \ {s} : loc'[p] = loc[p],
         \A r \in Sessions \ {s} : actor'[r] = actor[r],
         actor[s] \in {None, s},
         \/ loc'[s].pc = "idle"
         \/ /\ loc'[s].pc \in WorkerPcs /\ loc'[s].key = s /\ loc'[s].hold = s
            /\ actor'[s] = s
  PROVE  Locks'
<1> USE Processes DEF QueueInv, Locks
<1>1. loc'[Chat] = loc[Chat] /\ loc'[Events] = loc[Events] OBVIOUS
<1>2. loc'[s].pc \in WorkerPcs BY DEF WorkerPcs
<1>3. \A r \in Sessions \ {s} : loc'[r] = loc[r] OBVIOUS
<1>4. ~At(Events, "idle") => loc[Events].key # s OBVIOUS
<1> QED BY <1>1, <1>2, <1>3, <1>4 DEF At

\* A step of the process of s that is, before and after it, enqueuing or not.
LEMMA CountedKept ==
  ASSUME QueueInv, NEW s \in Sessions,
         \A p \in Procs \ {s} : loc'[p] = loc[p],
         loc[s].pc \in {"load", "save", "queue"}
           <=> loc'[s].pc \in {"load", "save", "queue"},
         UNCHANGED <<created, inputs>>
  PROVE  Counted'
<1>1. Enqueuing' = Enqueuing BY Processes DEF Enqueuing
<1> QED BY <1>1 DEF QueueInv, Counted

\* A busy process of a session works on that session.
LEMMA OwnKey ==
  ASSUME QueueInv, NEW s \in Sessions, ~At(s, "idle")
  PROVE  loc[s].key = s /\ loc[s].hold = s /\ actor[s] = s /\ s \in Procs
  BY Processes DEF QueueInv, Locks

\* The other conjuncts of Workers and Guarded when only s is concerned.
LEMMA OtherWorkers ==
  ASSUME QueueInv, NEW s \in Sessions,
         \A p \in Procs \ {s} : loc'[p] = loc[p],
         \A r \in Sessions \ {s} : /\ sess'[r] = sess[r] /\ starts'[r] = starts[r]
                                   /\ pending'[r] = pending[r],
         Worker(s)', starts'[s].running <=> loc'[s].pc \in StartPcs,
         ~starts'[s].pending
  PROVE  Workers' /\ Guarded'
<1> USE Processes DEF QueueInv
<1>1. \A r \in Sessions \ {s} : loc'[r] = loc[r] OBVIOUS
<1>2. Guarded' BY <1>1 DEF Guarded
<1>3. \A r \in Sessions \ {s} : Worker(r)'
  BY <1>1 DEF Workers, Worker, At
<1> QED BY <1>2, <1>3 DEF Workers

\* A step of the process of s between quiet points that may take or release the
\* actor of s, the guard of its start and the starts posted for it.
LEMMA QuietWorker ==
  ASSUME QueueInv, NEW s \in Sessions, NEW w \in Locals,
         loc' = [loc EXCEPT ![s] = w], loc[s].pc \in Quiet, w.pc \in Quiet,
         w.pc = "idle" \/ (w.key = s /\ w.hold = s /\ actor'[s] = s),
         actor' \in [Sessions -> Procs \cup {None}], actor[s] \in {None, s},
         starts' \in [Sessions -> [running : BOOLEAN, pending : BOOLEAN]],
         wake' \in [Sessions -> Nat],
         \A r \in Sessions \ {s} : /\ actor'[r] = actor[r] /\ wake'[r] = wake[r]
                                   /\ starts'[r] = starts[r],
         starts'[s].running <=> w.pc \in StartPcs, ~starts'[s].pending,
         UNCHANGED <<store, tracker, server, resp, outcome, created, failures,
                     panicked>>,
         Counted', inputs' \in 0 .. MaxSubs, Worker(s)',
         sess[s].queue # <<>> /\ sess[s].ops = NoOp =>
           \/ wake'[s] > 0 \/ w.pc \in {"queue", "begin", "check", "dequeue"}
           \/ At(Events, "next") /\ loc[Events].key = s
  PROVE  QueueInv'
<1> USE Processes DEF QueueInv
<1>0. /\ loc \in [Procs -> Locals] /\ s \in Procs
      /\ UNCHANGED <<sess, sub, tracker, server, resp, outcome, created,
                     failures, panicked>>
  BY DEF ProcTypes, store
<1>1. loc' \in [Procs -> Locals] /\ loc'[s] = w BY <1>0
<1>2. \A p \in Procs \ {s} : loc'[p] = loc[p] BY <1>0
<1>3. /\ ServerTypes' /\ Single' /\ ProcTypes'
      /\ Turns' /\ Requests' /\ Responses' /\ Backed' /\ Notifications' /\ OwnTurn'
  BY <1>0, <1>1, <1>2, CalmStep DEF Calm
<1>10. Places' /\ Accounted'
  BY <1>0, <1>1, <1>2, PlacesKept DEF server
<1>4. w.pc \in WorkerPcs BY DEF Quiet, WorkerPcs, StartPcs
<1>5. Locks' BY <1>1, <1>2, <1>4, WorkerLocks
<1>6. Workers' /\ Guarded'
  BY <1>0, <1>1, <1>2, OtherWorkers DEF tracker
<1>7. Woken'
  <2> SUFFICES ASSUME NEW r \in Sessions, sess[r].queue # <<>>, sess[r].ops = NoOp
               PROVE  \/ wake'[r] > 0
                      \/ loc'[r].pc \in {"queue", "begin", "check", "dequeue", "thread"}
                      \/ At(Events, "next")' /\ loc'[Events].key = r
    BY <1>0 DEF Woken, WokenOk, NoOp
  <2>1. loc'[Events] = loc[Events] BY <1>2
  <2>2. CASE r = s BY <1>1, <2>1, <2>2 DEF At
  <2>3. CASE r # s BY <1>2, <2>1, <2>3 DEF Woken, WokenOk, At
  <2> QED BY <2>2, <2>3
<1>8. SessionTypes' BY <1>0 DEF SessionTypes, tracker
<1>9. SubTypes' BY <1>0 DEF SubTypes
<1> QED BY <1>0, <1>3, <1>5, <1>6, <1>7, <1>8, <1>9, <1>10

\* loadOrCreateSession
LEMMA LoadStep ==
  ASSUME QueueInv, NEW s \in Sessions, EnqueueLoad(s)
  PROVE  QueueInv'
<1> USE Processes DEF QueueInv
<1> DEFINE w == [loc[s] EXCEPT !.snap = sess[s], !.pc = "save"]
<1>0. /\ loc[s].key = s /\ loc[s].hold = s /\ actor[s] = s /\ loc[s].pc = "load"
      /\ loc \in [Procs -> Locals] /\ loc[s] \in Locals /\ sess[s] \in Records
  BY OwnKey DEF EnqueueLoad, At, ProcTypes, SessionTypes
<1>1. loc' = [loc EXCEPT ![s] = w] BY <1>0 DEF EnqueueLoad
<1>2. /\ w \in Locals /\ w.pc = "save" /\ w.key = s /\ w.hold = s
      /\ w.snap = sess[s]
  BY <1>0 DEF Locals, Pcs, WorkerPcs, StartPcs, EventPcs
<1>3. UNCHANGED <<store, starts, actor, wake, tracker, inputs, created,
                  failures, server, resp, outcome, panicked>>
  BY DEF EnqueueLoad
<1> HIDE DEF w
<1>4. Worker(s)' BY <1>0, <1>1, <1>2, <1>3 DEF Worker, At, store
<1>5. Counted' BY <1>0, <1>1, <1>2, <1>3, CountedKept
<1> QED
  BY <1>0, <1>1, <1>2, <1>3, <1>4, <1>5, QuietWorker
     DEF Quiet, SessionTypes, SubTypes, Guarded, StartPcs, Woken, WokenOk, At

\* SaveSession: the snapshot is what the store holds, as nobody else writes it
LEMMA SaveStep ==
  ASSUME QueueInv, Separate, NEW s \in Sessions, EnqueueSave(s)
  PROVE  QueueInv'
<1> USE Processes DEF QueueInv
<1> DEFINE w == [loc[s] EXCEPT !.pc = "queue", !.blocked = FALSE,
                               !.start = (sess[s].ops = NoOp)]
<1>0. /\ loc[s].key = s /\ loc[s].hold = s /\ actor[s] = s /\ loc[s].pc = "save"
      /\ loc \in [Procs -> Locals] /\ loc[s] \in Locals /\ sess[s] \in Records
      /\ loc[s].snap = sess[s]
  BY OwnKey DEF EnqueueSave, At, ProcTypes, SessionTypes, Workers, Worker
<1>1. loc' = [loc EXCEPT ![s] = w]
  BY <1>0 DEF EnqueueSave, HasSerialBindingWorkAhead, HasInFlightSubmission,
              Separate, NoOp
<1>2. /\ w \in Locals /\ w.pc = "queue" /\ w.key = s /\ w.hold = s
      /\ w.start = (sess[s].ops = NoOp) /\ ~w.blocked
  BY <1>0 DEF Locals, Pcs, WorkerPcs, StartPcs, EventPcs
<1>3. UNCHANGED <<store, starts, actor, wake, tracker, inputs, created,
                  failures, server, resp, outcome, panicked>>
  BY <1>0 DEF EnqueueSave, SaveSession, store, SessionTypes
<1> HIDE DEF w
<1>4. Worker(s)' BY <1>0, <1>1, <1>2, <1>3 DEF Worker, At, store
<1>5. Counted' BY <1>0, <1>1, <1>2, <1>3, CountedKept
<1> QED
  BY <1>0, <1>1, <1>2, <1>3, <1>4, <1>5, QuietWorker
     DEF Quiet, SessionTypes, SubTypes, Guarded, StartPcs, Woken, WokenOk, At

\* TryBegin: the guard is down, for it is up only during a start
LEMMA BeginStep ==
  ASSUME QueueInv, NEW s \in Sessions, StartBegin(s)
  PROVE  QueueInv'
<1> USE Processes DEF QueueInv
<1> DEFINE w == [loc[s] EXCEPT !.pc = "check"]
<1>0. /\ loc[s].key = s /\ loc[s].hold = s /\ actor[s] = s /\ loc[s].pc = "begin"
      /\ loc \in [Procs -> Locals] /\ loc[s] \in Locals
      /\ ~starts[s].running /\ ~starts[s].pending
      /\ starts \in [Sessions -> [running : BOOLEAN, pending : BOOLEAN]]
  BY OwnKey DEF StartBegin, At, ProcTypes, SessionTypes, Guarded, StartPcs
<1>1. /\ loc' = [loc EXCEPT ![s] = w] /\ actor' = actor
      /\ starts' = [starts EXCEPT ![s].running = TRUE]
  BY <1>0 DEF StartBegin, Goto
<1>2. w \in Locals /\ w.pc = "check" /\ w.key = s /\ w.hold = s
  BY <1>0 DEF Locals, Pcs, WorkerPcs, StartPcs, EventPcs
<1>3. UNCHANGED <<store, wake, tracker, inputs, created, failures, server, resp,
                  outcome, panicked>>
  BY DEF StartBegin
<1> HIDE DEF w
<1>4. Worker(s)' BY <1>0, <1>1, <1>2, <1>3 DEF Worker, At, store
<1>5. Counted' BY <1>0, <1>1, <1>2, <1>3, CountedKept
<1>6. /\ starts' \in [Sessions -> [running : BOOLEAN, pending : BOOLEAN]]
      /\ starts'[s].running /\ ~starts'[s].pending
      /\ \A r \in Sessions \ {s} : starts'[r] = starts[r]
  BY <1>0, <1>1
<1> QED
  BY <1>0, <1>1, <1>2, <1>3, <1>4, <1>5, <1>6, QuietWorker
     DEF Quiet, SessionTypes, SubTypes, StartPcs

\* A start goes on if no operation is in flight.
LEMMA CheckStep ==
  ASSUME QueueInv, Separate, NEW s \in Sessions, StartCheck(s)
  PROVE  QueueInv'
<1> USE Processes DEF QueueInv
<1> DEFINE w == [loc[s] EXCEPT !.pc = IF sess[s].ops # NoOp THEN "end"
                                      ELSE "dequeue"]
<1>0. /\ loc[s].key = s /\ loc[s].hold = s /\ actor[s] = s /\ loc[s].pc = "check"
      /\ loc \in [Procs -> Locals] /\ loc[s] \in Locals
  BY OwnKey DEF StartCheck, At, ProcTypes
<1>1. loc' = [loc EXCEPT ![s] = w]
  BY <1>0 DEF StartCheck, Goto, HasSerialBindingWorkAhead,
              HasInFlightSubmission, Separate, NoOp
<1>2. /\ w \in Locals /\ w.key = s /\ w.hold = s
      /\ w.pc = IF sess[s].ops # NoOp THEN "end" ELSE "dequeue"
  BY <1>0 DEF Locals, Pcs, WorkerPcs, StartPcs, EventPcs
<1>3. UNCHANGED <<store, starts, actor, wake, tracker, inputs, created,
                  failures, server, resp, outcome, panicked>>
  BY DEF StartCheck
<1> HIDE DEF w
<1>4. Worker(s)' BY <1>0, <1>1, <1>2, <1>3 DEF Worker, At, store, NoOp
<1>5. Counted' BY <1>0, <1>1, <1>2, <1>3, CountedKept
<1> QED
  BY <1>0, <1>1, <1>2, <1>3, <1>4, <1>5, QuietWorker
     DEF Quiet, SessionTypes, SubTypes, Guarded, StartPcs, Woken, WokenOk, At

\* FinishStart: the guard comes down with the end of the start
LEMMA EndStep ==
  ASSUME QueueInv, NEW s \in Sessions, StartEnd(s)
  PROVE  QueueInv'
<1> USE Processes DEF QueueInv
<1>0. /\ loc[s].key = s /\ loc[s].hold = s /\ actor[s] = s /\ loc[s].pc = "end"
      /\ loc \in [Procs -> Locals] /\ actor \in [Sessions -> Procs \cup {None}]
      /\ ~starts[s].pending
      /\ starts \in [Sessions -> [running : BOOLEAN, pending : BOOLEAN]]
  BY OwnKey DEF StartEnd, At, ProcTypes, SessionTypes, Guarded
<1>1. /\ loc' = [loc EXCEPT ![s] = Idle] /\ actor' = [actor EXCEPT ![s] = None]
      /\ starts' = [starts EXCEPT ![s] = [running |-> FALSE, pending |-> FALSE]]
      /\ wake' = wake
  BY <1>0 DEF StartEnd, Return
<1>2. /\ Idle \in Locals /\ Idle.pc = "idle"
  <2>1. EmptySession \in Records BY DEF EmptySession, Records
  <2> QED BY <2>1 DEF Idle, Locals, Pcs, WorkerPcs, NoSub, NoTurn
<1>3. UNCHANGED <<store, tracker, inputs, created, failures, server, resp,
                  outcome, panicked>>
  BY DEF StartEnd
<1>4. Worker(s)' BY <1>0, <1>1, <1>2 DEF Worker, At
<1>5. Counted' BY <1>0, <1>1, <1>2, <1>3, CountedKept
<1>6. /\ starts' \in [Sessions -> [running : BOOLEAN, pending : BOOLEAN]]
      /\ ~starts'[s].running /\ ~starts'[s].pending
      /\ \A r \in Sessions \ {s} : starts'[r] = starts[r]
  BY <1>0, <1>1
<1>7. /\ actor' \in [Sessions -> Procs \cup {None}]
      /\ \A r \in Sessions \ {s} : actor'[r] = actor[r]
  BY <1>0, <1>1
<1>8. sess[s].queue # <<>> /\ sess[s].ops = NoOp =>
         \/ wake[s] > 0
         \/ At(Events, "next") /\ loc[Events].key = s
  BY <1>0 DEF Woken, WokenOk
<1> QED
  BY <1>0, <1>1, <1>2, <1>3, <1>4, <1>5, <1>6, <1>7, <1>8, QuietWorker
     DEF Quiet, SessionTypes, SubTypes, StartPcs

\* The posted start of session s begins the start of s itself, if its queue can
\* be started.
LEMMA WakeStep ==
  ASSUME QueueInv, Separate, NEW s \in Sessions, StartNextSubmissionAsync(s)
  PROVE  QueueInv'
<1> USE Processes DEF QueueInv
<1> DEFINE ready == sess[s].queue # <<>> /\ sess[s].ops = NoOp
           begin == [loc[s] EXCEPT !.pc = "begin", !.key = s, !.hold = s]
           w == IF ready THEN begin ELSE loc[s]
<1>0. /\ loc[s].pc = "idle" /\ actor[s] = None /\ wake[s] > 0
      /\ loc \in [Procs -> Locals] /\ loc[s] \in Locals
      /\ actor \in [Sessions -> Procs \cup {None}]
      /\ sess \in [Sessions -> Records]
      /\ wake \in [Sessions -> Nat] /\ starts[s].running = FALSE
  BY DEF StartNextSubmissionAsync, At, Acquire, ProcTypes, SessionTypes, Guarded,
         StartPcs
<1>1. NextQueuedSessionKey(sess, s) = IF ready THEN s ELSE None
  BY <1>0, NextOwn DEF Separate
<1>2. begin \in Locals /\ begin.pc = "begin" /\ begin.key = s /\ begin.hold = s
  BY <1>0 DEF Locals, Pcs, WorkerPcs, StartPcs, EventPcs
<1>3. /\ loc' = [loc EXCEPT ![s] = w]
      /\ actor' = IF ready THEN [actor EXCEPT ![s] = s] ELSE actor
      /\ wake' = [wake EXCEPT ![s] = @ - 1]
  <2>1. CASE ready
    <3>1. s # None OBVIOUS
    <3> QED BY <1>0, <1>1, <2>1, <3>1 DEF StartNextSubmissionAsync, Acquire
  <2>2. CASE ~ready
    BY <1>0, <1>1, <2>2 DEF StartNextSubmissionAsync, Acquire
  <2> QED BY <2>1, <2>2
<1>4. UNCHANGED <<store, starts, tracker, inputs, created, failures, server,
                  resp, outcome, panicked>>
  BY DEF StartNextSubmissionAsync
<1> HIDE DEF begin
<1>5. /\ w \in Locals /\ w.pc = (IF ready THEN "begin" ELSE "idle")
      /\ ready => w.key = s /\ w.hold = s
  BY <1>0, <1>2
<1> HIDE DEF w
<1>6. /\ actor' \in [Sessions -> Procs \cup {None}]
      /\ ready => actor'[s] = s
      /\ \A r \in Sessions \ {s} : actor'[r] = actor[r]
      /\ wake' \in [Sessions -> Nat]
      /\ \A r \in Sessions \ {s} : wake'[r] = wake[r]
  BY <1>0, <1>3
<1>7. Worker(s)' BY <1>0, <1>3, <1>5 DEF Worker, At
<1>8. Counted' BY <1>0, <1>3, <1>4, <1>5, CountedKept
<1> HIDE DEF ready
<1>9. sess[s].queue # <<>> /\ sess[s].ops = NoOp => ready BY DEF ready
<1>10. /\ w.pc \in Quiet /\ loc[s].pc \in Quiet
       /\ starts'[s].running <=> w.pc \in StartPcs
  BY <1>0, <1>4, <1>5 DEF Quiet, StartPcs
<1>11. /\ ~starts'[s].pending /\ inputs' \in 0 .. MaxSubs
       /\ starts' \in [Sessions -> [running : BOOLEAN, pending : BOOLEAN]]
  BY <1>4 DEF Guarded, SubTypes, SessionTypes
<1> QED
  BY <1>0, <1>3, <1>4, <1>5, <1>6, <1>7, <1>8, <1>9, <1>10, <1>11, QuietWorker

\* An input that carries its session key
LEMMA ReceiveStep ==
  ASSUME QueueInv, NEW s \in Sessions, ReceiveSessionInput(s)
  PROVE  QueueInv'
<1> USE Processes DEF QueueInv
<1> DEFINE w == [loc[s] EXCEPT !.pc = "load", !.key = s, !.hold = s]
<1>0. /\ loc[s].pc = "idle" /\ actor[s] = None /\ inputs < MaxSubs
      /\ loc \in [Procs -> Locals] /\ loc[s] \in Locals
      /\ actor \in [Sessions -> Procs \cup {None}]
      /\ starts[s].running = FALSE /\ inputs \in 0 .. MaxSubs
      /\ created \in 0 .. MaxSubs /\ MaxSubs \in Nat
  BY QueueAssumption DEF ReceiveSessionInput, At, Acquire, ProcTypes,
     SessionTypes, Guarded, StartPcs, SubTypes, QueueAssumption
<1>1. /\ loc' = [loc EXCEPT ![s] = w] /\ actor' = [actor EXCEPT ![s] = s]
      /\ inputs' = inputs + 1
  BY DEF ReceiveSessionInput, Acquire
<1>2. w \in Locals /\ w.pc = "load" /\ w.key = s /\ w.hold = s
  BY <1>0 DEF Locals, Pcs, WorkerPcs, StartPcs, EventPcs
<1>3. UNCHANGED <<store, starts, wake, tracker, created, failures, server, resp,
                  outcome, panicked>>
  BY DEF ReceiveSessionInput
<1> HIDE DEF w
<1>4. Counted'
  <2>1. s \notin Enqueuing BY <1>0 DEF Enqueuing
  <2>2. Enqueuing' = Enqueuing \cup {s} BY <1>0, <1>1, <1>2 DEF Enqueuing
  <2>3. IsFiniteSet(Enqueuing) /\ created + Cardinality(Enqueuing) = inputs
    BY DEF Counted
  <2>4. Cardinality(Enqueuing) \in Nat BY <2>3, FS_CardinalityType
  <2>5. /\ IsFiniteSet(Enqueuing')
        /\ Cardinality(Enqueuing') = Cardinality(Enqueuing) + 1
    BY <2>1, <2>2, <2>3, FS_AddElement
  <2> QED BY <1>0, <1>1, <1>3, <2>3, <2>4, <2>5 DEF Counted
<1>5. Worker(s)' BY <1>0, <1>1, <1>2 DEF Worker, At
<1>6. /\ actor' \in [Sessions -> Procs \cup {None}] /\ actor'[s] = s
      /\ \A r \in Sessions \ {s} : actor'[r] = actor[r]
      /\ inputs' \in 0 .. MaxSubs
  BY <1>0, <1>1
<1> QED
  BY <1>0, <1>1, <1>2, <1>3, <1>4, <1>5, <1>6, QuietWorker
     DEF Quiet, SessionTypes, Guarded, StartPcs, Woken, WokenOk, At

\* What is in a sequence with an element more, or without its head.
LEMMA QueuedAppend ==
  ASSUME NEW q \in Seq(Subs), NEW i \in Subs
  PROVE  \A j : (\E k \in DOMAIN Append(q, i) : Append(q, i)[k] = j)
                  <=> (\E k \in DOMAIN q : q[k] = j) \/ j = i
<1>1. /\ Append(q, i) \in Seq(Subs) /\ Len(Append(q, i)) = Len(q) + 1
      /\ Append(q, i)[Len(q) + 1] = i
      /\ \A k \in 1 .. Len(q) : Append(q, i)[k] = q[k]
      /\ DOMAIN Append(q, i) = 1 .. Len(q) + 1 /\ DOMAIN q = 1 .. Len(q)
      /\ Len(q) \in Nat
  BY AppendProperties, LenProperties
<1> QED BY <1>1

\* CreateSubmission, QueueSubmission: a new submission joins the queue of s
LEMMA QueueStep ==
  ASSUME QueueInv, NEW s \in Sessions, EnqueueQueue(s)
  PROVE  QueueInv'
<1> USE Processes DEF QueueInv
<1> DEFINE begin == [loc[s] EXCEPT !.pc = "begin"]
           w == IF loc[s].start THEN begin ELSE Idle
<1>0. /\ loc[s].key = s /\ loc[s].hold = s /\ actor[s] = s /\ loc[s].pc = "queue"
      /\ loc \in [Procs -> Locals] /\ loc[s] \in Locals
      /\ actor \in [Sessions -> Procs \cup {None}]
      /\ sess \in [Sessions -> Records] /\ ~loc[s].blocked
      /\ loc[s].start <=> sess[s].ops = NoOp
      /\ starts[s].running = FALSE /\ s \in Procs
  BY OwnKey DEF EnqueueQueue, At, ProcTypes, SessionTypes, Workers, Worker,
                Guarded, StartPcs
<1>a. /\ created \in Nat /\ created + 1 \in Subs
      /\ s \in Enqueuing /\ IsFiniteSet(Enqueuing)
      /\ created + Cardinality(Enqueuing) = inputs
      /\ IsFiniteSet(Enqueuing \ {s})
      /\ Cardinality(Enqueuing \ {s}) = Cardinality(Enqueuing) - 1
      /\ Cardinality(Enqueuing) \in Nat
  <2>1. s \in Enqueuing /\ IsFiniteSet(Enqueuing)
        /\ created + Cardinality(Enqueuing) = inputs
    BY <1>0 DEF Enqueuing, Counted
  <2>2. /\ Cardinality(Enqueuing) \in Nat /\ IsFiniteSet(Enqueuing \ {s})
        /\ Cardinality(Enqueuing \ {s}) = Cardinality(Enqueuing) - 1
        /\ Cardinality(Enqueuing \ {s}) \in Nat
    BY <2>1, FS_CardinalityType, FS_RemoveElement
  <2>3. /\ created \in 0 .. MaxSubs /\ inputs \in 0 .. MaxSubs /\ MaxSubs \in Nat
    BY QueueAssumption DEF SubTypes, QueueAssumption
  <2> QED BY <2>1, <2>2, <2>3 DEF Subs
<1> PICK i \in Subs : i = created + 1 BY <1>a
<1>1. /\ created \in Nat /\ i \in Subs /\ i = created + 1 /\ i \in 0 .. MaxSubs
  BY <1>a DEF Subs
<1>2. /\ loc' = [loc EXCEPT ![s] = w]
      /\ actor' = IF loc[s].start THEN actor ELSE [actor EXCEPT ![s] = None]
      /\ wake' = wake /\ created' = i
      /\ sub' = [sub EXCEPT ![i].exists = TRUE]
      /\ sess' = [sess EXCEPT ![s].queue = Append(@, i)]
  BY <1>0 DEF EnqueueQueue, Goto, Return
<1>3. UNCHANGED <<starts, tracker, inputs, failures, server, resp, outcome,
                  panicked>>
  BY DEF EnqueueQueue
<1>4. Idle \in Locals /\ Idle.pc = "idle"
  <2>1. EmptySession \in Records BY DEF EmptySession, Records
  <2> QED BY <2>1 DEF Idle, Locals, Pcs, WorkerPcs, NoSub, NoTurn
<1>5. /\ begin \in Locals /\ begin.pc = "begin" /\ begin.key = s
      /\ begin.hold = s
  BY <1>0 DEF Locals, Pcs, WorkerPcs, StartPcs, EventPcs
<1> HIDE DEF begin
<1>6. /\ w \in Locals /\ w.pc = IF loc[s].start THEN "begin" ELSE "idle"
      /\ loc[s].start => w.key = s /\ w.hold = s
  BY <1>4, <1>5
<1> HIDE DEF w
<1>7. /\ loc' \in [Procs -> Locals] /\ loc'[s] = w
      /\ \A p \in Procs \ {s} : loc'[p] = loc[p]
  BY <1>0, <1>2, <1>6
<1>8. /\ sess' \in [Sessions -> Records]
      /\ \A r \in Sessions \ {s} : sess'[r] = sess[r]
      /\ sess'[s] = [sess[s] EXCEPT !.queue = Append(@, i)]
      /\ sess'[s].ops = sess[s].ops /\ sess'[s].thread = sess[s].thread
      /\ sess'[s].queue = Append(sess[s].queue, i)
      /\ sess[s].queue \in Seq(Subs)
  <2>1. sess[s] \in Records /\ sess[s].queue \in Seq(Subs) BY <1>0 DEF Records
  <2>2. Append(sess[s].queue, i) \in Seq(Subs) BY <1>1, <2>1
  <2>3. [sess[s] EXCEPT !.queue = Append(@, i)] \in Records
    BY <2>1, <2>2 DEF Records
  <2> QED BY <1>0, <1>2, <2>1, <2>3
<1>9. /\ ServerTypes' /\ Single' /\ ProcTypes'
      /\ Turns' /\ Requests' /\ Responses' /\ Backed' /\ Notifications' /\ OwnTurn'
  <2>1. \A r \in Sessions : sess'[r].ops = sess[r].ops
                            /\ sess'[r].thread = sess[r].thread
    BY <1>8
  <2>2. ~At(Events, "idle") => sess'[loc[Events].key] = sess[loc[Events].key]
    BY <1>0, <1>8 DEF Locks
  <2>3. loc[s].pc \in Calm /\ loc'[s].pc \in Calm
    BY <1>0, <1>6, <1>7 DEF Calm, Quiet
  <2>4. \A j \in Subs : sub'[j].turn = sub[j].turn BY <1>2 DEF SubTypes
  <2> QED BY <1>3, <1>7, <2>1, <2>2, <2>3, <2>4, CalmStep
<1>10. Locks'
  <2>1. \A r \in Sessions \ {s} : actor'[r] = actor[r] BY <1>0, <1>2
  <2>2. loc[s].start => actor'[s] = s BY <1>0, <1>2
  <2> QED BY <1>0, <1>6, <1>7, <2>1, <2>2, WorkerLocks
          DEF WorkerPcs
<1>11. Workers' /\ Guarded'
  <2>1. Worker(s)' BY <1>6, <1>7 DEF Worker, At
  <2>2. starts'[s].running <=> loc'[s].pc \in StartPcs
    BY <1>0, <1>3, <1>6, <1>7 DEF StartPcs
  <2> QED BY <1>3, <1>7, <1>8, <2>1, <2>2, OtherWorkers DEF tracker, Guarded
<1>12. Woken'
  <2>1. sess'[s].queue # <<>> /\ sess'[s].ops = NoOp => loc'[s].pc = "begin"
    BY <1>0, <1>6, <1>7, <1>8
  <2> QED BY <1>2, <1>7, <1>8, <2>1 DEF Woken, WokenOk, At, NoOp
<1>13. SessionTypes'
  <2>1. actor' \in [Sessions -> Procs \cup {None}] BY <1>0, <1>2
  <2> QED BY <1>2, <1>3, <1>8, <2>1 DEF SessionTypes, tracker
<1>14. SubTypes'
  BY <1>1, <1>2, <1>3 DEF SubTypes
<1>15. \A r \in Sessions : \A j :
          /\ Queued(j, r)' <=> Queued(j, r) \/ (r = s /\ j = i)
          /\ Held(j, r)' <=> Held(j, r)
  <2>1. \A j : Queued(j, s)' <=> Queued(j, s) \/ j = i
    <3>1. \A j : (\E k \in DOMAIN Append(sess[s].queue, i) :
                    Append(sess[s].queue, i)[k] = j)
                   <=> (\E k \in DOMAIN sess[s].queue : sess[s].queue[k] = j) \/ j = i
      <4>1. sess[s].queue \in Seq(Subs) /\ i \in Subs BY <1>1, <1>8
      <4> QED BY <4>1, QueuedAppend
    <3>2. sess'[s].queue = Append(sess[s].queue, i) BY <1>8
    <3> QED BY <3>1, <3>2 DEF Queued
  <2>2. \A r \in Sessions \ {s} : \A j : Queued(j, r)' <=> Queued(j, r)
    BY <1>8 DEF Queued
  <2>3. loc'[s].pc # "thread" BY <1>6, <1>7
  <2>4. \A j : Held(j, s)' <=> Held(j, s)
    BY <1>0, <1>8, <2>3 DEF Held, At
  <2>5. \A r \in Sessions \ {s} : \A j : Held(j, r)' <=> Held(j, r)
    BY <1>7, <1>8 DEF Held, At
  <2> QED BY <2>1, <2>2, <2>4, <2>5
<1>18. Counted'
  <2>1. Enqueuing' = Enqueuing \ {s}
    <3>1. loc'[s].pc \notin {"load", "save", "queue"} BY <1>6, <1>7
    <3> QED BY <1>7, <3>1 DEF Enqueuing
  <2> QED BY <1>a, <1>1, <1>2, <1>3, <2>1 DEF Counted
<1>19. \A j \in Subs : /\ Requested(j)' <=> Requested(j)
                       /\ Run(j)' <=> Run(j)
                       /\ Alive(j) => Alive(j)'
  BY <1>1, <1>2, <1>3 DEF Requested, Run, Alive, Exists, server, SubTypes
<1>20. /\ \A r \in Sessions : ~Queued(i, r) /\ ~Held(i, r)
       /\ ~Requested(i) /\ ~Run(i) /\ Alive(i)'
  <2>1. ~Alive(i) /\ i > created BY <1>1 DEF Alive
  <2>2. ~Run(i) /\ ~sub[i].finalized /\ outcome[i] = NoTurn
    BY <1>1, <2>1 DEF Places
  <2>3. \A r \in Sessions : ~Queued(i, r) /\ ~Held(i, r)
    BY <1>1, <2>1 DEF Places
  <2>4. ~Requested(i)
    <3> SUFFICES ASSUME NEW c \in inbox, c.sub = i PROVE FALSE BY DEF Requested
    <3>1. c.key \in Sessions /\ sess[c.key].ops = Op(i, NoTurn)
      BY Entities DEF Requests, RequestOk
    <3>2. Held(i, c.key) BY <3>1 DEF Held, Op
    <3> QED BY <2>3, <3>1, <3>2
  <2>5. Alive(i)'
    <3>1. sub'[i].exists /\ sub'[i].finalized = sub[i].finalized
      BY <1>1, <1>2 DEF SubTypes
    <3>2. i \in 1 .. created' /\ i # NoSub BY <1>1, <1>2 DEF NoSub
    <3> QED BY <1>3, <2>2, <3>1, <3>2 DEF Alive, Exists
  <2> QED BY <2>2, <2>3, <2>4, <2>5
<1>16. Places'
  <2>1. ASSUME NEW r \in Sessions, NEW j \in DOMAIN sess'[r].queue,
               NEW k \in DOMAIN sess'[r].queue,
               sess'[r].queue[j] = sess'[r].queue[k]
        PROVE  j = k
    <3>1. CASE r # s BY <1>8, <2>1, <3>1 DEF Places
    <3>2. CASE r = s
      <4> DEFINE q == sess[s].queue
      <4>1. /\ \A l \in 1 .. Len(q) : Append(q, i)[l] = q[l]
            /\ Append(q, i)[Len(q) + 1] = i /\ Len(q) \in Nat
            /\ DOMAIN Append(q, i) = 1 .. Len(q) + 1 /\ DOMAIN q = 1 .. Len(q)
        BY <1>1, <1>8, AppendProperties, LenProperties
      <4>2. \A l \in 1 .. Len(q) : q[l] # i
        BY <1>20, <4>1 DEF Queued
      <4>3. \A l, m \in 1 .. Len(q) : q[l] = q[m] => l = m
        BY <4>1 DEF Places
      <4>4. \A l, m \in 1 .. Len(q) + 1 : Append(q, i)[l] = Append(q, i)[m] => l = m
        <5> HIDE DEF q
        <5> QED BY <4>1, <4>2, <4>3
      <4>5. sess'[s].queue = Append(q, i) BY <1>8
      <4> HIDE DEF q
      <4> QED BY <2>1, <3>2, <4>1, <4>4, <4>5
    <3> QED BY <3>1, <3>2
  <2>2. \A r \in Sessions : loc'[r].pc \in {"thread", "mark"} =>
          r # s /\ loc'[r] = loc[r]
    BY <1>6, <1>7
  <2>3. \A j \in Subs : j > created' => ~sub'[j].finalized /\ outcome'[j] = NoTurn
                                       /\ ~Run(j)'
    <3> SUFFICES ASSUME NEW j \in Subs, j > created'
                 PROVE  ~sub'[j].finalized /\ outcome'[j] = NoTurn /\ ~Run(j)'
      OBVIOUS
    <3>1. j > created /\ j # i BY <1>1, <1>2 DEF Subs
    <3>2. ~sub[j].finalized /\ outcome[j] = NoTurn /\ ~Run(j)
      BY <3>1 DEF Places
    <3>3. sub'[j] = sub[j] BY <1>1, <1>2, <3>1 DEF SubTypes
    <3> QED BY <1>3, <1>19, <3>2, <3>3
  <2>4. ASSUME NEW r \in Sessions, NEW q \in Sessions, NEW j \in Subs
        PROVE  /\ Queued(j, r)' => ~Held(j, q)'
               /\ Queued(j, r)' /\ Queued(j, q)' => r = q
               /\ Held(j, r)' /\ Held(j, q)' => r = q
    BY <1>15, <1>20 DEF Places
  <2>5. ASSUME NEW r \in Sessions, NEW j \in Subs
        PROVE  /\ Queued(j, r)' => Alive(j)' /\ ~Requested(j)' /\ ~Run(j)'
               /\ Held(j, r)' => Alive(j)'
               /\ loc'[r].pc \in {"thread", "mark"} /\ loc'[r].sub = j =>
                    ~Requested(j)' /\ ~Run(j)'
    <3>1. Queued(j, r) => Alive(j) /\ ~Requested(j) /\ ~Run(j) BY DEF Places
    <3>2. Held(j, r) => Alive(j) BY DEF Places
    <3>3. loc[r].pc \in {"thread", "mark"} /\ loc[r].sub = j =>
                    ~Requested(j) /\ ~Run(j) BY DEF Places
    <3>4. Queued(j, r)' => Alive(j)' /\ ~Requested(j)' /\ ~Run(j)'
      BY <1>15, <1>19, <1>20, <3>1
    <3>5. Held(j, r)' => Alive(j)'
      BY <1>15, <1>19, <3>2
    <3>6. loc'[r].pc \in {"thread", "mark"} /\ loc'[r].sub = j =>
            ~Requested(j)' /\ ~Run(j)'
      BY <1>19, <2>2, <3>3
    <3> QED BY <3>4, <3>5, <3>6
  <2> QED BY <2>1, <2>3, <2>4, <2>5 DEF Places
<1>17. Accounted'
  BY <1>1, <1>2, <1>3, <1>15 DEF Accounted
<1> QED BY <1>3, <1>18, <1>9, <1>10, <1>11, <1>12, <1>13, <1>14, <1>16, <1>17

\* What is queued behind the head of a queue without repetitions.
LEMMA QueuedTail ==
  ASSUME NEW q \in Seq(Subs), q # <<>>,
         \A j, k \in DOMAIN q : q[j] = q[k] => j = k
  PROVE  /\ Tail(q) \in Seq(Subs) /\ Head(q) \in Subs
         /\ \E k \in DOMAIN q : q[k] = Head(q)
         /\ \A j : (\E k \in DOMAIN Tail(q) : Tail(q)[k] = j)
                     <=> (\E k \in DOMAIN q : q[k] = j) /\ j # Head(q)
         /\ \A j, k \in DOMAIN Tail(q) : Tail(q)[j] = Tail(q)[k] => j = k
<1>1. /\ Tail(q) \in Seq(Subs) /\ Head(q) \in Subs /\ Head(q) = q[1]
      /\ Len(Tail(q)) = Len(q) - 1 /\ Len(q) \in Nat \ {0}
      /\ \A i \in 1 .. Len(Tail(q)) : Tail(q)[i] = q[i + 1]
      /\ DOMAIN Tail(q) = 1 .. Len(Tail(q)) /\ DOMAIN q = 1 .. Len(q)
  BY HeadTailProperties, LenProperties, EmptySeq
<1>2. \E k \in DOMAIN q : q[k] = Head(q) BY <1>1
<1>3. ASSUME NEW j
      PROVE  (\E k \in DOMAIN Tail(q) : Tail(q)[k] = j)
               <=> (\E k \in DOMAIN q : q[k] = j) /\ j # Head(q)
  <2>1. ASSUME NEW k \in DOMAIN Tail(q), Tail(q)[k] = j
        PROVE  (\E l \in DOMAIN q : q[l] = j) /\ j # Head(q)
    <3>1. k + 1 \in DOMAIN q /\ q[k + 1] = j /\ k + 1 # 1 BY <1>1, <2>1
    <3>2. 1 \in DOMAIN q /\ Head(q) = q[1] BY <1>1
    <3> QED BY <3>1, <3>2
  <2>2. ASSUME NEW k \in DOMAIN q, q[k] = j, j # Head(q)
        PROVE  \E l \in DOMAIN Tail(q) : Tail(q)[l] = j
    <3>1. k # 1 /\ k - 1 \in DOMAIN Tail(q) BY <1>1, <2>2
    <3>2. Tail(q)[k - 1] = j BY <1>1, <2>2, <3>1
    <3> QED BY <3>1, <3>2
  <2> QED BY <2>1, <2>2
<1>4. ASSUME NEW j \in DOMAIN Tail(q), NEW k \in DOMAIN Tail(q),
             Tail(q)[j] = Tail(q)[k]
      PROVE  j = k
  <2>1. j + 1 \in DOMAIN q /\ k + 1 \in DOMAIN q /\ q[j + 1] = q[k + 1]
    BY <1>1, <1>4
  <2>2. j + 1 = k + 1 BY <2>1
  <2> QED BY <1>1, <2>2
<1> QED BY <1>1, <1>2, <1>3, <1>4

\* DequeueSubmission: the head of the queue goes to the process of s
LEMMA DequeueStep ==
  ASSUME QueueInv, NEW s \in Sessions, StartDequeue(s)
  PROVE  QueueInv'
<1> USE Processes DEF QueueInv
<1> DEFINE q == sess[s].queue
<1>0. /\ loc[s].key = s /\ loc[s].hold = s /\ actor[s] = s /\ loc[s].pc = "dequeue"
      /\ loc \in [Procs -> Locals] /\ loc[s] \in Locals
      /\ sess \in [Sessions -> Records] /\ sess[s].ops = NoOp
      /\ starts[s].running /\ s \in Procs /\ q \in Seq(Subs)
  BY OwnKey DEF StartDequeue, At, ProcTypes, SessionTypes, Workers, Worker,
                Guarded, StartPcs, Records
<1>1. UNCHANGED <<sub, starts, actor, wake, tracker, inputs, created, failures,
                  server, resp, outcome, panicked>>
  BY DEF StartDequeue
<1>2. CASE q = <<>>
  <2> DEFINE w == [loc[s] EXCEPT !.pc = "end"]
  <2>1. loc' = [loc EXCEPT ![s] = w] /\ sess' = sess
    BY <1>0, <1>2 DEF StartDequeue, Goto
  <2>2. w \in Locals /\ w.pc = "end" /\ w.key = s /\ w.hold = s
    BY <1>0 DEF Locals, Pcs, WorkerPcs, StartPcs, EventPcs
  <2> HIDE DEF w
  <2>3. Worker(s)' BY <1>0, <2>1, <2>2 DEF Worker, At
  <2>4. Counted' BY <1>0, <1>1, <2>1, <2>2, CountedKept
  <2> QED
    BY <1>0, <1>1, <1>2, <2>1, <2>2, <2>3, <2>4, QuietWorker
       DEF Quiet, SessionTypes, SubTypes, Guarded, StartPcs, store
<1>3. CASE q # <<>>
  <2> PICK i \in Subs : i = Head(q) BY <1>0, <1>3, HeadTailProperties
  <2> PICK tl \in Seq(Subs) : tl = Tail(q) BY <1>0, <1>3, HeadTailProperties
  <2> DEFINE rest == [sess[s] EXCEPT !.queue = tl]
             w == [loc[s] EXCEPT !.pc = "thread", !.sub = i, !.snap = rest]
  <2>1. \A j, k \in DOMAIN q : q[j] = q[k] => j = k BY DEF Places
  <2>2. /\ Queued(i, s)
        /\ \A j : (\E k \in DOMAIN tl : tl[k] = j) <=> Queued(j, s) /\ j # i
        /\ \A j, k \in DOMAIN tl : tl[j] = tl[k] => j = k
    <3>1. q \in Seq(Subs) BY <1>0
    <3>2. \A j : Queued(j, s) <=> \E k \in DOMAIN q : q[k] = j BY DEF Queued
    <3> HIDE DEF q
    <3>3. /\ \E k \in DOMAIN q : q[k] = Head(q)
          /\ \A j : (\E k \in DOMAIN Tail(q) : Tail(q)[k] = j)
                      <=> (\E k \in DOMAIN q : q[k] = j) /\ j # Head(q)
          /\ \A j, k \in DOMAIN Tail(q) : Tail(q)[j] = Tail(q)[k] => j = k
      BY <1>3, <2>1, <3>1, QueuedTail
    <3> QED BY <3>2, <3>3
  <2>3. Alive(i) /\ ~Requested(i) /\ ~Run(i) /\ \A r \in Sessions : ~Held(i, r)
    BY <2>2 DEF Places
  <2>4. /\ sess' = [sess EXCEPT ![s] = rest] /\ loc' = [loc EXCEPT ![s] = w]
    <3>1. Exists(Head(q)) BY <2>3 DEF Alive
    <3>2. sess' = [sess EXCEPT ![s] = [sess[s] EXCEPT !.queue = Tail(q)]]
      BY <1>0, <1>3 DEF StartDequeue
    <3>3. loc' = [loc EXCEPT ![s].pc = "thread", ![s].sub = i,
                             ![s].snap = [sess[s] EXCEPT !.queue = Tail(q)]]
      BY <1>0, <1>3, <3>1 DEF StartDequeue
    <3> QED BY <1>0, <3>2, <3>3
  <2>5. rest \in Records /\ rest.queue = tl /\ rest.ops = NoOp
        /\ rest.thread = sess[s].thread
    <3>1. sess[s] \in Records BY <1>0
    <3> QED BY <1>0, <2>2, <3>1 DEF Records
  <2> HIDE DEF rest
  <2>6. w \in Locals /\ w.pc = "thread" /\ w.key = s /\ w.hold = s /\ w.sub = i
        /\ w.snap = rest
    BY <1>0, <2>5 DEF Locals, Pcs, WorkerPcs, StartPcs, EventPcs
  <2> HIDE DEF w
  <2>7. /\ loc' \in [Procs -> Locals] /\ loc'[s] = w
        /\ \A p \in Procs \ {s} : loc'[p] = loc[p]
        /\ sess' \in [Sessions -> Records] /\ sess'[s] = rest
        /\ \A r \in Sessions \ {s} : sess'[r] = sess[r]
        /\ sess'[s].queue = tl
    BY <1>0, <2>4, <2>5, <2>6
  <2>8. /\ ServerTypes' /\ Single' /\ ProcTypes'
        /\ Turns' /\ Requests' /\ Responses' /\ Backed' /\ Notifications' /\ OwnTurn'
    <3>1. \A r \in Sessions : sess'[r].ops = sess[r].ops
                              /\ sess'[r].thread = sess[r].thread
      BY <1>0, <2>5, <2>7
    <3>2. ~At(Events, "idle") => sess'[loc[Events].key] = sess[loc[Events].key]
      BY <1>0, <2>7 DEF Locks
    <3>3. loc[s].pc \in Calm /\ loc'[s].pc \in Calm
      BY <1>0, <2>6, <2>7 DEF Calm, Quiet
    <3>4. \A j \in Subs : sub'[j].turn = sub[j].turn BY <1>1
    <3> QED BY <1>1, <2>7, <3>1, <3>2, <3>3, <3>4, CalmStep
  <2>9. Locks' BY <1>0, <1>1, <2>6, <2>7, WorkerLocks DEF WorkerPcs, StartPcs
  <2>10. Worker(s)' BY <2>5, <2>6, <2>7 DEF Worker, At
  <2>11. Workers' /\ Guarded'
    BY <1>0, <1>1, <2>6, <2>7, <2>10, OtherWorkers DEF tracker, Guarded, StartPcs
  <2>12. Counted' BY <1>0, <1>1, <2>6, <2>7, CountedKept
  <2>13. Woken' BY <1>1, <2>6, <2>7 DEF Woken, WokenOk, At
  <2>14. SessionTypes' BY <1>1, <2>7 DEF SessionTypes, tracker
  <2>15. SubTypes' /\ ~panicked' BY <1>1 DEF SubTypes
  <2>16. \A r \in Sessions : \A j :
            /\ Queued(j, r)' <=> Queued(j, r) /\ ~(r = s /\ j = i)
            /\ Held(j, r)' <=> Held(j, r) \/ (r = s /\ j = i)
    <3>1. \A j : Queued(j, s)' <=> Queued(j, s) /\ j # i
      <4>1. \A j : Queued(j, s)' <=> \E k \in DOMAIN tl : tl[k] = j
        <5> HIDE DEF q
        <5> QED BY <2>7 DEF Queued
      <4> QED BY <2>2, <4>1
    <3>2. \A r \in Sessions \ {s} : \A j : Queued(j, r)' <=> Queued(j, r)
      BY <2>7 DEF Queued
    <3>3. \A j : Held(j, s)' <=> j = i
      BY <2>5, <2>6, <2>7 DEF Held, At, NoOp
    <3>4. \A j : ~Held(j, s) BY <1>0 DEF Held, At, NoOp
    <3>5. \A r \in Sessions \ {s} : \A j : Held(j, r)' <=> Held(j, r)
      BY <2>7 DEF Held, At
    <3> QED BY <3>1, <3>2, <3>3, <3>4, <3>5
  <2>17. \A j \in Subs : /\ Requested(j)' <=> Requested(j)
                         /\ Run(j)' <=> Run(j)
                         /\ Alive(j)' <=> Alive(j)
    BY <1>1 DEF Requested, Run, Alive, Exists, server
  <2>18. Places'
    <3>1. \A r \in Sessions : \A j, k \in DOMAIN sess'[r].queue :
            sess'[r].queue[j] = sess'[r].queue[k] => j = k
      <4>1. ASSUME NEW r \in Sessions \ {s}
            PROVE  \A j, k \in DOMAIN sess'[r].queue :
                     sess'[r].queue[j] = sess'[r].queue[k] => j = k
        BY <2>7 DEF Places
      <4>2. \A j, k \in DOMAIN sess'[s].queue :
              sess'[s].queue[j] = sess'[s].queue[k] => j = k
        <5> HIDE DEF q
        <5> QED BY <2>2, <2>7
      <4> QED BY <4>1, <4>2
    <3>2. ASSUME NEW r \in Sessions, NEW p \in Sessions, NEW j \in Subs
          PROVE  /\ Queued(j, r)' => ~Held(j, p)'
                 /\ Queued(j, r)' /\ Queued(j, p)' => r = p
                 /\ Held(j, r)' /\ Held(j, p)' => r = p
      BY <2>2, <2>3, <2>16 DEF Places
    <3>3. ASSUME NEW r \in Sessions, NEW j \in Subs
          PROVE  /\ Queued(j, r)' => Alive(j)' /\ ~Requested(j)' /\ ~Run(j)'
                 /\ Held(j, r)' => Alive(j)'
      BY <2>3, <2>16, <2>17 DEF Places
    <3>4. ASSUME NEW r \in Sessions, NEW j \in Subs,
                 loc'[r].pc \in {"thread", "mark"}, loc'[r].sub = j
          PROVE  ~Requested(j)' /\ ~Run(j)'
      <4>1. CASE r = s BY <2>3, <2>6, <2>7, <2>17, <3>4, <4>1
      <4>2. CASE r # s BY <2>7, <2>17, <3>4, <4>2 DEF Places
      <4> QED BY <4>1, <4>2
    <3>5. \A j \in Subs : j > created' => ~sub'[j].finalized
                             /\ outcome'[j] = NoTurn /\ ~Run(j)'
      BY <1>1, <2>17 DEF Places
    <3> QED BY <3>1, <3>2, <3>3, <3>4, <3>5 DEF Places
  <2>19. Accounted' BY <1>1, <2>16 DEF Accounted
  <2> QED BY <2>8, <2>9, <2>11, <2>12, <2>13, <2>14, <2>15, <2>18, <2>19
<1> QED BY <1>2, <1>3

-----------------------------------------------------------------------------
(* Steps that concern one session.                                         *)

\* What a step leaves alone when it works on session s.
Local(s) ==
  /\ \A r \in Sessions \ {s} :
       /\ loc'[r] = loc[r] /\ sess'[r] = sess[r] /\ pending'[r] = pending[r]
       /\ resp'[r] = resp[r] /\ wake'[r] = wake[r] /\ starts'[r] = starts[r]
  /\ \/ loc'[Events] = loc[Events]
     \/ /\ At(Events, "idle") \/ loc[Events].key = s
        /\ \/ loc'[Events].pc = "idle"
           \/ /\ loc'[Events].key = s /\ loc'[Events].turn \in DOMAIN turns
              /\ turns[loc'[Events].turn].key = s
  /\ \A c \in inbox' : c.key # s => c \in inbox
  /\ \A c \in inbox : c.key # s => c \in inbox'
  /\ \A t \in DOMAIN turns' : turns'[t].key # s => t \in DOMAIN turns
  /\ \A t \in DOMAIN turns :
       /\ t \in DOMAIN turns' /\ turns'[t].key = turns[t].key
       /\ turns[t].key # s =>
            /\ turns'[t] = turns[t]
            /\ OnWire(t, "started")' <=> OnWire(t, "started")
            /\ OnWire(t, "completed")' <=> OnWire(t, "completed")
            /\ t \in DOMAIN bindings' <=> t \in DOMAIN bindings
            /\ t \in DOMAIN bindings => bindings'[t] = bindings[t]

\* The part of the invariant about session s.
Own(s) ==
  /\ Worker(s) /\ SingleOk(s) /\ ResponseOk(s) /\ BackedOk(s) /\ WokenOk(s)
  /\ \A t \in DOMAIN turns : turns[t].key = s /\ Unsettled(t) => TurnOk(t)
  /\ \A t, u \in DOMAIN turns :
       turns[t].key = s /\ turns[u].key = s /\ Unsettled(t) /\ Unsettled(u)
         => t = u
  /\ \A c \in inbox : c.key = s => RequestOk(c)
  /\ \A c, d \in inbox : c.key = s /\ d.key = s => c = d

\* The other sessions keep their parts of the invariant.
LEMMA Frame ==
  ASSUME QueueInv, NEW s \in Sessions, Local(s), Own(s)',
         \A t \in DOMAIN turns' : turns'[t].key \in Sessions,
         \A c \in inbox' : c.key \in Sessions,
         \A r \in Sessions \ {s} : \A i : Held(i, r) /\ ~Run(i) => ~Run(i)'
  PROVE  /\ Workers' /\ Single' /\ Backed' /\ Woken'
         /\ \A r \in Sessions : ResponseOk(r)'
         /\ \A t \in DOMAIN turns' : Unsettled(t)' => TurnOk(t)'
         /\ \A t, u \in DOMAIN turns' :
              (Unsettled(t) /\ Unsettled(u))' /\ turns'[t].key = turns'[u].key
                => t = u
         /\ \A c \in inbox' : RequestOk(c)'
         /\ \A c, d \in inbox' : c.key = d.key => c = d
<1> USE Processes DEF QueueInv
<1> DEFINE Busy == loc[Events].pc # "idle"
<1>1. Busy => /\ loc[Events].turn \in DOMAIN turns
              /\ turns[loc[Events].turn].key = loc[Events].key
  BY DEF Notifications, WireOk, EventsOk, At
<1>2. \A r \in Sessions \ {s} : /\ At(Events, "bind")' /\ loc'[Events].key = r
                                   <=> At(Events, "bind") /\ loc[Events].key = r
                                /\ At(Events, "next")' /\ loc'[Events].key = r
                                   <=> At(Events, "next") /\ loc[Events].key = r
  BY <1>1 DEF Local, At
<1>3. ASSUME NEW t \in DOMAIN turns, turns[t].key # s
      PROVE  /\ Unsettled(t)' <=> Unsettled(t)
             /\ Unstarted(t)' <=> Unstarted(t)
  <2>1. /\ turns'[t] = turns[t]
        /\ OnWire(t, "started")' <=> OnWire(t, "started")
        /\ OnWire(t, "completed")' <=> OnWire(t, "completed")
    BY <1>3 DEF Local
  <2>2. CASE loc'[Events] = loc[Events]
    BY <2>1, <2>2 DEF Unsettled, Unstarted, At
  <2>3. CASE loc'[Events] # loc[Events]
    <3>1. ~(loc'[Events].turn = t /\ loc'[Events].pc # "idle")
      BY <1>3, <2>3 DEF Local
    <3>2. ~(loc[Events].turn = t /\ loc[Events].pc # "idle")
      BY <1>1, <1>3, <2>3 DEF Local, At
    <3> QED BY <2>1, <3>1, <3>2 DEF Unsettled, Unstarted, At
  <2> QED BY <2>2, <2>3
<1>4. ASSUME NEW r \in Sessions \ {s}
      PROVE  /\ Asked(r)' <=> Asked(r)
             /\ OpenTurn(r)' <=> OpenTurn(r)
  BY <1>3 DEF Local, Asked, OpenTurn
<1>5. ASSUME NEW r \in Sessions \ {s}
      PROVE  Worker(r)' /\ SingleOk(r)' /\ BackedOk(r)' /\ WokenOk(r)'
  <2>1. /\ loc'[r] = loc[r] /\ sess'[r] = sess[r] /\ pending'[r] = pending[r]
        /\ resp'[r] = resp[r] /\ wake'[r] = wake[r]
    BY DEF Local
  <2>2. Worker(r) /\ SingleOk(r) /\ BackedOk(r) /\ WokenOk(r)
    BY DEF Workers, Single, Backed, Woken
  <2>3. Worker(r)' BY <2>1, <2>2 DEF Worker, At
  <2>4. SingleOk(r)' BY <2>1, <2>2 DEF SingleOk
  <2>5. BackedOk(r)' BY <1>4, <2>1, <2>2 DEF BackedOk, At
  <2>6. WokenOk(r)' BY <1>2, <2>1, <2>2 DEF WokenOk
  <2> QED BY <2>3, <2>4, <2>5, <2>6
<1>6. ASSUME NEW r \in Sessions \ {s}
      PROVE  ResponseOk(r)'
  <2>1. /\ loc'[r] = loc[r] /\ resp'[r] = resp[r]
    BY DEF Local
  <2>2. ResponseOk(r) BY DEF Responses
  <2>3. Asked(r)' <=> Asked(r) BY <1>4
  <2>4. CASE ~At(r, "rpc") BY <2>1, <2>4 DEF ResponseOk, At
  <2>5. CASE resp[r] = NoTurn /\ Asked(r)
    BY <2>1, <2>3, <2>5 DEF ResponseOk
  <2>6. CASE At(r, "rpc") /\ resp[r] = Failed /\ ~Asked(r) /\ ~OpenTurn(r)
             /\ ~Run(loc[r].sub)
    <3> PICK i : i = loc[r].sub OBVIOUS
    <3>1. Held(i, r)
      <4>1. sess[r].ops = Op(i, NoTurn) BY <2>6 DEF Workers, Worker, At
      <4> QED BY <4>1, HeldOp
    <3>2. ~Run(i)' BY <2>6, <3>1
    <3>3. ~Run(loc[r].sub)' BY <2>1, <3>2
    <3>4. ~OpenTurn(r)' BY <1>4, <2>6
    <3> QED BY <2>1, <2>3, <2>6, <3>3, <3>4 DEF ResponseOk
  <2>7. CASE /\ resp[r] \in DOMAIN turns /\ turns[resp[r]].key = r
             /\ turns[resp[r]].sub = loc[r].sub /\ Unsettled(resp[r])
    <3> PICK t \in DOMAIN turns : t = resp[r] BY <2>7
    <3>1. turns'[t] = turns[t] /\ t \in DOMAIN turns' BY <2>7 DEF Local
    <3>2. Unsettled(t)' BY <1>3, <2>7
    <3>3. Unsettled(resp[r])' BY <2>1, <3>2
    <3> QED BY <2>1, <2>7, <3>1, <3>3 DEF ResponseOk
  <2> QED BY <2>2, <2>4, <2>5, <2>6, <2>7 DEF ResponseOk
<1>7. ASSUME NEW t \in DOMAIN turns', turns'[t].key # s, Unsettled(t)'
      PROVE  TurnOk(t)'
  <2>1. /\ t \in DOMAIN turns /\ turns'[t] = turns[t]
        /\ t \in DOMAIN bindings' <=> t \in DOMAIN bindings
        /\ t \in DOMAIN bindings => bindings'[t] = bindings[t]
    BY <1>7 DEF Local
  <2> PICK r \in Sessions \ {s} : r = turns[t].key BY <1>7, <2>1
  <2> PICK i : i = turns[t].sub OBVIOUS
  <2>2. /\ loc'[r] = loc[r] /\ sess'[r] = sess[r] /\ pending'[r] = pending[r]
        /\ resp'[r] = resp[r]
    BY DEF Local
  <2>3. Unsettled(t) /\ (Unstarted(t)' <=> Unstarted(t)) BY <1>3, <1>7, <2>1
  <2>4. TurnOk(t) BY <2>1, <2>3 DEF Turns
  <2>5. /\ Unbound(r, i, t) => Unbound(r, i, t)'
        /\ Bound(r, i, t) => Bound(r, i, t)'
    BY <1>2, <2>1, <2>2, <2>3 DEF Unbound, Bound, At
  <2>6. BindingNow(r, i, t) => BindingNow(r, i, t)'
    <3>1. CASE loc'[Events] = loc[Events]
      BY <2>1, <2>2, <3>1 DEF BindingNow, At
    <3>2. CASE loc'[Events] # loc[Events]
      <4>1. ~(At(Events, "bind") /\ loc[Events].key = r)
        BY <3>2 DEF Local, At
      <4> QED BY <2>1, <2>2, <4>1 DEF BindingNow, At
    <3> QED BY <3>1, <3>2
  <2>7. Asked(r)' <=> Asked(r) BY <1>4
  <2>8. turns'[t].key = r /\ turns'[t].sub = i /\ turns[t].key = r /\ turns[t].sub = i
    BY <2>1
  <2> QED BY <2>2, <2>4, <2>5, <2>6, <2>7, <2>8 DEF TurnOk, At
<1>8. ASSUME NEW t \in DOMAIN turns', NEW u \in DOMAIN turns',
             (Unsettled(t) /\ Unsettled(u))', turns'[t].key = turns'[u].key
      PROVE  t = u
  <2>1. CASE turns'[t].key = s BY <1>8, <2>1 DEF Own
  <2>2. CASE turns'[t].key # s
    <3>1. /\ t \in DOMAIN turns /\ u \in DOMAIN turns
          /\ turns'[t] = turns[t] /\ turns'[u] = turns[u]
      BY <1>8, <2>2 DEF Local
    <3>2. Unsettled(t) /\ Unsettled(u) BY <1>3, <1>8, <2>2, <3>1
    <3> QED BY <1>8, <3>1, <3>2 DEF Turns
  <2> QED BY <2>1, <2>2
<1>9. ASSUME NEW c \in inbox', c.key # s PROVE RequestOk(c)'
  <2>1. c \in inbox /\ RequestOk(c) BY <1>9 DEF Local, Requests
  <2>2. c.key \in Sessions \ {s} BY <1>9
  <2>3. /\ loc'[c.key] = loc[c.key] /\ sess'[c.key] = sess[c.key]
        /\ pending'[c.key] = pending[c.key] /\ resp'[c.key] = resp[c.key]
    BY <2>2 DEF Local
  <2> QED BY <2>1, <2>3 DEF RequestOk, At
<1>10. \A c, d \in inbox' : c.key = d.key => c = d
  BY DEF Local, Own, Requests
<1>11. \A t \in DOMAIN turns' : Unsettled(t)' => TurnOk(t)'
  BY <1>7 DEF Own
<1>12. \A c \in inbox' : RequestOk(c)'
  BY <1>9 DEF Own
<1>13. Workers' /\ Single' /\ Backed' /\ Woken' /\ \A r \in Sessions : ResponseOk(r)'
  BY <1>5, <1>6 DEF Own, Workers, Single, Backed, Woken
<1> QED BY <1>8, <1>10, <1>11, <1>12, <1>13

\* A step that works on session s and keeps the part of s keeps the invariant.
LEMMA SessionStep ==
  ASSUME QueueInv, NEW s \in Sessions, Local(s), Own(s)',
         SessionTypes', SubTypes', ProcTypes', ServerTypes', Locks', Places',
         Accounted', Notifications', OwnTurn', StartedOnce',
         UNCHANGED <<starts, created, inputs, panicked>>,
         \A r \in Sessions :
           /\ loc'[r].pc \in {"load", "save", "queue"}
                <=> loc[r].pc \in {"load", "save", "queue"}
           /\ loc'[r].pc \in StartPcs <=> loc[r].pc \in StartPcs,
         \A c \in inbox' : ~Run(c.sub)',
         \A r \in Sessions \ {s} : \A i : Held(i, r) /\ ~Run(i) => ~Run(i)',
         \A p \in Procs : resp'[p] # NoTurn => p \in Sessions /\ At(p, "rpc")'
  PROVE  QueueInv'
<1> USE Processes DEF QueueInv
<1>1. /\ \A t \in DOMAIN turns' : turns'[t].key \in Sessions
      /\ \A c \in inbox' : c.key \in Sessions
  <2>1. \A t \in DOMAIN turns' : turns'[t] \in [key : Sessions, sub : Subs, done : BOOLEAN]
    BY Element DEF ServerTypes
  <2> QED BY <2>1 DEF ServerTypes
<1>2. /\ Workers' /\ Single' /\ Backed' /\ Woken'
      /\ \A r \in Sessions : ResponseOk(r)'
      /\ \A t \in DOMAIN turns' : Unsettled(t)' => TurnOk(t)'
      /\ \A t, u \in DOMAIN turns' :
           (Unsettled(t) /\ Unsettled(u))' /\ turns'[t].key = turns'[u].key
             => t = u
      /\ \A c \in inbox' : RequestOk(c)'
      /\ \A c, d \in inbox' : c.key = d.key => c = d
  BY <1>1, Frame
<1>3. Turns' /\ Requests' /\ Responses'
  BY <1>2 DEF Turns, Requests, Responses
<1>4. Enqueuing' = Enqueuing BY DEF Enqueuing
<1>5. Counted' BY <1>4 DEF Counted
<1>6. Guarded' BY DEF Guarded
<1> QED BY <1>2, <1>3, <1>5, <1>6

\* What the other sessions do not notice of a queue that keeps its order.
LEMMA PlacesFrame ==
  ASSUME QueueInv, UNCHANGED created,
         \A r \in Sessions : sess'[r].queue = sess[r].queue,
         \A r \in Sessions : \A i \in Subs : Held(i, r)' => Held(i, r) /\ Alive(i)',
         \A r \in Sessions : \A i \in Subs :
           Queued(i, r) => Alive(i)' /\ ~Requested(i)' /\ ~Run(i)',
         \A r \in Sessions : \A i \in Subs :
           loc'[r].pc \in {"thread", "mark"} /\ loc'[r].sub = i =>
             ~Requested(i)' /\ ~Run(i)',
         \A i \in Subs : i > created =>
           ~sub'[i].finalized /\ outcome'[i] = NoTurn /\ ~Run(i)',
         \A r \in Sessions : \A i \in 1 .. created :
           Held(i, r) => Held(i, r)' \/ outcome'[i] # NoTurn,
         \A i \in 1 .. created : outcome[i] # NoTurn => outcome'[i] # NoTurn
  PROVE  Places' /\ Accounted'
<1> USE DEF QueueInv
<1>1. \A r \in Sessions : \A i : Queued(i, r)' <=> Queued(i, r) BY DEF Queued
<1>2. Places'
  <2>1. ASSUME NEW r \in Sessions, NEW q \in Sessions, NEW i \in Subs
        PROVE  /\ Queued(i, r)' => ~Held(i, q)'
               /\ Queued(i, r)' /\ Queued(i, q)' => r = q
               /\ Held(i, r)' /\ Held(i, q)' => r = q
    BY <1>1 DEF Places
  <2>2. ASSUME NEW r \in Sessions
        PROVE  \A j, k \in DOMAIN sess'[r].queue :
                 sess'[r].queue[j] = sess'[r].queue[k] => j = k
    BY DEF Places
  <2> QED BY <1>1, <2>1, <2>2 DEF Places
<1>3. Accounted'
  BY <1>1 DEF Accounted
<1> QED BY <1>2, <1>3

-----------------------------------------------------------------------------
(* The start of a turn (StartNextSubmission).                              *)

\* Who is where while the process of s works on s.
LEMMA WorkerAlone ==
  ASSUME QueueInv, NEW s \in Sessions, ~At(s, "idle")
  PROVE  /\ loc[s].key = s /\ loc[s].hold = s /\ actor[s] = s
         /\ ~At(Events, "idle") => loc[Events].key # s
  BY Processes DEF QueueInv, Locks

\* A step of the process of s in the start of a turn.
LEMMA StartStep ==
  ASSUME QueueInv, NEW s \in Sessions, NEW w \in Locals, NEW sr \in Records,
         NEW pq \in Seq(Subs),
         loc[s].pc \in {"thread", "mark", "rpc", "activate"},
         w.pc \in {"mark", "rpc", "activate", "end"}, w.key = s, w.hold = s,
         loc' = [loc EXCEPT ![s] = w],
         sess' = [sess EXCEPT ![s] = sr], sr.queue = sess[s].queue,
         pending' = [pending EXCEPT ![s] = pq],
         resp' = [resp EXCEPT ![s] = NoTurn],
         wake' \in [Sessions -> Nat],
         \A r \in Sessions \ {s} : wake'[r] = wake[r],
         UNCHANGED <<starts, actor, created, inputs, turns, wire, panicked>>,
         inbox' \subseteq [key : Sessions, sub : Subs, proc : Procs \cup {None}],
         \A c \in inbox' : ~Run(c.sub),
         \A c \in inbox' : c.key # s => c \in inbox,
         \A c \in inbox : c.key # s => c \in inbox',
         \A t \in DOMAIN bindings' : t \in DOMAIN turns /\ bindings'[t] \in Subs,
         \A t \in DOMAIN turns : turns[t].key # s =>
           /\ t \in DOMAIN bindings' <=> t \in DOMAIN bindings
           /\ t \in DOMAIN bindings => bindings'[t] = bindings[t],
         SubTypes', OwnTurn', Places', Accounted', Own(s)',
         \A i \in Subs : outcome[i] # NoTurn => outcome'[i] # NoTurn
  PROVE  QueueInv'
<1> USE Processes DEF QueueInv
<1>0. /\ loc \in [Procs -> Locals] /\ sess \in [Sessions -> Records]
      /\ pending \in [Sessions -> Seq(Subs)] /\ resp \in [Procs -> Int]
      /\ actor[s] = s /\ (~At(Events, "idle") => loc[Events].key # s)
      /\ starts[s].running /\ ~starts[s].pending
  BY WorkerAlone DEF ProcTypes, SessionTypes, At, Guarded, StartPcs
<1>1. /\ loc' \in [Procs -> Locals] /\ loc'[s] = w
      /\ \A p \in Procs \ {s} : loc'[p] = loc[p]
      /\ sess' \in [Sessions -> Records] /\ sess'[s] = sr
      /\ \A r \in Sessions \ {s} : sess'[r] = sess[r]
      /\ pending' \in [Sessions -> Seq(Subs)] /\ pending'[s] = pq
      /\ \A r \in Sessions \ {s} : pending'[r] = pending[r]
      /\ resp' \in [Procs -> Int] /\ resp'[s] = NoTurn
      /\ \A p \in Procs \ {s} : resp'[p] = resp[p]
  BY <1>0 DEF NoTurn
<1>2. Local(s)
  <2>1. \A r \in Sessions \ {s} :
          /\ loc'[r] = loc[r] /\ sess'[r] = sess[r] /\ pending'[r] = pending[r]
          /\ resp'[r] = resp[r] /\ wake'[r] = wake[r] /\ starts'[r] = starts[r]
    BY <1>1
  <2>2. loc'[Events] = loc[Events] BY <1>1
  <2>3. \A t \in DOMAIN turns : /\ OnWire(t, "started")' <=> OnWire(t, "started")
                                /\ OnWire(t, "completed")' <=> OnWire(t, "completed")
    BY DEF OnWire
  <2> QED BY <2>1, <2>2, <2>3 DEF Local
<1>3. SessionTypes' BY <1>1 DEF SessionTypes
<1>4. ProcTypes' BY <1>1 DEF ProcTypes
<1>5. ServerTypes' BY DEF ServerTypes
<1>6. Locks'
  <2>1. w.pc \in WorkerPcs BY DEF WorkerPcs, StartPcs
  <2> QED BY <1>0, <1>1, <2>1, WorkerLocks
<1>7. Notifications'
  <2>1. \A t : /\ OnWire(t, "started")' <=> OnWire(t, "started")
               /\ OnWire(t, "completed")' <=> OnWire(t, "completed")
    BY DEF OnWire
  <2>2. \A t : Ending(t)' <=> Ending(t) BY <2>1 DEF Ending
  <2>3. loc'[Events] = loc[Events] BY <1>1
  <2>4. ~At(Events, "idle") => sess'[loc[Events].key] = sess[loc[Events].key]
    BY <1>0, <1>1 DEF Locks
  <2>5. ~At(Events, "idle") => turns[loc[Events].turn].sub \in Subs
    BY Entities DEF Notifications, WireOk, EventsOk
  <2> QED BY <2>1, <2>2, <2>3, <2>4, <2>5 DEF Notifications, WireOk, EventsOk, At
<1>8. StartedOnce' BY DEF Turns, StartedOnce
<1>9. \A r \in Sessions :
           /\ loc'[r].pc \in {"load", "save", "queue"}
                <=> loc[r].pc \in {"load", "save", "queue"}
           /\ loc'[r].pc \in StartPcs <=> loc[r].pc \in StartPcs
  <2> SUFFICES ASSUME NEW r \in Sessions
               PROVE  /\ loc'[r].pc \in {"load", "save", "queue"}
                           <=> loc[r].pc \in {"load", "save", "queue"}
                      /\ loc'[r].pc \in StartPcs <=> loc[r].pc \in StartPcs
    OBVIOUS
  <2>1. CASE r = s BY <1>1, <2>1 DEF StartPcs
  <2>2. CASE r # s BY <1>1, <2>2
  <2> QED BY <2>1, <2>2
<1>10. \A i : Run(i)' <=> Run(i) BY DEF Run
<1>11. \A p \in Procs : resp'[p] # NoTurn => p \in Sessions /\ At(p, "rpc")'
  BY <1>1 DEF Responses, At
<1> QED
  BY <1>2, <1>3, <1>4, <1>5, <1>6, <1>7, <1>8, <1>9, <1>10, <1>11, SessionStep

\* A session with no operation, or whose only operation has yet to be
\* requested, has no request and no turn.
LEMMA NoneAsked ==
  ASSUME QueueInv, NEW s \in Sessions, sess[s].ops = NoOp \/ At(s, "mark")
  PROVE  ~Asked(s) /\ ~OpenTurn(s)
<1> USE Processes DEF QueueInv
<1>1. ~OpenTurn(s)
  <2> SUFFICES ASSUME NEW t \in DOMAIN turns, turns[t].key = s, Unsettled(t)
               PROVE  FALSE
    BY DEF OpenTurn
  <2>1. TurnOk(t) BY DEF Turns
  <2>2. \E i, u : sess[s].ops = Op(i, u)
    BY <2>1 DEF TurnOk, Unbound, BindingNow, Bound
  <2>3. sess[s].ops # NoOp BY <2>2, OpSome
  <2>4. ~At(s, "mark") BY <2>1 DEF TurnOk
  <2> QED BY <2>3, <2>4
<1>2. ~Asked(s)
  <2> SUFFICES ASSUME NEW c \in inbox, c.key = s PROVE FALSE
    BY DEF Asked
  <2>1. RequestOk(c) BY DEF Requests
  <2>2. \E i, u : sess[s].ops = Op(i, u) BY <2>1 DEF RequestOk
  <2>3. sess[s].ops # NoOp BY <2>2, OpSome
  <2>4. ~At(s, "mark") BY <2>1 DEF RequestOk, At
  <2> QED BY <2>3, <2>4
<1> QED BY <1>1, <1>2

\* An unchanged App Server, and Events elsewhere, leave a session without open
\* turns without open turns.
LEMMA StillNoTurn ==
  ASSUME QueueInv, NEW s \in Sessions, ~OpenTurn(s),
         loc'[Events] = loc[Events], UNCHANGED <<turns, wire>>
  PROVE  ~OpenTurn(s)'
<1>1. \A t \in DOMAIN turns : Unsettled(t)' <=> Unsettled(t)
  BY DEF Unsettled, OnWire, At
<1> QED BY <1>1 DEF OpenTurn

\* A session left without open turns and requests has its part of the invariant
\* if its process and its record have theirs.
LEMMA OwnClosed ==
  ASSUME NEW s \in Sessions, Worker(s)', SingleOk(s)', WokenOk(s)',
         ~OpenTurn(s)', ~Asked(s)', ~At(s, "rpc")',
         sess'[s].ops # NoOp => At(s, "mark")'
  PROVE  Own(s)'
<1>1. BackedOk(s)' BY DEF BackedOk, NoOp
<1>2. ResponseOk(s)' BY DEF ResponseOk
<1>3. \A t \in DOMAIN turns' : ~(turns'[t].key = s /\ Unsettled(t)')
  BY DEF OpenTurn
<1>4. \A c \in inbox' : c.key # s BY DEF Asked
<1> QED BY <1>1, <1>2, <1>3, <1>4 DEF Own

\* The submission the process of s works on.
LEMMA WorkersSub ==
  ASSUME QueueInv, NEW s \in Sessions,
         loc[s].pc \in {"thread", "mark", "rpc", "activate"}
  PROVE  /\ loc[s].sub \in Subs /\ Held(loc[s].sub, s) /\ Alive(loc[s].sub)
         /\ ~At(s, "thread") => sess[s].ops = Op(loc[s].sub, NoTurn)
<1> USE Processes DEF QueueInv
<1> PICK i : i = loc[s].sub OBVIOUS
<1>1. CASE At(s, "thread")
  <2>1. i \in Subs BY <1>1 DEF Workers, Worker
  <2>2. Held(i, s) BY <1>1 DEF Held
  <2>3. Alive(i) BY <2>1, <2>2 DEF Places
  <2> QED BY <1>1, <2>1, <2>2, <2>3
<1>2. CASE ~At(s, "thread")
  <2>1. sess[s].ops = Op(i, NoTurn) BY <1>2 DEF Workers, Worker, At
  <2>2. Held(i, s) BY <2>1, HeldOp
  <2>3. sess[s].ops \in Seq(Operations) BY DEF SessionTypes, Records
  <2>4. 1 \in DOMAIN Op(i, NoTurn) /\ Op(i, NoTurn)[1].sub = i BY DEF Op
  <2>5. i \in Subs
    <3>1. Op(i, NoTurn) \in Seq(Operations) BY <2>1, <2>3
    <3>2. Op(i, NoTurn)[1] \in Operations BY <2>4, <3>1, Element
    <3> QED BY <2>4, <3>2 DEF Operations
  <2>6. Alive(i) BY <2>2, <2>5 DEF Places
  <2> QED BY <1>2, <2>1, <2>2, <2>5, <2>6
<1> QED BY <1>1, <1>2

\* thread/start and the record of the operation
LEMMA ThreadStep ==
  ASSUME QueueInv, NEW s \in Sessions, StartThread(s)
  PROVE  QueueInv'
<1> USE Processes DEF QueueInv
<1>0. /\ loc[s].key = s /\ loc[s].hold = s /\ actor[s] = s /\ loc[s].pc = "thread"
      /\ loc \in [Procs -> Locals] /\ loc[s] \in Locals /\ s \in Procs
      /\ sess \in [Sessions -> Records] /\ sess[s] \in Records
      /\ sess[s].ops = NoOp /\ loc[s].snap = sess[s] /\ pending[s] = <<>>
      /\ pending \in [Sessions -> Seq(Subs)]
  BY OwnKey DEF StartThread, At, ProcTypes, SessionTypes, Workers, Worker,
                Single, SingleOk
<1> PICK i \in Subs : i = loc[s].sub BY <1>0, WorkersSub
<1>1. Held(i, s) /\ Alive(i) /\ ~Requested(i) /\ ~Run(i)
  BY <1>0, WorkersSub DEF Places
<1>2. ~Asked(s) /\ ~OpenTurn(s) BY <1>0, NoneAsked
<1> PICK sr : sr = [sess[s] EXCEPT !.ops = Op(i, NoTurn), !.thread = TRUE]
  OBVIOUS
<1>3. /\ sr \in Records /\ sr.ops = Op(i, NoTurn) /\ sr.thread
      /\ sr.queue = sess[s].queue
  <2>1. [sub |-> i, turn |-> NoTurn] \in Operations BY DEF Operations, NoTurn
  <2>2. Op(i, NoTurn) \in Seq(Operations) BY <2>1 DEF Op
  <2> QED BY <1>0, <2>2 DEF Records
<1> DEFINE w == [loc[s] EXCEPT !.pc = "mark", !.snap = sr]
<1>4. /\ sess' = [sess EXCEPT ![s] = sr] /\ loc' = [loc EXCEPT ![s] = w]
      /\ pending' = [pending EXCEPT ![s] = <<i>>]
  <2>1. Exists(i) BY <1>1 DEF Alive
  <2>2. UpsertActiveOperation(sess[s], i, NoTurn)
          = [sess[s] EXCEPT !.ops = Op(i, NoTurn)]
    <3>1. NoTurn \in Nat BY DEF NoTurn
    <3> QED BY <1>0, <3>1, UpsertOnly
  <2>3. [UpsertActiveOperation(loc[s].snap, i, NoTurn) EXCEPT !.thread = TRUE] = sr
    BY <1>0, <2>2
  <2>4. ~Contains(<<>>, i) BY DEF Contains
  <2>5. Append(<<>>, i) = <<i>> OBVIOUS
  <2>6. /\ NotePendingTurnBinding(s, i) /\ SaveSession(s, sr)
        /\ loc' = [loc EXCEPT ![s].pc = "mark", ![s].snap = sr]
    BY <1>0, <2>1, <2>3 DEF StartThread
  <2>7. pending' = [pending EXCEPT ![s] = <<i>>]
    BY <1>0, <2>4, <2>5, <2>6 DEF NotePendingTurnBinding
  <2> QED BY <1>0, <2>6, <2>7 DEF SaveSession
<1>5. UNCHANGED <<sub, starts, actor, wake, bindings, inputs, created, failures,
                  server, resp, outcome, panicked>>
  BY DEF StartThread
<1>6. w \in Locals /\ w.pc = "mark" /\ w.key = s /\ w.hold = s /\ w.snap = sr
      /\ w.sub = i
  BY <1>0, <1>3 DEF Locals, Pcs, WorkerPcs, StartPcs, EventPcs
<1> HIDE DEF w
<1>7. /\ loc' \in [Procs -> Locals] /\ loc'[s] = w
      /\ \A p \in Procs \ {s} : loc'[p] = loc[p]
      /\ sess'[s] = sr /\ \A r \in Sessions \ {s} : sess'[r] = sess[r]
      /\ pending'[s] = <<i>>
  BY <1>0, <1>4, <1>6
<1>8. resp' = [resp EXCEPT ![s] = NoTurn]
  BY <1>0, <1>5 DEF Responses, At, ProcTypes
<1>9. Own(s)'
  <2>1. ~OpenTurn(s)' BY <1>2, <1>5, <1>7, StillNoTurn DEF server
  <2>2. ~Asked(s)' BY <1>2, <1>5 DEF Asked, server
  <2>3. At(s, "mark")' BY <1>6, <1>7 DEF At
  <2>4. Worker(s)' BY <1>3, <1>6, <1>7 DEF Worker, At
  <2>5. sess'[s].ops # NoOp BY <1>3, <1>7, OpSome
  <2>6. SingleOk(s)'
    <3>1. /\ Len(Op(i, NoTurn)) = 1 /\ Op(i, NoTurn)[1].sub = i
          /\ Op(i, NoTurn)[1].turn = NoTurn
      BY DEF Op
    <3>2. sess'[s].ops = Op(i, NoTurn) BY <1>3, <1>7
    <3> QED BY <1>7, <2>5, <3>1, <3>2 DEF SingleOk
  <2>7. WokenOk(s)' BY <2>5 DEF WokenOk, NoOp
  <2>8. ~At(s, "rpc")' BY <2>3 DEF At
  <2> QED BY <2>1, <2>2, <2>3, <2>4, <2>6, <2>7, <2>8, OwnClosed
<1>10. /\ \A r \in Sessions : \A j : Held(j, r)' <=> Held(j, r)
       /\ \A j : (Alive(j)' <=> Alive(j)) /\ (Run(j)' <=> Run(j))
                 /\ (Requested(j)' <=> Requested(j))
       /\ \A r \in Sessions : sess'[r].queue = sess[r].queue
  <2>1. \A j : Held(j, s)' <=> j = i
    <3>1. sess'[s].ops = Op(i, NoTurn) /\ ~At(s, "thread")'
      BY <1>3, <1>6, <1>7 DEF At
    <3>2. \A j : (\E k \in DOMAIN Op(i, NoTurn) : Op(i, NoTurn)[k].sub = j) <=> j = i
      BY DEF Op
    <3> QED BY <3>1, <3>2 DEF Held
  <2>2. \A j : Held(j, s) <=> j = i
    BY <1>0 DEF Held, At, NoOp
  <2>3. \A r \in Sessions \ {s} : \A j : Held(j, r)' <=> Held(j, r)
    BY <1>7 DEF Held, At
  <2>4. \A j : (Alive(j)' <=> Alive(j)) /\ (Run(j)' <=> Run(j))
               /\ (Requested(j)' <=> Requested(j))
    BY <1>5 DEF Alive, Exists, Run, Requested, server
  <2> QED BY <1>3, <1>7, <2>1, <2>2, <2>3, <2>4
<1>11. Places' /\ Accounted'
  <2>1. \A r \in Sessions : \A j \in Subs :
          loc'[r].pc \in {"thread", "mark"} /\ loc'[r].sub = j =>
            ~Requested(j)' /\ ~Run(j)'
    <3>1. loc'[s].sub = i BY <1>6, <1>7
    <3> QED BY <1>1, <1>7, <1>10, <3>1 DEF Places
  <2> QED BY <1>5, <1>10, <2>1, PlacesFrame DEF Places
<1>12. SubTypes' /\ OwnTurn'
  BY <1>5 DEF SubTypes, OwnTurn, server
<1>13. /\ wake' \in [Sessions -> Nat]
       /\ inbox' \subseteq [key : Sessions, sub : Subs, proc : Procs \cup {None}]
       /\ \A c \in inbox' : ~Run(c.sub)
       /\ \A t \in DOMAIN bindings' : t \in DOMAIN turns /\ bindings'[t] \in Subs
  BY <1>5 DEF SessionTypes, ServerTypes, Requests, server
<1>14. UNCHANGED <<starts, actor, created, inputs, turns, wire, panicked, inbox,
                   bindings, wake, outcome>>
  BY <1>5 DEF server
<1>15. <<i>> \in Seq(Subs) OBVIOUS
<1> QED
  BY <1>0, <1>3, <1>4, <1>6, <1>8, <1>9, <1>11, <1>12, <1>13, <1>14, <1>15,
     StartStep

\* HandleSubmissionStartFailure: the submission is settled, its operation and
\* its pending binding go, and the next start is posted
LEMMA FailStep ==
  ASSUME QueueInv, Separate, NEW s \in Sessions,
         At(s, "thread") \/ (At(s, "rpc") /\ resp[s] = Failed),
         HandleSubmissionStartFailure(s),
         resp' = [resp EXCEPT ![s] = NoTurn], failures' \in 0 .. MaxFailures,
         UNCHANGED <<starts, actor, inputs, created, server, panicked>>
  PROVE  QueueInv'
<1> USE Processes DEF QueueInv
<1>0. /\ loc[s].key = s /\ loc[s].hold = s /\ actor[s] = s
      /\ loc[s].pc \in {"thread", "rpc"}
      /\ loc \in [Procs -> Locals] /\ loc[s] \in Locals /\ s \in Procs
      /\ sess \in [Sessions -> Records] /\ sess[s] \in Records
      /\ pending \in [Sessions -> Seq(Subs)] /\ wake \in [Sessions -> Nat]
  BY OwnKey DEF At, ProcTypes, SessionTypes
<1> PICK i \in Subs : i = loc[s].sub BY <1>0, WorkersSub
<1>1. Held(i, s) /\ Alive(i) BY <1>0, WorkersSub
<1>2. /\ ~Asked(s) /\ ~OpenTurn(s) /\ ~Run(i)
      /\ pending[s] = <<>> \/ pending[s] = <<i>>
      /\ sess[s].ops = NoOp \/ sess[s].ops = Op(i, NoTurn)
  <2>1. CASE At(s, "thread")
    <3>1. sess[s].ops = NoOp BY <2>1 DEF Workers, Worker, At
    <3>2. pending[s] = <<>> BY <3>1 DEF Single, SingleOk
    <3>3. ~Run(i) BY <2>1 DEF Places, At
    <3> QED BY <3>1, <3>2, <3>3, NoneAsked
  <2>2. CASE At(s, "rpc") /\ resp[s] = Failed
    <3>1. sess[s].ops = Op(i, NoTurn) /\ pending[s] = <<i>>
      BY <2>2 DEF Workers, Worker, At
    <3>2. ~(resp[s] \in DOMAIN turns) BY <2>2, Entities DEF Failed
    <3>3. ~Asked(s) /\ ~OpenTurn(s) /\ ~Run(i)
      BY <2>2, <3>2 DEF Responses, ResponseOk, Failed, NoTurn
    <3> QED BY <3>1, <3>3
  <2> QED BY <2>1, <2>2
<1>3. /\ \A j : Held(j, s) <=> j = i
      /\ sub[i].turn = NoTurn /\ NoTurn \notin DOMAIN bindings
  <2>1. ASSUME NEW j, Held(j, s) PROVE j = i
    <3>1. CASE At(s, "thread") /\ loc[s].sub = j BY <3>1
    <3>2. CASE \E k \in DOMAIN sess[s].ops : sess[s].ops[k].sub = j
      BY <1>2, <3>2 DEF Op, NoOp
    <3> QED BY <2>1, <3>1, <3>2 DEF Held
  <2>2. sub[i].turn = NoTurn BY <1>2 DEF OwnTurn, Run
  <2>3. NoTurn \notin DOMAIN bindings BY Entities DEF ServerTypes, NoTurn
  <2> QED BY <1>1, <2>1, <2>2, <2>3
<1>p. PICK keep \in BOOLEAN :
      LET rec == RemoveActiveOperation(sess[s], i, NoTurn)
          ss == [sess EXCEPT ![s] = [rec EXCEPT !.thread = @ /\ keep]]
      IN  /\ sess' = ss
          /\ CleanupSubmissionRuntimeState(s, i)
          /\ outcome' = IF Exists(i) THEN [outcome EXCEPT ![i] = Failed]
                        ELSE outcome
          /\ wake' = Wake(wake, NextQueuedSessionKey(ss, s))
          /\ Goto(s, "end")
  BY <1>0 DEF HandleSubmissionStartFailure
<1>q. PICK sr : sr = [sess[s] EXCEPT !.ops = NoOp, !.thread = @ /\ keep]
  OBVIOUS
<1>4. /\ sr \in Records /\ sr.ops = NoOp /\ sr.queue = sess[s].queue
  <2>1. NoOp \in Seq(Operations) BY DEF NoOp
  <2>2. (sess[s].thread /\ keep) \in BOOLEAN OBVIOUS
  <2> QED BY <1>0, <1>q, <2>1, <2>2 DEF Records
<1> DEFINE w == [loc[s] EXCEPT !.pc = "end"]
<1>5. /\ sess' = [sess EXCEPT ![s] = sr] /\ loc' = [loc EXCEPT ![s] = w]
      /\ pending' = [pending EXCEPT ![s] = <<>>]
      /\ bindings' = [u \in DOMAIN bindings |-> bindings[u]]
      /\ sub' = [sub EXCEPT ![i].exists = FALSE, ![i].finalized = TRUE]
      /\ outcome' = [outcome EXCEPT ![i] = Failed]
      /\ wake' = Wake(wake, NextQueuedSessionKey(sess', s))
  <2>1. RemoveActiveOperation(sess[s], i, NoTurn) = [sess[s] EXCEPT !.ops = NoOp]
    <3>1. sess[s].ops = NoOp \/ \E u : sess[s].ops = Op(i, u) BY <1>2
    <3> QED BY <1>0, <3>1, RemoveOnly
  <2>2. sess' = [sess EXCEPT ![s] = sr] BY <1>p, <1>q, <2>1
  <2>3. Exists(i) BY <1>1 DEF Alive
  <2>4. Without(pending[s], i) = <<>> BY <1>2, WithoutOnly
  <2>5. pending' = [pending EXCEPT ![s] = <<>>]
    BY <1>0, <1>p, <2>4 DEF CleanupSubmissionRuntimeState, ClearPendingTurnBinding
  <2>6. bindings' = [u \in DOMAIN bindings |-> bindings[u]]
    BY <1>3, <1>p DEF CleanupSubmissionRuntimeState, ClearTurnBinding
  <2>7. loc' = [loc EXCEPT ![s] = w] BY <1>p DEF Goto
  <2> QED BY <1>p, <2>2, <2>3, <2>5, <2>6, <2>7 DEF CleanupSubmissionRuntimeState
<1>6. w \in Locals /\ w.pc = "end" /\ w.key = s /\ w.hold = s
  BY <1>0 DEF Locals, Pcs, WorkerPcs, StartPcs, EventPcs
<1> HIDE DEF w
<1>7. /\ loc' \in [Procs -> Locals] /\ loc'[s] = w
      /\ \A p \in Procs \ {s} : loc'[p] = loc[p]
      /\ sess' \in [Sessions -> Records]
      /\ sess'[s] = sr /\ \A r \in Sessions \ {s} : sess'[r] = sess[r]
      /\ pending'[s] = <<>>
  BY <1>0, <1>4, <1>5, <1>6
<1>a. /\ sub' \in [Subs -> [exists : BOOLEAN, running : BOOLEAN,
                            finalized : BOOLEAN, turn : Nat]]
      /\ sub'[i].finalized /\ sub'[i].turn = sub[i].turn
      /\ \A j \in Subs \ {i} : sub'[j] = sub[j]
  <2>1. sub \in [Subs -> [exists : BOOLEAN, running : BOOLEAN,
                          finalized : BOOLEAN, turn : Nat]]
    BY DEF SubTypes
  <2>2. sub' = [sub EXCEPT ![i].exists = FALSE, ![i].finalized = TRUE]
    BY <1>5
  <2> PICK gone : gone = [sub[i] EXCEPT !.exists = FALSE, !.finalized = TRUE]
    OBVIOUS
  <2>3. /\ gone \in [exists : BOOLEAN, running : BOOLEAN,
                     finalized : BOOLEAN, turn : Nat]
        /\ gone.finalized /\ gone.turn = sub[i].turn
    BY <2>1
  <2>4. sub' = [sub EXCEPT ![i] = gone] BY <2>1, <2>2
  <2> QED BY <2>1, <2>3, <2>4
<1>b. /\ outcome' \in [Subs -> Int] /\ outcome'[i] = Failed
      /\ \A j \in Subs \ {i} : outcome'[j] = outcome[j]
  BY <1>5 DEF SubTypes, Failed
<1>8. /\ wake' \in [Sessions -> Nat]
      /\ \A r \in Sessions \ {s} : wake'[r] = wake[r]
      /\ sr.queue # <<>> => wake'[s] > 0
  <2>1. NextQueuedSessionKey(sess', s)
          = IF sr.queue # <<>> /\ sr.ops = NoOp THEN s ELSE None
    <3>1. ~Serial BY DEF Separate
    <3>2. NextQueuedSessionKey(sess', s)
            = IF sess'[s].queue # <<>> /\ sess'[s].ops = NoOp THEN s ELSE None
      BY <1>7, <3>1, NextOwn
    <3> QED BY <1>7, <3>2
  <2>2. s # None OBVIOUS
  <2>3. CASE sr.queue # <<>>
    <3>1. wake' = [wake EXCEPT ![s] = @ + 1]
      BY <1>4, <1>5, <2>1, <2>2, <2>3 DEF Wake
    <3>2. wake[s] \in Nat BY <1>0
    <3>3. wake' \in [Sessions -> Nat] BY <1>0, <3>1, <3>2
    <3>4. wake'[s] = wake[s] + 1 BY <1>0, <3>1
    <3>5. \A r \in Sessions \ {s} : wake'[r] = wake[r] BY <1>0, <3>1
    <3> QED BY <3>2, <3>3, <3>4, <3>5
  <2>4. CASE sr.queue = <<>>
    <3>1. wake' = wake BY <1>5, <2>1, <2>4 DEF Wake
    <3> QED BY <1>0, <2>4, <3>1
  <2> QED BY <2>3, <2>4
<1>9. Own(s)'
  <2>1. ~OpenTurn(s)' BY <1>2, <1>7, StillNoTurn DEF server
  <2>2. ~Asked(s)' BY <1>2 DEF Asked, server
  <2>3. Worker(s)' BY <1>6, <1>7 DEF Worker, At
  <2>4. SingleOk(s)' BY <1>4, <1>7 DEF SingleOk, NoOp
  <2>5. WokenOk(s)' BY <1>7, <1>8 DEF WokenOk
  <2>6. ~At(s, "rpc")' /\ sess'[s].ops = NoOp BY <1>4, <1>6, <1>7 DEF At
  <2> QED BY <2>1, <2>2, <2>3, <2>4, <2>5, <2>6, OwnClosed
<1>10. /\ \A r \in Sessions : \A j : Held(j, r)' <=> Held(j, r) /\ j # i
       /\ \A j \in Subs \ {i} : Alive(j)' <=> Alive(j)
       /\ \A j : (Run(j)' <=> Run(j)) /\ (Requested(j)' <=> Requested(j))
       /\ \A r \in Sessions : sess'[r].queue = sess[r].queue
  <2>1. \A j : ~Held(j, s)'
    <3>1. sess'[s].ops = NoOp /\ ~At(s, "thread")' BY <1>4, <1>6, <1>7 DEF At
    <3> QED BY <3>1 DEF Held, NoOp
  <2>2. \A r \in Sessions \ {s} : \A j : Held(j, r)' <=> Held(j, r)
    BY <1>7 DEF Held, At
  <2>3. \A r \in Sessions \ {s} : ~Held(i, r) BY <1>1 DEF Places
  <2>4. \A j \in Subs \ {i} : Alive(j)' <=> Alive(j)
    BY <1>a, <1>b DEF Alive, Exists
  <2>5. \A j : (Run(j)' <=> Run(j)) /\ (Requested(j)' <=> Requested(j))
    BY DEF Run, Requested, server
  <2> QED BY <1>3, <1>4, <1>7, <2>1, <2>2, <2>3, <2>4, <2>5
<1>11. Places' /\ Accounted'
  <2>1. \A r \in Sessions : \A j \in Subs :
          loc'[r].pc \in {"thread", "mark"} /\ loc'[r].sub = j =>
            ~Requested(j)' /\ ~Run(j)'
    BY <1>6, <1>7, <1>10 DEF Places
  <2>2. \A r \in Sessions : \A j \in Subs : Held(j, r)' => Held(j, r) /\ Alive(j)'
    BY <1>10 DEF Places
  <2>3. \A r \in Sessions : \A j \in Subs :
          Queued(j, r) => Alive(j)' /\ ~Requested(j)' /\ ~Run(j)'
    BY <1>1, <1>10 DEF Places
  <2>4. \A j \in Subs : j > created =>
          ~sub'[j].finalized /\ outcome'[j] = NoTurn /\ ~Run(j)'
    <3>1. \A j \in Subs : j > created => j # i BY <1>1 DEF Alive, SubTypes
    <3> QED BY <1>a, <1>b, <1>10, <3>1 DEF Places
  <2>5. \A j \in Subs : outcome[j] # NoTurn => outcome'[j] # NoTurn
    BY <1>b DEF Failed, NoTurn
  <2>6. \A j \in 1 .. created : j \in Subs
    BY QueueAssumption DEF SubTypes, Subs, QueueAssumption
  <2>7. \A r \in Sessions : \A j \in 1 .. created :
          Held(j, r) => Held(j, r)' \/ outcome'[j] # NoTurn
    BY <1>b, <1>10 DEF Failed, NoTurn
  <2> QED BY <1>10, <2>1, <2>2, <2>3, <2>4, <2>5, <2>6, <2>7, PlacesFrame
<1>12. SubTypes' BY <1>a, <1>b DEF SubTypes
<1>13. OwnTurn' BY <1>a DEF OwnTurn, server
<1>14. /\ inbox' \subseteq [key : Sessions, sub : Subs, proc : Procs \cup {None}]
       /\ \A c \in inbox' : ~Run(c.sub)
       /\ \A t \in DOMAIN bindings' : t \in DOMAIN turns /\ bindings'[t] \in Subs
       /\ \A t \in DOMAIN turns :
            /\ t \in DOMAIN bindings' <=> t \in DOMAIN bindings
            /\ t \in DOMAIN bindings => bindings'[t] = bindings[t]
  BY <1>5 DEF ServerTypes, Requests, server
<1>15. UNCHANGED <<inbox, turns, wire>> BY DEF server
<1>16. <<>> \in Seq(Subs) OBVIOUS
<1>17. \A j \in Subs : outcome[j] # NoTurn => outcome'[j] # NoTurn
  BY <1>b DEF Failed, NoTurn
<1> QED
  BY <1>0, <1>4, <1>5, <1>6, <1>8, <1>9, <1>11, <1>12, <1>13, <1>14, <1>15,
     <1>16, <1>17, StartStep

\* thread/start or turn/start is answered with an error.
LEMMA FailureSteps ==
  ASSUME QueueInv, Separate, NEW s \in Sessions,
         ThreadStartFails(s) \/ TurnStartFails(s)
  PROVE  QueueInv'
<1> USE DEF QueueInv
<1>1. CASE ThreadStartFails(s)
  <2>1. failures' \in 0 .. MaxFailures
    BY <1>1, QueueAssumption DEF ThreadStartFails, SubTypes, QueueAssumption
  <2>2. resp' = [resp EXCEPT ![s] = NoTurn]
    BY <1>1, Processes DEF ThreadStartFails, Responses, At, ProcTypes
  <2> QED BY <1>1, <2>1, <2>2, FailStep DEF ThreadStartFails
<1>2. CASE TurnStartFails(s)
  BY <1>2, FailStep DEF TurnStartFails, SubTypes
<1> QED BY <1>1, <1>2

\* The places of the submissions when a step of the process of s keeps what is
\* held, queued and settled.
LEMMA PlacesSame ==
  ASSUME QueueInv, UNCHANGED <<created, outcome, turns>>,
         \A r \in Sessions : sess'[r].queue = sess[r].queue,
         \A r \in Sessions : \A j \in Subs : Held(j, r)' <=> Held(j, r),
         \A j \in Subs : /\ sub'[j].exists = sub[j].exists
                         /\ sub'[j].finalized = sub[j].finalized,
         \A j \in Subs : Requested(j)' => Requested(j) \/ \E r \in Sessions : Held(j, r),
         \A r \in Sessions : \A j \in Subs :
           loc'[r].pc \in {"thread", "mark"} /\ loc'[r].sub = j =>
             ~Requested(j)' /\ ~Run(j)
  PROVE  Places' /\ Accounted'
<1> USE DEF QueueInv
<1>1. \A j \in Subs : (Alive(j)' <=> Alive(j)) /\ (Run(j)' <=> Run(j))
  BY DEF Alive, Exists, Run
<1>2. \A j \in 1 .. created : j \in Subs
  BY QueueAssumption DEF SubTypes, Subs, QueueAssumption
<1>3. \A r \in Sessions : \A j \in Subs :
        Queued(j, r) => Alive(j)' /\ ~Requested(j)' /\ ~Run(j)'
  BY <1>1 DEF Places
<1>4. \A r \in Sessions : \A j \in Subs : Held(j, r)' => Held(j, r) /\ Alive(j)'
  BY <1>1 DEF Places
<1>5. \A j \in Subs : j > created =>
        ~sub'[j].finalized /\ outcome'[j] = NoTurn /\ ~Run(j)'
  BY <1>1 DEF Places
<1>6. \A r \in Sessions : \A j \in Subs :
        loc'[r].pc \in {"thread", "mark"} /\ loc'[r].sub = j =>
          ~Requested(j)' /\ ~Run(j)'
  BY <1>1
<1>7. \A r \in Sessions : \A j \in 1 .. created :
        Held(j, r) => Held(j, r)' \/ outcome'[j] # NoTurn
  BY <1>2
<1> QED BY <1>3, <1>4, <1>5, <1>6, <1>7, PlacesFrame

\* The turn/start request
LEMMA MarkStep ==
  ASSUME QueueInv, NEW s \in Sessions, StartMark(s)
  PROVE  QueueInv'
<1> USE Processes DEF QueueInv
<1>0. /\ loc[s].key = s /\ loc[s].hold = s /\ actor[s] = s /\ loc[s].pc = "mark"
      /\ loc \in [Procs -> Locals] /\ loc[s] \in Locals /\ s \in Procs
      /\ sess \in [Sessions -> Records] /\ sess[s] \in Records
      /\ pending \in [Sessions -> Seq(Subs)] /\ pending[s] \in Seq(Subs)
  BY OwnKey DEF StartMark, At, ProcTypes, SessionTypes
<1>i. PICK i \in Subs : i = loc[s].sub BY <1>0, WorkersSub
<1>1. /\ Held(i, s) /\ Alive(i) /\ ~Requested(i) /\ ~Run(i)
      /\ sess[s].ops = Op(i, NoTurn) /\ pending[s] = <<i>> /\ sess[s].thread
      /\ loc[s].snap = sess[s]
  BY <1>0, <1>i, WorkersSub DEF Places, Workers, Worker, At
<1>2. ~Asked(s) /\ ~OpenTurn(s) BY <1>0, NoneAsked DEF At
<1> DEFINE w == [loc[s] EXCEPT !.pc = "rpc"]
           c == [key |-> s, sub |-> i, proc |-> s]
<1>3. /\ loc' = [loc EXCEPT ![s] = w] /\ inbox' = inbox \cup {c}
      /\ sub' = [sub EXCEPT ![i].running = TRUE, ![i].turn = @]
      /\ pending' = pending
  <2>1. Exists(i) BY <1>1 DEF Alive
  <2>2. MarkSubmissionRunning(i, NoTurn) /\ inbox' = inbox \cup {c}
        /\ Goto(s, "rpc") /\ pending' = pending
    BY <1>0, <1>i, <2>1 DEF StartMark
  <2> QED BY <2>1, <2>2 DEF MarkSubmissionRunning, Goto
<1>4. UNCHANGED <<sess, starts, actor, wake, bindings, inputs, created,
                  failures, resp, turns, wire, outcome, panicked>>
  BY DEF StartMark
<1>5. /\ w \in Locals /\ w.pc = "rpc" /\ w.key = s /\ w.hold = s /\ w.sub = i
      /\ w.snap = sess[s]
  BY <1>0, <1>i, <1>1 DEF Locals, Pcs, WorkerPcs, StartPcs, EventPcs
<1>6. c.key = s /\ c.sub = i /\ c.proc = s
      /\ c \in [key : Sessions, sub : Subs, proc : Procs \cup {None}]
  BY <1>0
<1> HIDE DEF w, c
<1>7. /\ loc' \in [Procs -> Locals] /\ loc'[s] = w
      /\ \A p \in Procs \ {s} : loc'[p] = loc[p]
  BY <1>0, <1>3, <1>5
<1>8. /\ sub' \in [Subs -> [exists : BOOLEAN, running : BOOLEAN,
                            finalized : BOOLEAN, turn : Nat]]
      /\ \A j \in Subs : /\ sub'[j].exists = sub[j].exists
                         /\ sub'[j].finalized = sub[j].finalized
                         /\ sub'[j].turn = sub[j].turn
  BY <1>3 DEF SubTypes
<1>9. resp[s] = NoTurn /\ resp' = [resp EXCEPT ![s] = NoTurn]
  BY <1>0, <1>4 DEF Responses, At, ProcTypes
<1>10. Own(s)'
  <2>1. ~OpenTurn(s)' BY <1>2, <1>4, <1>7, StillNoTurn
  <2>2. sess'[s].ops # NoOp BY <1>1, <1>4, OpSome
  <2>3. SingleOk(s)' BY <1>1, <1>3, <1>4 DEF Single, SingleOk
  <2>4. WokenOk(s)' BY <2>2 DEF WokenOk
  <2>5. Worker(s)' BY <1>1, <1>3, <1>4, <1>5, <1>7 DEF Worker, At
  <2>6. /\ c \in inbox' /\ \A d \in inbox' : d.key = s => d = c
    BY <1>2, <1>3 DEF Asked
  <2>7. RequestOk(c)'
    BY <1>1, <1>3, <1>4, <1>5, <1>6, <1>7, <1>9 DEF RequestOk, At, None
  <2>8. BackedOk(s)' /\ ResponseOk(s)'
    BY <1>4, <1>6, <1>9, <2>6 DEF BackedOk, ResponseOk, Asked
  <2> QED BY <2>1, <2>3, <2>4, <2>5, <2>6, <2>7, <2>8 DEF Own, OpenTurn
<1>11. Places' /\ Accounted'
  <2>1. \A r \in Sessions : \A j \in Subs : Held(j, r)' <=> Held(j, r)
    BY <1>0, <1>1, <1>4, <1>5, <1>7, HeldOp DEF Held, At
  <2>2. \A j : Requested(j)' <=> Requested(j) \/ j = i
    BY <1>3, <1>6 DEF Requested
  <2>3. \A r \in Sessions : \A j \in Subs :
          loc'[r].pc \in {"thread", "mark"} /\ loc'[r].sub = j =>
            ~Requested(j)' /\ ~Run(j)
    <3>1. ASSUME NEW r \in Sessions, NEW j \in Subs,
                 loc'[r].pc \in {"thread", "mark"}, loc'[r].sub = j
          PROVE  ~Requested(j)' /\ ~Run(j)
      <4>1. r # s /\ loc'[r] = loc[r] BY <1>5, <1>7, <3>1
      <4>2. ~Requested(j) /\ ~Run(j) /\ Held(j, r)
        BY <3>1, <4>1, WorkersSub DEF Places
      <4>3. j # i BY <1>1, <4>1, <4>2 DEF Places
      <4> QED BY <2>2, <4>2, <4>3
    <3> QED BY <3>1
  <2>4. \A j \in Subs : Requested(j)' => Requested(j) \/ \E r \in Sessions : Held(j, r)
    BY <1>1, <2>2
  <2> QED BY <1>4, <1>8, <2>1, <2>3, <2>4, PlacesSame
<1>12. SubTypes' /\ OwnTurn' BY <1>4, <1>8 DEF SubTypes, OwnTurn
<1>13. /\ wake' \in [Sessions -> Nat]
       /\ inbox' \subseteq [key : Sessions, sub : Subs, proc : Procs \cup {None}]
       /\ \A d \in inbox' : ~Run(d.sub)
       /\ \A d \in inbox' : d.key # s => d \in inbox
       /\ \A d \in inbox : d.key # s => d \in inbox'
       /\ \A t \in DOMAIN bindings' : t \in DOMAIN turns /\ bindings'[t] \in Subs
  BY <1>1, <1>3, <1>4, <1>6 DEF SessionTypes, ServerTypes, Requests
<1>14. /\ sess' = [sess EXCEPT ![s] = sess[s]]
       /\ pending' = [pending EXCEPT ![s] = pending[s]]
  BY <1>0, <1>3, <1>4
<1> QED
  BY <1>0, <1>3, <1>4, <1>5, <1>9, <1>10, <1>11, <1>12, <1>13, <1>14, StartStep

\* The deadline of turn/start: the request stays, but nobody waits for it.
LEMMA TimeoutStep ==
  ASSUME QueueInv, NEW s \in Sessions, TurnStartTimesOut(s)
  PROVE  QueueInv'
<1> USE Processes DEF QueueInv
<1>0. /\ loc[s].key = s /\ loc[s].hold = s /\ actor[s] = s /\ loc[s].pc = "rpc"
      /\ loc \in [Procs -> Locals] /\ loc[s] \in Locals /\ s \in Procs
      /\ sess \in [Sessions -> Records] /\ sess[s] \in Records
      /\ pending \in [Sessions -> Seq(Subs)] /\ pending[s] \in Seq(Subs)
      /\ resp[s] = NoTurn /\ resp \in [Procs -> Int]
  BY OwnKey DEF TurnStartTimesOut, At, ProcTypes, SessionTypes
<1>i. PICK i \in Subs : i = loc[s].sub BY <1>0, WorkersSub
<1>1. /\ Held(i, s) /\ sess[s].ops = Op(i, NoTurn) /\ pending[s] = <<i>>
      /\ sess[s].thread
  BY <1>0, <1>i, WorkersSub DEF Workers, Worker, At
<1>2. Asked(s) /\ ~OpenTurn(s)
  <2>1. ~(resp[s] \in DOMAIN turns) BY <1>0, Entities DEF NoTurn
  <2>2. Asked(s) BY <1>0, <2>1 DEF Responses, ResponseOk, At, Failed, NoTurn
  <2>3. ASSUME NEW t \in DOMAIN turns, turns[t].key = s, Unsettled(t)
        PROVE  FALSE
    BY <2>2, <2>3 DEF Turns, TurnOk
  <2> QED BY <2>2, <2>3 DEF OpenTurn
<1>c. PICK c \in inbox : c.key = s BY <1>2 DEF Asked
<1>3. /\ c.proc = s /\ c.sub = i /\ ~Run(i)
      /\ \A d \in inbox : d.proc = s \/ d.key = s => d = c
  <2>1. RequestOk(c) /\ ~Run(c.sub) BY DEF Requests
  <2>2. c.proc = s BY <1>0, <1>c, <2>1 DEF RequestOk
  <2>3. c.sub = i BY <1>1, <1>c, <2>1, OpSame DEF RequestOk
  <2>4. \A d \in inbox : d.proc = s => d.key = s
    BY DEF Requests, RequestOk
  <2> QED BY <1>c, <2>1, <2>2, <2>3, <2>4 DEF Requests
<1>d. PICK d : d = [c EXCEPT !.proc = None] OBVIOUS
<1>4. /\ d.key = s /\ d.sub = i /\ d.proc = None
      /\ d \in [key : Sessions, sub : Subs, proc : Procs \cup {None}]
      /\ inbox' = (inbox \ {c}) \cup {d}
  <2>1. c \in [key : Sessions, sub : Subs, proc : Procs \cup {None}]
    BY DEF ServerTypes
  <2>2. inbox' = {IF e.proc = s THEN [e EXCEPT !.proc = None] ELSE e : e \in inbox}
    BY DEF TurnStartTimesOut
  <2>3. inbox' = (inbox \ {c}) \cup {d}
    BY <1>3, <1>d, <2>2
  <2> QED BY <1>c, <1>3, <1>d, <2>1, <2>3
<1> DEFINE w == [loc[s] EXCEPT !.pc = "end"]
<1>5. /\ w \in Locals /\ w.pc = "end" /\ w.key = s /\ w.hold = s /\ w.sub = i
  BY <1>0, <1>i DEF Locals, Pcs, WorkerPcs, StartPcs, EventPcs
<1>6. loc' = [loc EXCEPT ![s] = w] BY DEF TurnStartTimesOut, Goto
<1>7. UNCHANGED <<sess, sub, starts, actor, wake, pending, bindings, inputs,
                  created, resp, turns, wire, outcome, panicked>>
  BY DEF TurnStartTimesOut, store, tracker
<1> HIDE DEF w
<1>8. /\ loc' \in [Procs -> Locals] /\ loc'[s] = w
      /\ \A p \in Procs \ {s} : loc'[p] = loc[p]
  BY <1>0, <1>5, <1>6
<1>9. Own(s)'
  <2>1. ~OpenTurn(s)' BY <1>2, <1>7, <1>8, StillNoTurn
  <2>2. sess'[s].ops # NoOp BY <1>1, <1>7, OpSome
  <2>3. SingleOk(s)' BY <1>7 DEF Single, SingleOk
  <2>4. WokenOk(s)' BY <2>2 DEF WokenOk
  <2>5. Worker(s)' BY <1>5, <1>8 DEF Worker, At
  <2>6. /\ d \in inbox' /\ \A e \in inbox' : e.key = s => e = d
    BY <1>3, <1>4
  <2>7. RequestOk(d)' BY <1>1, <1>4, <1>5, <1>7, <1>8 DEF RequestOk
  <2>8. BackedOk(s)' BY <1>4, <2>6 DEF BackedOk, Asked
  <2>9. ResponseOk(s)' BY <1>5, <1>8 DEF ResponseOk, At
  <2> QED BY <2>1, <2>3, <2>4, <2>5, <2>6, <2>7, <2>8, <2>9 DEF Own, OpenTurn
<1>10. Places' /\ Accounted'
  <2>1. \A r \in Sessions : \A j \in Subs : Held(j, r)' <=> Held(j, r)
    BY <1>0, <1>5, <1>7, <1>8 DEF Held, At
  <2>2. \A j : Requested(j)' <=> Requested(j)
    BY <1>3, <1>4 DEF Requested
  <2>3. \A r \in Sessions : \A j \in Subs :
          loc'[r].pc \in {"thread", "mark"} /\ loc'[r].sub = j =>
            ~Requested(j)' /\ ~Run(j)
    BY <1>5, <1>8, <2>2 DEF Places
  <2> QED BY <1>7, <2>1, <2>2, <2>3, PlacesSame
<1>11. SubTypes' /\ OwnTurn'
  BY <1>7, QueueAssumption DEF SubTypes, OwnTurn, TurnStartTimesOut, QueueAssumption
<1>12. /\ wake' \in [Sessions -> Nat]
       /\ inbox' \subseteq [key : Sessions, sub : Subs, proc : Procs \cup {None}]
       /\ \A e \in inbox' : ~Run(e.sub)
       /\ \A e \in inbox' : e.key # s => e \in inbox
       /\ \A e \in inbox : e.key # s => e \in inbox'
       /\ \A t \in DOMAIN bindings' : t \in DOMAIN turns /\ bindings'[t] \in Subs
  BY <1>c, <1>3, <1>4, <1>7 DEF SessionTypes, ServerTypes, Requests
<1>13. /\ sess' = [sess EXCEPT ![s] = sess[s]]
       /\ pending' = [pending EXCEPT ![s] = pending[s]]
       /\ resp' = [resp EXCEPT ![s] = NoTurn]
  BY <1>0, <1>7
<1> QED
  BY <1>0, <1>5, <1>6, <1>7, <1>9, <1>10, <1>11, <1>12, <1>13, StartStep

\* What the notifications and Events tell of a turn when neither changes.
LEMMA SameTurns ==
  ASSUME loc'[Events] = loc[Events], UNCHANGED <<turns, wire>>
  PROVE  \A t : /\ Unsettled(t)' <=> Unsettled(t)
                /\ Unstarted(t)' <=> Unstarted(t)
  BY DEF Unsettled, Unstarted, OnWire, At

\* A session with an open turn has its part of the invariant if its process, its
\* record and the turn have theirs.
LEMMA OwnOpen ==
  ASSUME NEW s \in Sessions, NEW t, t \in DOMAIN turns',
         turns'[t].key = s, Unsettled(t)', TurnOk(t)',
         \A u \in DOMAIN turns' : turns'[u].key = s /\ Unsettled(u)' => u = t,
         Worker(s)', SingleOk(s)', ResponseOk(s)', sess'[s].ops # NoOp
  PROVE  Own(s)'
<1>1. BackedOk(s)' BY DEF BackedOk, OpenTurn
<1>2. WokenOk(s)' BY DEF WokenOk, NoOp
<1>3. \A c \in inbox' : c.key # s BY DEF TurnOk, Asked
<1> QED BY <1>1, <1>2, <1>3 DEF Own

\* The response of turn/start: the turn is bound
LEMMA ResponseStep ==
  ASSUME QueueInv, NEW s \in Sessions, StartBind(s)
  PROVE  QueueInv'
<1> USE Processes DEF QueueInv
<1>0. /\ loc[s].key = s /\ loc[s].hold = s /\ actor[s] = s /\ loc[s].pc = "rpc"
      /\ loc \in [Procs -> Locals] /\ loc[s] \in Locals /\ s \in Procs
      /\ sess \in [Sessions -> Records] /\ sess[s] \in Records
      /\ pending \in [Sessions -> Seq(Subs)]
      /\ resp[s] # NoTurn /\ resp[s] # Failed /\ resp \in [Procs -> Int]
      /\ ~At(Events, "idle") => loc[Events].key # s
  BY OwnKey, WorkerAlone DEF StartBind, At, ProcTypes, SessionTypes
<1>i. PICK i \in Subs : i = loc[s].sub BY <1>0, WorkersSub
<1>1. /\ Held(i, s) /\ sess[s].ops = Op(i, NoTurn) /\ pending[s] = <<i>>
      /\ sess[s].thread /\ loc[s].snap = sess[s]
  BY <1>0, <1>i, WorkersSub DEF Workers, Worker, At
<1>t. PICK t \in DOMAIN turns : t = resp[s]
  BY <1>0 DEF Responses, ResponseOk, At
<1>2. /\ turns[t].key = s /\ turns[t].sub = i /\ Unsettled(t) /\ TurnOk(t)
      /\ t \in Nat /\ t # NoTurn
  BY <1>0, <1>i, <1>t, Entities DEF Responses, ResponseOk, At, Turns
<1>3. /\ Unstarted(t) /\ t \notin DOMAIN bindings
      /\ \A u \in DOMAIN turns : turns[u].key = s /\ Unsettled(u) => u = t
  <2>1. ~BindingNow(s, i, t) BY <1>0 DEF BindingNow, At
  <2>2. ~Bound(s, i, t) BY <1>1, <1>2, OpSame DEF Bound
  <2> QED BY <1>2, <2>1, <2>2 DEF TurnOk, Unbound, Turns
<1>s. PICK sr : sr = [sess[s] EXCEPT !.ops = Op(i, t)] OBVIOUS
<1>4. sr \in Records
  <2>1. [sub |-> i, turn |-> t] \in Operations BY <1>2 DEF Operations
  <2>2. Op(i, t) \in Seq(Operations) BY <2>1 DEF Op
  <2> QED BY <1>0, <1>s, <2>2 DEF Records
<1> DEFINE w == [loc[s] EXCEPT !.pc = "activate", !.turn = t, !.snap = sr]
<1>5. /\ w \in Locals /\ w.pc = "activate" /\ w.key = s /\ w.hold = s
      /\ w.sub = i /\ w.turn = t /\ w.snap = sr
  BY <1>0, <1>i, <1>2, <1>4 DEF Locals, Pcs, WorkerPcs, StartPcs, EventPcs
<1>6. /\ loc' = [loc EXCEPT ![s] = w]
      /\ bindings' = [u \in DOMAIN bindings \cup {t} |->
                        IF u = t THEN i ELSE bindings[u]]
      /\ pending' = [pending EXCEPT ![s] = <<>>]
      /\ resp' = [resp EXCEPT ![s] = NoTurn]
  <2>1. UpsertActiveOperation(sess[s], i, t) = sr
    BY <1>0, <1>1, <1>2, <1>s, UpsertOnly
  <2>2. /\ BindTurnSubmission(t, i) /\ ClearPendingTurnBinding(s, i)
        /\ loc' = [loc EXCEPT ![s].pc = "activate", ![s].turn = t,
                              ![s].snap = UpsertActiveOperation(@, i, t)]
        /\ resp' = [resp EXCEPT ![s] = NoTurn]
    BY <1>0, <1>i, <1>t DEF StartBind
  <2>3. loc' = [loc EXCEPT ![s] = w]
    BY <1>0, <1>1, <2>1, <2>2
  <2>4. Without(pending[s], i) = <<>> BY <1>1, WithoutOnly
  <2>5. pending' = [pending EXCEPT ![s] = <<>>]
    BY <2>2, <2>4 DEF ClearPendingTurnBinding
  <2> QED BY <2>2, <2>3, <2>5 DEF BindTurnSubmission
<1>7. UNCHANGED <<sess, sub, starts, actor, wake, inputs, created, failures,
                  inbox, turns, wire, outcome, panicked>>
  BY DEF StartBind, store, server
<1> HIDE DEF w
<1>8. /\ loc' \in [Procs -> Locals] /\ loc'[s] = w
      /\ \A p \in Procs \ {s} : loc'[p] = loc[p]
      /\ pending'[s] = <<>> /\ resp'[s] = NoTurn
      /\ t \in DOMAIN bindings' /\ bindings'[t] = i
  BY <1>0, <1>5, <1>6
<1>9. Own(s)'
  <2>1. Unsettled(t)' /\ \A u \in DOMAIN turns' :
          turns'[u].key = s /\ Unsettled(u)' => u = t
    BY <1>2, <1>3, <1>7, <1>8, SameTurns
  <2>2. sess'[s].ops # NoOp BY <1>1, <1>7, OpSome
  <2>3. SingleOk(s)' BY <1>1, <1>7, <1>8, <2>2 DEF Single, SingleOk
  <2>4. Worker(s)' BY <1>1, <1>s, <1>5, <1>7, <1>8 DEF Worker, At
  <2>5. ResponseOk(s)' BY <1>5, <1>8 DEF ResponseOk, At
  <2>6. BindingNow(s, i, t)' BY <1>1, <1>5, <1>7, <1>8 DEF BindingNow, At
  <2>7. TurnOk(t)'
    <3>1. ~Asked(s)' BY <1>2, <1>7 DEF TurnOk, Asked
    <3>2. ~At(s, "mark")' /\ ~At(s, "rpc")' BY <1>5, <1>8 DEF At
    <3>3. turns'[t].key = s /\ turns'[t].sub = i BY <1>2, <1>7
    <3> QED BY <1>1, <1>7, <2>6, <3>1, <3>2, <3>3 DEF TurnOk
  <2> QED BY <1>2, <1>7, <2>1, <2>2, <2>3, <2>4, <2>5, <2>7, OwnOpen
<1>10. Places' /\ Accounted'
  <2>1. \A r \in Sessions : \A j \in Subs : Held(j, r)' <=> Held(j, r)
    BY <1>0, <1>5, <1>7, <1>8 DEF Held, At
  <2>2. \A j : Requested(j)' <=> Requested(j) BY <1>7 DEF Requested
  <2>3. \A r \in Sessions : \A j \in Subs :
          loc'[r].pc \in {"thread", "mark"} /\ loc'[r].sub = j =>
            ~Requested(j)' /\ ~Run(j)
    BY <1>5, <1>8, <2>2 DEF Places
  <2> QED BY <1>7, <2>1, <2>2, <2>3, PlacesSame
<1>11. SubTypes' /\ OwnTurn' BY <1>7 DEF SubTypes, OwnTurn
<1>12. /\ wake' \in [Sessions -> Nat]
       /\ inbox' \subseteq [key : Sessions, sub : Subs, proc : Procs \cup {None}]
       /\ \A e \in inbox' : ~Run(e.sub)
       /\ \A u \in DOMAIN bindings' : u \in DOMAIN turns /\ bindings'[u] \in Subs
       /\ \A u \in DOMAIN turns : turns[u].key # s =>
            /\ u \in DOMAIN bindings' <=> u \in DOMAIN bindings
            /\ u \in DOMAIN bindings => bindings'[u] = bindings[u]
  BY <1>2, <1>6, <1>7 DEF SessionTypes, ServerTypes, Requests
<1>13. /\ sess' = [sess EXCEPT ![s] = sess[s]] /\ <<>> \in Seq(Subs)
  BY <1>0, <1>7
<1> QED
  BY <1>0, <1>5, <1>6, <1>7, <1>9, <1>10, <1>11, <1>12, <1>13, StartStep

\* SaveSession of the start's snapshot: the operation gets its turn
LEMMA ActivateStep ==
  ASSUME QueueInv, NEW s \in Sessions, StartActivate(s)
  PROVE  QueueInv'
<1> USE Processes DEF QueueInv
<1>0. /\ loc[s].key = s /\ loc[s].hold = s /\ actor[s] = s
      /\ loc[s].pc = "activate"
      /\ loc \in [Procs -> Locals] /\ loc[s] \in Locals /\ s \in Procs
      /\ sess \in [Sessions -> Records] /\ sess[s] \in Records
      /\ pending \in [Sessions -> Seq(Subs)] /\ pending[s] \in Seq(Subs)
      /\ resp \in [Procs -> Int]
      /\ ~At(Events, "idle") => loc[Events].key # s
  BY OwnKey, WorkerAlone DEF StartActivate, At, ProcTypes, SessionTypes
<1>i. PICK i \in Subs : i = loc[s].sub BY <1>0, WorkersSub
<1>u. PICK t : t = loc[s].turn OBVIOUS
<1>1. /\ Held(i, s) /\ Alive(i) /\ sess[s].ops = Op(i, NoTurn) /\ sess[s].thread
      /\ loc[s].snap = [sess[s] EXCEPT !.ops = Op(i, t)]
  BY <1>0, <1>i, <1>u, WorkersSub DEF Workers, Worker, At
<1>2. /\ t \in DOMAIN turns /\ turns[t].key = s /\ turns[t].sub = i
      /\ Unsettled(t) /\ BindingNow(s, i, t) /\ ~Asked(s)
      /\ t \in Nat /\ t # NoTurn
      /\ \A v \in DOMAIN turns : turns[v].key = s /\ Unsettled(v) => v = t
  <2>1. ~Asked(s)
    <3> SUFFICES ASSUME NEW c \in inbox, c.key = s PROVE FALSE BY DEF Asked
    <3>1. RequestOk(c) BY DEF Requests
    <3> QED BY <1>0, <3>1 DEF RequestOk, At
  <2>2. sess[s].ops # NoOp BY <1>1, OpSome
  <2>3. OpenTurn(s) BY <1>0, <2>1, <2>2 DEF Backed, BackedOk, At
  <2>4. PICK v \in DOMAIN turns : turns[v].key = s /\ Unsettled(v)
    BY <2>3 DEF OpenTurn
  <2>5. TurnOk(v) BY <2>4 DEF Turns
  <2>6. v \in Nat /\ v # NoTurn /\ turns[v].sub \in Subs
    BY Entities DEF NoTurn
  <2>7. ~Unbound(s, turns[v].sub, v) BY <1>0 DEF Unbound, At
  <2>8. ~Bound(s, turns[v].sub, v) BY <1>1, <2>6, OpSame DEF Bound
  <2>9. BindingNow(s, turns[v].sub, v)
    BY <2>4, <2>5, <2>7, <2>8 DEF TurnOk
  <2>10. v = t /\ turns[v].sub = i
    BY <1>0, <1>i, <1>u, <2>9 DEF BindingNow, At
  <2> QED BY <2>1, <2>4, <2>6, <2>9, <2>10 DEF Turns
<1>s. PICK sr : sr = [sess[s] EXCEPT !.ops = Op(i, t)] OBVIOUS
<1>3. sr \in Records /\ sr.ops = Op(i, t) /\ sr.queue = sess[s].queue /\ sr.thread
  <2>1. [sub |-> i, turn |-> t] \in Operations BY <1>2 DEF Operations
  <2>2. Op(i, t) \in Seq(Operations) BY <2>1 DEF Op
  <2> QED BY <1>0, <1>1, <1>s, <2>2 DEF Records
<1> DEFINE w == [loc[s] EXCEPT !.pc = "end"]
<1>4. /\ w \in Locals /\ w.pc = "end" /\ w.key = s /\ w.hold = s
  BY <1>0 DEF Locals, Pcs, WorkerPcs, StartPcs, EventPcs
<1>5. /\ loc' = [loc EXCEPT ![s] = w] /\ sess' = [sess EXCEPT ![s] = sr]
      /\ sub' = [sub EXCEPT ![i].running = TRUE, ![i].turn = t]
  <2>1. Exists(i) BY <1>1 DEF Alive
  <2>2. /\ SaveSession(s, sr) /\ MarkSubmissionRunning(i, t) /\ Goto(s, "end")
    BY <1>0, <1>i, <1>u, <1>1, <1>s DEF StartActivate
  <2> QED BY <1>2, <2>1, <2>2 DEF SaveSession, MarkSubmissionRunning, Goto
<1>6. UNCHANGED <<starts, actor, wake, pending, bindings, inputs, created,
                  failures, inbox, resp, turns, wire, outcome, panicked>>
  BY DEF StartActivate, tracker, server
<1> HIDE DEF w
<1>7. /\ loc' \in [Procs -> Locals] /\ loc'[s] = w
      /\ \A p \in Procs \ {s} : loc'[p] = loc[p]
      /\ sess'[s] = sr /\ \A r \in Sessions \ {s} : sess'[r] = sess[r]
  BY <1>0, <1>4, <1>5
<1>8. /\ sub' \in [Subs -> [exists : BOOLEAN, running : BOOLEAN,
                            finalized : BOOLEAN, turn : Nat]]
      /\ \A j \in Subs : /\ sub'[j].exists = sub[j].exists
                         /\ sub'[j].finalized = sub[j].finalized
      /\ sub'[i].turn = t /\ \A j \in Subs \ {i} : sub'[j].turn = sub[j].turn
  <2>1. sub \in [Subs -> [exists : BOOLEAN, running : BOOLEAN,
                          finalized : BOOLEAN, turn : Nat]]
    BY DEF SubTypes
  <2> PICK run : run = [sub[i] EXCEPT !.running = TRUE, !.turn = t]
    OBVIOUS
  <2>2. /\ run \in [exists : BOOLEAN, running : BOOLEAN,
                    finalized : BOOLEAN, turn : Nat]
        /\ run.exists = sub[i].exists /\ run.finalized = sub[i].finalized
        /\ run.turn = t
    BY <1>2, <2>1
  <2>3. sub' = [sub EXCEPT ![i] = run] BY <1>5, <2>1
  <2> QED BY <2>1, <2>2, <2>3
<1>9. Own(s)'
  <2>1. Unsettled(t)' /\ \A u \in DOMAIN turns' :
          turns'[u].key = s /\ Unsettled(u)' => u = t
    BY <1>2, <1>6, <1>7, SameTurns
  <2>2. sess'[s].ops # NoOp BY <1>3, <1>7, OpSome
  <2>3. pending'[s] = <<>> BY <1>2, <1>6 DEF BindingNow
  <2>4. SingleOk(s)'
    <3>1. Len(Op(i, t)) = 1 BY DEF Op
    <3> QED BY <1>3, <1>7, <2>2, <2>3, <3>1 DEF SingleOk
  <2>5. Worker(s)' BY <1>4, <1>7 DEF Worker, At
  <2>6. ResponseOk(s)' BY <1>4, <1>7 DEF ResponseOk, At
  <2>7. Bound(s, i, t)'
    <3>1. t \in DOMAIN bindings /\ bindings[t] = i BY <1>2 DEF BindingNow
    <3>2. ~(At(Events, "bind") /\ loc[Events].key = s)' BY <1>0, <1>7 DEF At
    <3> QED BY <1>3, <1>6, <1>7, <2>3, <3>1, <3>2 DEF Bound
  <2>8. TurnOk(t)'
    <3>1. ~Asked(s)' BY <1>2, <1>6 DEF Asked
    <3>2. ~At(s, "mark")' /\ ~At(s, "rpc")' BY <1>4, <1>7 DEF At
    <3>3. turns'[t].key = s /\ turns'[t].sub = i BY <1>2, <1>6
    <3> QED BY <1>3, <1>7, <2>7, <3>1, <3>2, <3>3 DEF TurnOk
  <2> QED BY <1>2, <1>6, <2>1, <2>2, <2>4, <2>5, <2>6, <2>8, OwnOpen
<1>10. Places' /\ Accounted'
  <2>1. \A r \in Sessions : \A j \in Subs : Held(j, r)' <=> Held(j, r)
    <3>1. /\ ~At(s, "thread") /\ ~At(s, "thread")'
      BY <1>0, <1>4, <1>7 DEF At
    <3>2. \A v, j : (\E k \in DOMAIN Op(i, v) : Op(i, v)[k].sub = j) <=> j = i
      BY DEF Op
    <3>3. \A j : (Held(j, s) <=> j = i) /\ (Held(j, s)' <=> j = i)
      <4>1. sess[s].ops = Op(i, NoTurn) /\ sess'[s].ops = Op(i, t)
        BY <1>1, <1>3, <1>7
      <4>2. \A j : Held(j, s) <=> j = i BY <3>1, <3>2, <4>1 DEF Held
      <4>3. \A j : Held(j, s)' <=> j = i BY <3>1, <3>2, <4>1 DEF Held
      <4> QED BY <4>2, <4>3
    <3>4. \A r \in Sessions \ {s} : \A j : Held(j, r)' <=> Held(j, r)
      BY <1>7 DEF Held, At
    <3> QED BY <3>3, <3>4
  <2>2. \A j : Requested(j)' <=> Requested(j) BY <1>6 DEF Requested
  <2>3. \A r \in Sessions : \A j \in Subs :
          loc'[r].pc \in {"thread", "mark"} /\ loc'[r].sub = j =>
            ~Requested(j)' /\ ~Run(j)
    BY <1>4, <1>7, <2>2 DEF Places
  <2>4. \A r \in Sessions : sess'[r].queue = sess[r].queue BY <1>3, <1>7
  <2> QED BY <1>6, <1>8, <2>1, <2>2, <2>3, <2>4, PlacesSame
<1>11. SubTypes' /\ OwnTurn' BY <1>2, <1>6, <1>8 DEF SubTypes, OwnTurn
<1>12. /\ wake' \in [Sessions -> Nat]
       /\ inbox' \subseteq [key : Sessions, sub : Subs, proc : Procs \cup {None}]
       /\ \A e \in inbox' : ~Run(e.sub)
       /\ \A u \in DOMAIN bindings' : u \in DOMAIN turns /\ bindings'[u] \in Subs
  BY <1>6 DEF SessionTypes, ServerTypes, Requests
<1>13. /\ resp' = [resp EXCEPT ![s] = NoTurn]
       /\ pending' = [pending EXCEPT ![s] = pending[s]]
  BY <1>0, <1>6 DEF Responses, At
<1> QED
  BY <1>0, <1>3, <1>4, <1>5, <1>6, <1>9, <1>10, <1>11, <1>12, <1>13, StartStep

-----------------------------------------------------------------------------
(* The handling of notifications (application/turn).                       *)

\* Who is where while Events works on a session.
LEMMA EventsAlone ==
  ASSUME QueueInv, ~At(Events, "idle")
  PROVE  /\ loc[Events].key \in Sessions /\ loc[Events].hold = loc[Events].key
         /\ actor[loc[Events].key] = Events /\ At(loc[Events].key, "idle")
         /\ loc[Events].turn \in DOMAIN turns
         /\ turns[loc[Events].turn].key = loc[Events].key
         /\ turns[loc[Events].turn].sub \in Subs
<1> USE Processes DEF QueueInv
<1>1. /\ loc[Events].key \in Sessions /\ loc[Events].hold = loc[Events].key
      /\ actor[loc[Events].key] = Events
  BY DEF Locks
<1>2. At(loc[Events].key, "idle") BY <1>1 DEF Locks
<1>3. /\ loc[Events].turn \in DOMAIN turns
      /\ turns[loc[Events].turn].key = loc[Events].key
  BY DEF Notifications, WireOk, EventsOk
<1>4. turns[loc[Events].turn].sub \in Subs BY <1>3, Entities
<1> QED BY <1>1, <1>2, <1>3, <1>4

\* A step of Events that works on session s.
LEMMA EventStep ==
  ASSUME QueueInv, NEW s \in Sessions, NEW w \in Locals, NEW sr \in Records,
         NEW pq \in Seq(Subs),
         actor[s] \in {None, Events}, At(Events, "idle") \/ loc[Events].key = s,
         loc' = [loc EXCEPT ![Events] = w], w.pc \in EventPcs,
         w.pc = "idle" \/ /\ w.key = s /\ w.hold = s /\ actor'[s] = Events
                          /\ w.turn \in DOMAIN turns /\ turns[w.turn].key = s,
         actor' \in [Sessions -> Procs \cup {None}],
         wake' \in [Sessions -> Nat],
         \A r \in Sessions \ {s} : actor'[r] = actor[r] /\ wake'[r] = wake[r],
         sess' = [sess EXCEPT ![s] = sr], sr.queue = sess[s].queue,
         pending' = [pending EXCEPT ![s] = pq],
         UNCHANGED <<starts, created, inputs, failures, inbox, resp, turns,
                     panicked>>,
         wire' \in Seq([kind : {"started", "completed"}, key : Sessions,
                        turn : Nat]),
         \A t \in DOMAIN turns : turns[t].key # s =>
           /\ OnWire(t, "started")' <=> OnWire(t, "started")
           /\ OnWire(t, "completed")' <=> OnWire(t, "completed")
           /\ t \in DOMAIN bindings' <=> t \in DOMAIN bindings
           /\ t \in DOMAIN bindings => bindings'[t] = bindings[t],
         \A t \in DOMAIN bindings' : t \in DOMAIN turns /\ bindings'[t] \in Subs,
         SubTypes', OwnTurn', Places', Accounted', Notifications', Own(s)'
  PROVE  QueueInv'
<1> USE Processes DEF QueueInv
<1>0. /\ loc \in [Procs -> Locals] /\ sess \in [Sessions -> Records]
      /\ pending \in [Sessions -> Seq(Subs)] /\ resp \in [Procs -> Int]
  BY DEF ProcTypes, SessionTypes
<1>1. /\ loc' \in [Procs -> Locals] /\ loc'[Events] = w
      /\ \A p \in Procs \ {Events} : loc'[p] = loc[p]
      /\ \A r \in Sessions : loc'[r] = loc[r]
      /\ sess' \in [Sessions -> Records] /\ sess'[s] = sr
      /\ \A r \in Sessions \ {s} : sess'[r] = sess[r]
      /\ pending' \in [Sessions -> Seq(Subs)] /\ pending'[s] = pq
      /\ \A r \in Sessions \ {s} : pending'[r] = pending[r]
  BY <1>0
<1>2. Local(s)
  <2>1. \A r \in Sessions \ {s} :
          /\ loc'[r] = loc[r] /\ sess'[r] = sess[r] /\ pending'[r] = pending[r]
          /\ resp'[r] = resp[r] /\ wake'[r] = wake[r] /\ starts'[r] = starts[r]
    BY <1>1
  <2>2. /\ At(Events, "idle") \/ loc[Events].key = s
        /\ \/ loc'[Events].pc = "idle"
           \/ /\ loc'[Events].key = s /\ loc'[Events].turn \in DOMAIN turns
              /\ turns[loc'[Events].turn].key = s
    BY <1>1
  <2> QED BY <2>1, <2>2 DEF Local
<1>3. SessionTypes' BY <1>1 DEF SessionTypes
<1>4. ProcTypes' BY <1>1 DEF ProcTypes
<1>5. ServerTypes' BY DEF ServerTypes
<1>6. Locks'
  <2>1. \A r \in Sessions : ~At(r, "idle") => r # s BY DEF Locks
  <2>2. loc'[Chat] = loc[Chat] BY <1>1
  <2>3. \A r \in Sessions : ~At(r, "idle") => actor'[r] = r
    BY <2>1 DEF Locks
  <2> QED BY <1>1, <2>2, <2>3 DEF Locks, At
<1>7. StartedOnce' BY DEF Turns, StartedOnce
<1>8. \A i : Run(i)' <=> Run(i) BY DEF Run
<1>9. \A p \in Procs : resp'[p] # NoTurn => p \in Sessions /\ At(p, "rpc")'
  BY <1>1 DEF Responses, At
<1> QED
  BY <1>1, <1>2, <1>3, <1>4, <1>5, <1>6, <1>7, <1>8, <1>9, SessionStep
     DEF Requests

\* The positions of a sequence without its head.
LEMMA TailPositions ==
  ASSUME NEW S, NEW q \in Seq(S), q # <<>>
  PROVE  /\ Head(q) = q[1] /\ 1 \in DOMAIN q /\ Tail(q) \in Seq(S)
         /\ \A k \in DOMAIN Tail(q) : /\ k \in Nat /\ k + 1 \in DOMAIN q
                                      /\ Tail(q)[k] = q[k + 1]
         /\ \A k \in DOMAIN q : /\ k \in Nat
                                /\ k # 1 => /\ 1 < k /\ k - 1 \in DOMAIN Tail(q)
                                            /\ Tail(q)[k - 1] = q[k]
<1>1. /\ Tail(q) \in Seq(S) /\ Head(q) = q[1]
      /\ Len(Tail(q)) = Len(q) - 1 /\ Len(q) \in Nat \ {0}
      /\ \A i \in 1 .. Len(Tail(q)) : Tail(q)[i] = q[i + 1]
      /\ DOMAIN Tail(q) = 1 .. Len(Tail(q)) /\ DOMAIN q = 1 .. Len(q)
  BY HeadTailProperties, LenProperties, EmptySeq
<1> QED BY <1>1

\* Delivering a notification takes the oldest one off the wire.
LEMMA Delivered ==
  ASSUME QueueInv, wire # <<>>, wire' = Tail(wire), UNCHANGED turns,
         NEW t, NEW kind, t = Head(wire).turn, kind = Head(wire).kind
  PROVE  /\ wire' \in Seq([kind : {"started", "completed"}, key : Sessions,
                           turn : Nat])
         /\ t \in DOMAIN turns /\ turns[t].key = Head(wire).key
         /\ kind \in {"started", "completed"} /\ OnWire(t, kind)
         /\ \A u \in DOMAIN turns : u # t =>
              /\ OnWire(u, "started")' <=> OnWire(u, "started")
              /\ OnWire(u, "completed")' <=> OnWire(u, "completed")
         /\ ~OnWire(t, "started")'
         /\ kind = "started" => /\ Ending(t)'
                                /\ OnWire(t, "completed")' <=> OnWire(t, "completed")
         /\ kind = "completed" => turns[t].done /\ ~OnWire(t, "started")
                                  /\ ~OnWire(t, "completed")'
         /\ WireOk'
<1> USE DEF QueueInv
<1>1. /\ Head(wire) = wire[1] /\ 1 \in DOMAIN wire
      /\ wire' \in Seq([kind : {"started", "completed"}, key : Sessions,
                        turn : Nat])
      /\ \A k \in DOMAIN wire' : /\ k \in Nat /\ k + 1 \in DOMAIN wire
                                 /\ wire'[k] = wire[k + 1]
      /\ \A k \in DOMAIN wire : /\ k \in Nat
                                /\ k # 1 => /\ 1 < k /\ k - 1 \in DOMAIN wire'
                                            /\ wire'[k - 1] = wire[k]
  BY TailPositions DEF ServerTypes
<1>2. /\ t \in DOMAIN turns /\ turns[t].key = Head(wire).key
      /\ kind \in {"started", "completed"} /\ OnWire(t, kind)
      /\ kind = "completed" => turns[t].done
      /\ kind = "started" => Ending(t)
  <2>1. wire[1].turn = t /\ wire[1].kind = kind /\ 1 \in DOMAIN wire BY <1>1
  <2>2. kind \in {"started", "completed"} BY <2>1, Entities
  <2>3. OnWire(t, kind) BY <2>1 DEF OnWire
  <2>4. /\ t \in DOMAIN turns /\ turns[t].key = wire[1].key
        /\ kind = "completed" => turns[t].done
        /\ kind = "started" => Ending(t)
    BY <2>1 DEF Notifications, WireOk, EventsOk
  <2> QED BY <1>1, <2>2, <2>3, <2>4
<1>3. ASSUME NEW u, NEW kd
      PROVE  OnWire(u, kd)' <=> \E k \in DOMAIN wire :
                                  k # 1 /\ wire[k].turn = u /\ wire[k].kind = kd
  <2>1. ASSUME NEW k \in DOMAIN wire', wire'[k].turn = u, wire'[k].kind = kd
        PROVE  \E l \in DOMAIN wire : l # 1 /\ wire[l].turn = u /\ wire[l].kind = kd
    <3>1. k + 1 \in DOMAIN wire /\ k + 1 # 1 /\ wire[k + 1] = wire'[k]
      BY <1>1 DEF ServerTypes
    <3> QED BY <2>1, <3>1
  <2>2. ASSUME NEW k \in DOMAIN wire, k # 1, wire[k].turn = u, wire[k].kind = kd
        PROVE  OnWire(u, kd)'
    <3>1. k - 1 \in DOMAIN wire' /\ wire'[k - 1] = wire[k] BY <1>1, <2>2
    <3> QED BY <2>2, <3>1 DEF OnWire
  <2> QED BY <2>1, <2>2 DEF OnWire
<1>4. ASSUME NEW u, NEW kd, u # t \/ kd # kind
      PROVE  OnWire(u, kd)' <=> OnWire(u, kd)
  <2>1. \A k \in DOMAIN wire : wire[k].turn = u /\ wire[k].kind = kd => k # 1
    BY <1>1, <1>4
  <2> QED BY <1>3, <2>1 DEF OnWire
<1>5. \A k \in DOMAIN wire : k # 1 /\ wire[k].turn = t =>
        kind = "started" /\ wire[k].kind = "completed"
  <2>1. wire[1].turn = t /\ wire[1].kind = kind BY <1>1
  <2> QED BY <1>1, <2>1 DEF Notifications, WireOk, EventsOk
<1>6. ~OnWire(t, "started")'
  BY <1>3, <1>5
<1>7. kind = "started" => /\ Ending(t)'
                          /\ OnWire(t, "completed")' <=> OnWire(t, "completed")
  BY <1>2, <1>4 DEF Ending
<1>8. kind = "completed" => turns[t].done /\ ~OnWire(t, "started")
                            /\ ~OnWire(t, "completed")'
  BY <1>2, <1>3, <1>4, <1>5, <1>6
<1>9. WireOk'
  <2>1. ASSUME NEW k \in DOMAIN wire', wire'[k].kind = "started"
        PROVE  Ending(wire[k].turn)'
    <3> PICK u : u = wire'[k].turn OBVIOUS
    <3>1. k + 1 \in DOMAIN wire /\ wire[k + 1] = wire'[k] BY <1>1
    <3>2. Ending(u) BY <2>1, <3>1 DEF Notifications, WireOk
    <3>3. u # t BY <1>6, <2>1 DEF OnWire
    <3>4. Ending(u)' BY <1>4, <3>2, <3>3 DEF Ending
    <3> QED BY <3>4
  <2>2. ASSUME NEW k \in DOMAIN wire'
        PROVE  /\ wire'[k].turn \in DOMAIN turns
               /\ wire'[k].key = turns[wire'[k].turn].key
               /\ wire'[k].kind = "completed" => turns[wire'[k].turn].done
    <3>1. k + 1 \in DOMAIN wire /\ wire[k + 1] = wire'[k] BY <1>1
    <3> QED BY <3>1 DEF Notifications, WireOk
  <2>3. ASSUME NEW k \in DOMAIN wire', NEW l \in DOMAIN wire',
               k < l, wire'[k].turn = wire'[l].turn
        PROVE  wire'[k].kind = "started" /\ wire'[l].kind = "completed"
    <3>1. /\ k + 1 \in DOMAIN wire /\ wire[k + 1] = wire'[k]
          /\ l + 1 \in DOMAIN wire /\ wire[l + 1] = wire'[l]
          /\ k + 1 < l + 1
      BY <1>1, <2>3
    <3> QED BY <2>3, <3>1 DEF Notifications, WireOk
  <2> QED BY <2>1, <2>2, <2>3 DEF WireOk
<1> QED BY <1>1, <1>2, <1>4, <1>6, <1>7, <1>8, <1>9

\* dispatchBackendEvent: Events takes the actor of the turn's session
LEMMA DispatchStep ==
  ASSUME QueueInv, DispatchEvent
  PROVE  QueueInv'
<1> USE Processes DEF QueueInv
<1>e. PICK s, t, kind : /\ s = Head(wire).key /\ t = Head(wire).turn
                        /\ kind = Head(wire).kind
  OBVIOUS
<1>1. /\ wire # <<>> /\ wire' = Tail(wire) /\ At(Events, "idle")
      /\ UNCHANGED <<sess, sub, starts, wake, pending, bindings, inputs,
                     created, failures, inbox, resp, turns, outcome, panicked>>
  BY DEF DispatchEvent, store, tracker
<1>2. /\ wire' \in Seq([kind : {"started", "completed"}, key : Sessions,
                        turn : Nat])
      /\ t \in DOMAIN turns /\ turns[t].key = s
      /\ kind \in {"started", "completed"} /\ OnWire(t, kind)
      /\ \A u \in DOMAIN turns : u # t =>
           /\ OnWire(u, "started")' <=> OnWire(u, "started")
           /\ OnWire(u, "completed")' <=> OnWire(u, "completed")
      /\ ~OnWire(t, "started")'
      /\ kind = "started" => Ending(t)'
      /\ kind = "completed" => turns[t].done /\ ~OnWire(t, "started")
                               /\ ~OnWire(t, "completed")'
      /\ WireOk'
  BY <1>e, <1>1, Delivered
<1>i. PICK i : i = turns[t].sub OBVIOUS
<1>3. /\ s \in Sessions /\ t \in Nat /\ Unsettled(t) /\ TurnOk(t)
  BY <1>2, Entities DEF Unsettled, Turns
<1>4. /\ sess[s].thread /\ actor[s] = None /\ At(s, "idle")
      /\ actor' = [actor EXCEPT ![s] = Events]
      /\ loc \in [Procs -> Locals] /\ sess \in [Sessions -> Records]
      /\ sess[s] \in Records
      /\ pending \in [Sessions -> Seq(Subs)] /\ pending[s] \in Seq(Subs)
      /\ actor \in [Sessions -> Procs \cup {None}]
  <2>1. sess[s].thread BY <1>2, <1>3 DEF TurnOk
  <2>2. Acquire(Events, s) BY <1>e, <2>1 DEF DispatchEvent
  <2>3. At(s, "idle") BY <1>3, <2>2 DEF Locks, Acquire
  <2> QED BY <1>3, <2>1, <2>2, <2>3 DEF Acquire, ProcTypes, SessionTypes
<1> DEFINE w == [Idle EXCEPT !.pc = IF kind = "started" THEN "started" ELSE "find",
                             !.key = s, !.turn = t, !.hold = s]
<1>5. loc' = [loc EXCEPT ![Events] = w]
  BY <1>e, <1>4 DEF DispatchEvent
<1>6. /\ w \in Locals /\ w.key = s /\ w.turn = t /\ w.hold = s
      /\ w.pc = IF kind = "started" THEN "started" ELSE "find"
  <2>1. EmptySession \in Records BY DEF EmptySession, Records
  <2> QED BY <1>3, <2>1 DEF Idle, Locals, Pcs, EventPcs, NoSub
<1> HIDE DEF w
<1>7. /\ loc' \in [Procs -> Locals] /\ loc'[Events] = w
      /\ \A r \in Sessions : loc'[r] = loc[r]
  BY <1>4, <1>5, <1>6
<1>8. Own(s)'
  <2>1. Unsettled(t)'
    <3>1. loc'[Events].turn = t /\ loc'[Events].pc \in {"started", "find"}
      BY <1>6, <1>7
    <3> QED BY <3>1 DEF Unsettled
  <2>2. \A u \in DOMAIN turns' : turns'[u].key = s /\ Unsettled(u)' => u = t
    <3> SUFFICES ASSUME NEW u \in DOMAIN turns, turns[u].key = s, Unsettled(u)',
                        u # t
                 PROVE  FALSE
      BY <1>1
    <3>1. Unsettled(u)
      BY <1>1, <1>2, <1>6, <1>7 DEF Unsettled
    <3> QED BY <1>2, <1>3, <3>1 DEF Turns
  <2>3. TurnOk(t)'
    <3>1. /\ ~Asked(s)' /\ ~At(s, "mark")' /\ ~At(s, "rpc")'
          /\ turns'[t].key = s /\ turns'[t].sub = i /\ sess'[s].thread
      BY <1>i, <1>1, <1>2, <1>3, <1>4, <1>7 DEF TurnOk, Asked, At
    <3>2. ~At(Events, "bind")' BY <1>6, <1>7 DEF At
    <3>3. CASE Unbound(s, i, t)
      <4>1. Unstarted(t) BY <3>3 DEF Unbound
      <4>2. kind = "started" BY <1>1, <1>2, <4>1 DEF Unstarted, At
      <4>3. Unstarted(t)' BY <1>6, <1>7, <4>2 DEF Unstarted, At
      <4>4. ~At(s, "activate")' BY <1>3, <1>4, <1>7 DEF At
      <4> QED BY <1>1, <3>1, <3>2, <3>3, <4>3, <4>4 DEF Unbound, TurnOk
    <3>4. CASE Bound(s, i, t)
      BY <1>1, <3>1, <3>2, <3>4 DEF Bound, TurnOk
    <3>5. CASE BindingNow(s, i, t)
      BY <1>1, <1>4, <3>5 DEF BindingNow, At
    <3> QED BY <1>i, <1>2, <1>3, <3>3, <3>4, <3>5 DEF TurnOk
  <2>4. sess'[s].ops # NoOp
    <3>1. \E j, u : sess[s].ops = Op(j, u)
      BY <1>2, <1>3 DEF TurnOk, Unbound, BindingNow, Bound
    <3> QED BY <1>1, <3>1, OpSome
  <2>5. Worker(s)' BY <1>3, <1>4, <1>7 DEF Worker, At
  <2>6. SingleOk(s)' BY <1>1, <1>3 DEF Single, SingleOk
  <2>7. ResponseOk(s)' BY <1>3, <1>4, <1>7 DEF ResponseOk, At
  <2> QED BY <1>1, <1>2, <1>3, <2>1, <2>2, <2>3, <2>4, <2>5, <2>6, <2>7, OwnOpen
<1>9. Places' /\ Accounted'
  <2>1. \A r \in Sessions : \A j \in Subs : Held(j, r)' <=> Held(j, r)
    BY <1>1, <1>7 DEF Held, At
  <2>2. \A j : Requested(j)' <=> Requested(j) BY <1>1 DEF Requested
  <2>3. \A r \in Sessions : \A j \in Subs :
          loc'[r].pc \in {"thread", "mark"} /\ loc'[r].sub = j =>
            ~Requested(j)' /\ ~Run(j)
    BY <1>7, <2>2 DEF Places
  <2> QED BY <1>1, <2>1, <2>2, <2>3, PlacesSame
<1>10. Notifications'
  <2>1. EventsOk'
    <3>1. /\ loc'[Events].turn = t /\ loc'[Events].key = s
          /\ loc'[Events].pc = IF kind = "started" THEN "started" ELSE "find"
      BY <1>6, <1>7
    <3>2. t \in DOMAIN turns' /\ turns'[t].key = s
          /\ (kind # "started" => turns'[t].done)
      BY <1>1, <1>2
    <3> QED BY <1>2, <3>1, <3>2 DEF EventsOk, At
  <2> QED BY <1>2, <2>1 DEF Notifications
<1>11. SubTypes' /\ OwnTurn' BY <1>1 DEF SubTypes, OwnTurn
<1>12. /\ wake' \in [Sessions -> Nat]
       /\ actor' \in [Sessions -> Procs \cup {None}] /\ actor'[s] = Events
       /\ \A r \in Sessions \ {s} : actor'[r] = actor[r]
       /\ \A u \in DOMAIN bindings' : u \in DOMAIN turns /\ bindings'[u] \in Subs
       /\ sess' = [sess EXCEPT ![s] = sess[s]]
       /\ pending' = [pending EXCEPT ![s] = pending[s]]
       /\ w.pc \in EventPcs
  BY <1>1, <1>3, <1>4, <1>6 DEF SessionTypes, ServerTypes, EventPcs
<1>13. \A u \in DOMAIN turns : turns[u].key # s =>
         /\ OnWire(u, "started")' <=> OnWire(u, "started")
         /\ OnWire(u, "completed")' <=> OnWire(u, "completed")
         /\ u \in DOMAIN bindings' <=> u \in DOMAIN bindings
         /\ u \in DOMAIN bindings => bindings'[u] = bindings[u]
  BY <1>1, <1>2
<1>14. UNCHANGED <<starts, created, inputs, failures, inbox, resp, turns,
                   panicked>>
  BY <1>1
<1> QED
  BY <1>1, <1>2, <1>3, <1>4, <1>5, <1>6, <1>8, <1>9, <1>10, <1>11, <1>12,
     <1>13, <1>14, EventStep

\* The turn Events works on before it has settled it.
LEMMA EventsTurn ==
  ASSUME QueueInv, loc[Events].pc \in {"started", "bind", "find", "finalize"},
         NEW s, NEW t, NEW i,
         s = loc[Events].key, t = loc[Events].turn, i = turns[t].sub
  PROVE  /\ Unsettled(t) /\ TurnOk(t) /\ s \in Sessions /\ i \in Subs
         /\ t \in DOMAIN turns /\ turns[t].key = s /\ t \in Nat /\ t # NoTurn
         /\ actor[s] = Events /\ loc[Events].hold = s /\ At(s, "idle")
         /\ sess[s].thread /\ ~Asked(s) /\ Held(i, s) /\ Alive(i)
         /\ sess \in [Sessions -> Records] /\ sess[s] \in Records
         /\ pending \in [Sessions -> Seq(Subs)]
         /\ loc \in [Procs -> Locals] /\ loc[Events] \in Locals
         /\ actor \in [Sessions -> Procs \cup {None}]
         /\ ~BindingNow(s, i, t) \/ At(Events, "bind")
         /\ \A u \in DOMAIN turns : turns[u].key = s /\ Unsettled(u) => u = t
         /\ \E u : sess[s].ops = Op(i, u)
<1> USE Processes DEF QueueInv
<1>1. /\ s \in Sessions /\ i \in Subs /\ t \in DOMAIN turns /\ turns[t].key = s
      /\ actor[s] = Events /\ loc[Events].hold = s /\ At(s, "idle")
  BY EventsAlone DEF At
<1>2. t \in Nat /\ t # NoTurn BY <1>1, Entities DEF NoTurn
<1>3. Unsettled(t) BY DEF Unsettled
<1>4. TurnOk(t) BY <1>1, <1>3 DEF Turns
<1>5. sess[s].thread /\ ~Asked(s) BY <1>1, <1>4 DEF TurnOk
<1>6. \E u : sess[s].ops = Op(i, u)
  BY <1>1, <1>4 DEF TurnOk, Unbound, BindingNow, Bound
<1>7. Held(i, s) BY <1>6, HeldOp
<1>8. Alive(i) BY <1>1, <1>7 DEF Places
<1>9. /\ sess \in [Sessions -> Records] /\ sess[s] \in Records
      /\ pending \in [Sessions -> Seq(Subs)]
      /\ loc \in [Procs -> Locals] /\ loc[Events] \in Locals
      /\ actor \in [Sessions -> Procs \cup {None}]
  BY <1>1 DEF SessionTypes, ProcTypes
<1>10. ~BindingNow(s, i, t) \/ At(Events, "bind")
  BY <1>1 DEF BindingNow, At
<1>11. \A u \in DOMAIN turns : turns[u].key = s /\ Unsettled(u) => u = t
  BY <1>1, <1>3 DEF Turns
<1> QED BY <1>1, <1>2, <1>3, <1>4, <1>5, <1>6, <1>7, <1>8, <1>9, <1>10, <1>11

\* OnTurnStartedNotification binds the submission that waits for its turn
LEMMA StartedBinds ==
  ASSUME QueueInv, TurnStarted,
         NEW s, NEW t, NEW i,
         s = loc[Events].key, t = loc[Events].turn, i = turns[t].sub,
         Unbound(s, i, t)
  PROVE  QueueInv'
<1> USE Processes DEF QueueInv
<1>0. loc[Events].pc = "started" BY DEF TurnStarted, At
<1>1. /\ Unsettled(t) /\ TurnOk(t) /\ s \in Sessions /\ i \in Subs
      /\ t \in DOMAIN turns /\ turns[t].key = s /\ t \in Nat /\ t # NoTurn
      /\ actor[s] = Events /\ loc[Events].hold = s /\ At(s, "idle")
      /\ sess[s].thread /\ ~Asked(s) /\ Held(i, s) /\ Alive(i)
      /\ sess \in [Sessions -> Records] /\ sess[s] \in Records
      /\ pending \in [Sessions -> Seq(Subs)]
      /\ loc \in [Procs -> Locals] /\ loc[Events] \in Locals
      /\ actor \in [Sessions -> Procs \cup {None}]
      /\ \A u \in DOMAIN turns : turns[u].key = s /\ Unsettled(u) => u = t
  BY <1>0, EventsTurn
<1>2. sess[s].ops = Op(i, NoTurn) /\ pending[s] = <<i>> BY DEF Unbound
<1>3. UNCHANGED <<sess, sub, starts, wake, inputs, created, failures, inbox,
                  turns, wire, resp, outcome, panicked>>
  BY DEF TurnStarted, store, server
<1>s. PICK sr : sr = [sess[s] EXCEPT !.ops = Op(i, t)] OBVIOUS
<1>4. sr \in Records /\ [sr EXCEPT !.thread = TRUE] = sr
  <2>1. [sub |-> i, turn |-> t] \in Operations BY <1>1 DEF Operations
  <2>2. Op(i, t) \in Seq(Operations) BY <2>1 DEF Op
  <2>3. sr \in Records BY <1>1, <1>s, <2>2 DEF Records
  <2>4. sr.thread = TRUE BY <1>1, <1>s, <2>3 DEF Records
  <2> QED BY <2>3, <2>4 DEF Records
<1> DEFINE w == [loc[Events] EXCEPT !.pc = "bind", !.sub = i, !.snap = sr]
<1>5. /\ w \in Locals /\ w.pc = "bind" /\ w.sub = i /\ w.turn = t /\ w.key = s
      /\ w.hold = s /\ w.snap = sr
  BY <1>1, <1>4 DEF Locals, Pcs, EventPcs
<1>6. /\ loc' = [loc EXCEPT ![Events] = w] /\ actor' = actor
      /\ bindings' = [u \in DOMAIN bindings \cup {t} |->
                        IF u = t THEN i ELSE bindings[u]]
      /\ pending' = [pending EXCEPT ![s] = <<>>]
  <2>1. LivePending(s) = <<i>>
    BY <1>1, <1>2, LiveOnly DEF Alive
  <2>2. i # NoSub BY <1>1 DEF Subs, NoSub
  <2>3. <<i>> # <<>> /\ <<i>>[1] = i OBVIOUS
  <2>4. UpsertActiveOperation(sess[s], i, t) = sr
    <3>1. sess[s] \in Records /\ t \in Nat /\ sess[s].ops = Op(i, NoTurn)
      BY <1>1, <1>2
    <3>2. UpsertActiveOperation(sess[s], i, t) = [sess[s] EXCEPT !.ops = Op(i, t)]
      BY <3>1, UpsertOnly
    <3> QED BY <1>s, <3>2
  <2>5. Without(<<i>>, i) = <<>> BY WithoutOnly
  <2>6. /\ BindTurnSubmission(t, i)
        /\ pending' = [pending EXCEPT ![s] = Without(<<i>>, i)]
        /\ loc' = [loc EXCEPT ![Events].pc = "bind", ![Events].sub = i,
                     ![Events].snap = [UpsertActiveOperation(sess[s], i, t)
                                         EXCEPT !.thread = TRUE]]
        /\ actor' = actor
    BY <2>1, <2>2, <2>3 DEF TurnStarted
  <2>7. loc' = [loc EXCEPT ![Events] = w]
    BY <1>1, <1>4, <2>4, <2>6
  <2> QED BY <2>5, <2>6, <2>7 DEF BindTurnSubmission
<1> HIDE DEF w
<1>7. /\ loc' \in [Procs -> Locals] /\ loc'[Events] = w
      /\ \A r \in Sessions : loc'[r] = loc[r]
      /\ pending'[s] = <<>> /\ t \in DOMAIN bindings' /\ bindings'[t] = i
  BY <1>1, <1>5, <1>6
<1>8. \A u : (Unsettled(u)' <=> Unsettled(u))
  BY <1>0, <1>3, <1>5, <1>7 DEF Unsettled, OnWire
<1>9. Own(s)'
  <2>1. \A u \in DOMAIN turns' : turns'[u].key = s /\ Unsettled(u)' => u = t
    BY <1>1, <1>3, <1>8
  <2>2. sess'[s].ops # NoOp BY <1>2, <1>3, OpSome
  <2>3. SingleOk(s)' BY <1>1, <1>3, <1>7, <2>2 DEF Single, SingleOk
  <2>4. Worker(s)' BY <1>1, <1>7 DEF Worker, At
  <2>5. ResponseOk(s)' BY <1>1, <1>7 DEF ResponseOk, At
  <2>6. BindingNow(s, i, t)' BY <1>2, <1>3, <1>s, <1>5, <1>7 DEF BindingNow, At
  <2>7. TurnOk(t)'
    <3>1. ~Asked(s)' BY <1>1, <1>3 DEF Asked
    <3>2. ~At(s, "mark")' /\ ~At(s, "rpc")' BY <1>1, <1>7 DEF At
    <3>3. turns'[t].key = s /\ turns'[t].sub = i BY <1>1, <1>3
    <3> QED BY <1>1, <1>3, <2>6, <3>1, <3>2, <3>3 DEF TurnOk
  <2> QED BY <1>1, <1>3, <1>8, <2>1, <2>2, <2>3, <2>4, <2>5, <2>7, OwnOpen
<1>10. Places' /\ Accounted'
  <2>1. \A r \in Sessions : \A j \in Subs : Held(j, r)' <=> Held(j, r)
    BY <1>3, <1>7 DEF Held, At
  <2>2. \A j : Requested(j)' <=> Requested(j) BY <1>3 DEF Requested
  <2>3. \A r \in Sessions : \A j \in Subs :
          loc'[r].pc \in {"thread", "mark"} /\ loc'[r].sub = j =>
            ~Requested(j)' /\ ~Run(j)
    BY <1>7, <2>2 DEF Places
  <2> QED BY <1>3, <2>1, <2>2, <2>3, PlacesSame
<1>11. Notifications'
  <2>1. WireOk' BY <1>3 DEF Notifications, WireOk, Ending, OnWire
  <2>2. ~OnWire(t, "started") /\ Ending(t)
    BY <1>0 DEF Notifications, EventsOk, At
  <2>3. (~OnWire(t, "started"))' /\ Ending(t)'
    BY <1>3, <2>2 DEF Ending, OnWire
  <2>4. EventsOk'
    BY <1>1, <1>3, <1>5, <1>7, <2>3 DEF EventsOk, At
  <2> QED BY <2>1, <2>4 DEF Notifications
<1>12. SubTypes' /\ OwnTurn' BY <1>3 DEF SubTypes, OwnTurn
<1>13. /\ wake' \in [Sessions -> Nat]
       /\ actor' \in [Sessions -> Procs \cup {None}] /\ actor'[s] = Events
       /\ \A r \in Sessions \ {s} : actor'[r] = actor[r] /\ wake'[r] = wake[r]
       /\ \A u \in DOMAIN bindings' : u \in DOMAIN turns /\ bindings'[u] \in Subs
       /\ sess' = [sess EXCEPT ![s] = sess[s]]
       /\ w.pc \in EventPcs /\ <<>> \in Seq(Subs)
  BY <1>1, <1>3, <1>5, <1>6 DEF SessionTypes, ServerTypes, EventPcs
<1>14. \A u \in DOMAIN turns : turns[u].key # s =>
         /\ OnWire(u, "started")' <=> OnWire(u, "started")
         /\ OnWire(u, "completed")' <=> OnWire(u, "completed")
         /\ u \in DOMAIN bindings' <=> u \in DOMAIN bindings
         /\ u \in DOMAIN bindings => bindings'[u] = bindings[u]
  BY <1>1, <1>3, <1>6 DEF OnWire
<1>15. wire' \in Seq([kind : {"started", "completed"}, key : Sessions,
                      turn : Nat])
  BY <1>3 DEF ServerTypes
<1>16. UNCHANGED <<starts, created, inputs, failures, inbox, resp, turns,
                   panicked>>
  BY <1>3
<1> QED
  BY <1>1, <1>5, <1>6, <1>9, <1>10, <1>11, <1>12, <1>13, <1>14, <1>15, <1>16,
     EventStep

\* A session with one operation holds its submission and no other.
LEMMA HeldOnly ==
  ASSUME NEW s, NEW i, NEW t, sess[s].ops = Op(i, t), ~At(s, "thread")
  PROVE  \A j : Held(j, s) <=> j = i
<1>1. DOMAIN Op(i, t) = {1} /\ Op(i, t)[1].sub = i BY DEF Op
<1> QED BY <1>1 DEF Held

\* The same of the next state.
LEMMA HeldOnlyNext ==
  ASSUME NEW s, NEW i, NEW t, sess'[s].ops = Op(i, t), ~At(s, "thread")'
  PROVE  \A j : Held(j, s)' <=> j = i
<1>1. DOMAIN Op(i, t) = {1} /\ Op(i, t)[1].sub = i BY DEF Op
<1> QED BY <1>1 DEF Held

\* Events has bound the turn or found it bound, and returns
LEMMA BoundReturn ==
  ASSUME QueueInv, loc[Events].pc \in {"started", "bind"}, Return(Events),
         NEW s, NEW t, NEW i, NEW sr \in Records,
         s = loc[Events].key, t = loc[Events].turn, i = turns[t].sub,
         sess' = [sess EXCEPT ![s] = sr], sr.ops = Op(i, t),
         sr.queue = sess[s].queue, sr.thread,
         pending' = [pending EXCEPT ![s] = <<>>],
         t \in DOMAIN bindings, bindings[t] = i, SubTypes', OwnTurn',
         \A j \in Subs : /\ sub'[j].exists = sub[j].exists
                         /\ sub'[j].finalized = sub[j].finalized,
         UNCHANGED <<starts, wake, bindings, inputs, created, failures, inbox,
                     resp, turns, wire, outcome, panicked>>
  PROVE  QueueInv'
<1> USE Processes DEF QueueInv
<1>0. loc[Events].pc \in {"started", "bind", "find", "finalize"} OBVIOUS
<1>a. /\ Unsettled(t) /\ s \in Sessions /\ i \in Subs
      /\ t \in DOMAIN turns /\ turns[t].key = s /\ t \in Nat /\ t # NoTurn
  BY <1>0, EventsTurn
<1>b. /\ actor[s] = Events /\ loc[Events].hold = s /\ At(s, "idle")
      /\ ~Asked(s)
  BY <1>0, EventsTurn
<1>d. \A u \in DOMAIN turns : turns[u].key = s /\ Unsettled(u) => u = t
  BY <1>0, EventsTurn
<1>e. /\ sess \in [Sessions -> Records]
      /\ pending \in [Sessions -> Seq(Subs)]
      /\ loc \in [Procs -> Locals]
      /\ actor \in [Sessions -> Procs \cup {None}]
  BY DEF SessionTypes, ProcTypes
<1>1. /\ Unsettled(t) /\ s \in Sessions /\ i \in Subs
      /\ t \in DOMAIN turns /\ turns[t].key = s /\ t \in Nat /\ t # NoTurn
      /\ actor[s] = Events /\ loc[Events].hold = s /\ At(s, "idle")
      /\ ~Asked(s) /\ sess \in [Sessions -> Records]
      /\ pending \in [Sessions -> Seq(Subs)]
      /\ loc \in [Procs -> Locals]
      /\ actor \in [Sessions -> Procs \cup {None}]
      /\ \A u \in DOMAIN turns : turns[u].key = s /\ Unsettled(u) => u = t
  BY <1>a, <1>b, <1>d, <1>e
<1>u. PICK v : sess[s].ops = Op(i, v)
  <2>1. \E u : sess[s].ops = Op(i, u) BY <1>0, EventsTurn
  <2> QED BY <2>1
<1>2. /\ loc' = [loc EXCEPT ![Events] = Idle]
      /\ actor' = [actor EXCEPT ![s] = None]
  <2>1. s # None BY <1>1
  <2> QED BY <1>1, <2>1 DEF Return
<1>3. /\ Idle \in Locals /\ Idle.pc = "idle" /\ Idle.turn = NoTurn
  <2>1. EmptySession \in Records BY DEF EmptySession, Records
  <2> QED BY <2>1 DEF Idle, Locals, Pcs, EventPcs, WorkerPcs, NoSub, NoTurn
<1>4. /\ loc' \in [Procs -> Locals] /\ loc'[Events] = Idle
      /\ \A r \in Sessions : loc'[r] = loc[r]
      /\ sess'[s] = sr /\ \A r \in Sessions \ {s} : sess'[r] = sess[r]
      /\ pending'[s] = <<>>
  BY <1>1, <1>2, <1>3
<1>5. Ending(t) /\ ~OnWire(t, "started")
  <2>1. ~At(Events, "idle") BY DEF At
  <2> QED BY <2>1 DEF Notifications, EventsOk
<1>6. /\ Unsettled(t)'
      /\ \A u \in DOMAIN turns : Unsettled(u)' => Unsettled(u)
  <2>1. turns[t].done => OnWire(t, "completed") BY <1>5 DEF Ending
  <2>2. \A u, kd : OnWire(u, kd)' <=> OnWire(u, kd) BY DEF OnWire
  <2>3. Unsettled(t)' BY <2>1, <2>2 DEF Unsettled
  <2>4. \A u \in DOMAIN turns : Unsettled(u)' => Unsettled(u)
    BY <1>3, <1>4, <2>2 DEF Unsettled
  <2> QED BY <2>3, <2>4
<1>7. Own(s)'
  <2>1. \A u \in DOMAIN turns' : turns'[u].key = s /\ Unsettled(u)' => u = t
    BY <1>1, <1>6
  <2>2. sess'[s].ops # NoOp BY <1>4, OpSome
  <2>3. SingleOk(s)'
    <3>1. Len(Op(i, t)) = 1 BY DEF Op
    <3> QED BY <1>4, <2>2, <3>1 DEF SingleOk
  <2>4. Worker(s)' BY <1>1, <1>4 DEF Worker, At
  <2>5. ResponseOk(s)' BY <1>1, <1>4 DEF ResponseOk, At
  <2>6. Bound(s, i, t)' BY <1>3, <1>4 DEF Bound, At
  <2>7. TurnOk(t)'
    <3>1. ~Asked(s)' BY <1>1 DEF Asked
    <3>2. ~At(s, "mark")' /\ ~At(s, "rpc")' BY <1>1, <1>4 DEF At
    <3>3. turns'[t].key = s /\ turns'[t].sub = i BY <1>1
    <3> QED BY <1>4, <2>6, <3>1, <3>2, <3>3 DEF TurnOk
  <2>8. turns'[t].key = s /\ t \in DOMAIN turns' BY <1>1
  <2> QED BY <1>1, <1>6, <2>1, <2>2, <2>3, <2>4, <2>5, <2>7, <2>8, OwnOpen
<1>8. Places' /\ Accounted'
  <2>1. \A r \in Sessions : \A j \in Subs : Held(j, r)' <=> Held(j, r)
    <3>1. ~At(s, "thread") /\ ~At(s, "thread")' BY <1>1, <1>4 DEF At
    <3>2. sess'[s].ops = Op(i, t) BY <1>4
    <3>3. \A j : Held(j, s) <=> j = i BY <1>u, <3>1, HeldOnly
    <3>4. \A j : Held(j, s)' <=> j = i BY <3>1, <3>2, HeldOnlyNext
    <3>5. \A r \in Sessions \ {s} : \A j : Held(j, r)' <=> Held(j, r)
      BY <1>4 DEF Held, At
    <3> QED BY <3>3, <3>4, <3>5
  <2>2. \A j : Requested(j)' <=> Requested(j) BY DEF Requested
  <2>3. \A r \in Sessions : \A j \in Subs :
          loc'[r].pc \in {"thread", "mark"} /\ loc'[r].sub = j =>
            ~Requested(j)' /\ ~Run(j)
    BY <1>4, <2>2 DEF Places
  <2>4. \A r \in Sessions : sess'[r].queue = sess[r].queue BY <1>4
  <2> QED BY <2>1, <2>2, <2>3, <2>4, PlacesSame
<1>9. Notifications'
  <2>1. WireOk' BY DEF Notifications, WireOk, Ending, OnWire
  <2>2. EventsOk' BY <1>3, <1>4 DEF EventsOk, At
  <2> QED BY <2>1, <2>2 DEF Notifications
<1>10. /\ wake' \in [Sessions -> Nat]
       /\ actor' \in [Sessions -> Procs \cup {None}]
       /\ \A r \in Sessions \ {s} : actor'[r] = actor[r] /\ wake'[r] = wake[r]
       /\ \A u \in DOMAIN bindings' : u \in DOMAIN turns /\ bindings'[u] \in Subs
       /\ Idle.pc \in EventPcs /\ <<>> \in Seq(Subs)
       /\ wire' \in Seq([kind : {"started", "completed"}, key : Sessions,
                         turn : Nat])
  BY <1>1, <1>2, <1>3 DEF SessionTypes, ServerTypes, EventPcs
<1>11. \A u \in DOMAIN turns : turns[u].key # s =>
         /\ OnWire(u, "started")' <=> OnWire(u, "started")
         /\ OnWire(u, "completed")' <=> OnWire(u, "completed")
         /\ u \in DOMAIN bindings' <=> u \in DOMAIN bindings
         /\ u \in DOMAIN bindings => bindings'[u] = bindings[u]
  BY DEF OnWire
<1>12. UNCHANGED <<starts, created, inputs, failures, inbox, resp, turns,
                   panicked>>
  OBVIOUS
<1> QED
  BY <1>1, <1>2, <1>3, <1>7, <1>8, <1>9, <1>10, <1>11, <1>12, EventStep

\* What OnTurnStartedNotification leaves alone.
LEMMA StartedFrame ==
  ASSUME TurnStarted
  PROVE  /\ loc[Events].pc = "started"
         /\ UNCHANGED <<sess, sub, starts, wake, inputs, created, failures,
                        inbox, resp, turns, wire, outcome, panicked>>
<1>1. At(Events, "started") BY Zenon DEF TurnStarted
<1>2. UNCHANGED <<store, starts, wake, inputs, created, failures, server, resp,
                  outcome, panicked>>
  BY Zenon DEF TurnStarted
<1> QED BY <1>1, <1>2 DEF At, store, server

\* A turn that is already bound needs no binding
LEMMA StartedKnown ==
  ASSUME QueueInv, TurnStarted,
         NEW s, NEW t, NEW i,
         s = loc[Events].key, t = loc[Events].turn, i = turns[t].sub,
         Bound(s, i, t)
  PROVE  QueueInv'
<1> USE Processes DEF QueueInv
<1>0. loc[Events].pc = "started" BY StartedFrame
<1>1. /\ s \in Sessions /\ sess[s].thread /\ sess[s] \in Records
      /\ sess \in [Sessions -> Records]
  BY <1>0, EventsTurn
<1>2. /\ sess[s].ops = Op(i, t) /\ pending[s] = <<>>
      /\ t \in DOMAIN bindings /\ bindings[t] = i
  BY DEF Bound
<1>3. UNCHANGED <<sess, sub, starts, wake, inputs, created, failures, inbox,
                  resp, turns, wire, outcome, panicked>>
  BY StartedFrame
<1>4. /\ Return(Events) /\ bindings' = bindings
      /\ pending' = [pending EXCEPT ![s] = <<>>]
  <2>1. LivePending(s) = <<>> BY <1>1, <1>2, LiveOnly
  <2>2. 1 \in DOMAIN sess[s].ops /\ sess[s].ops[1].turn = t
    BY <1>2 DEF Op
  <2>3. \E k \in DOMAIN sess[s].ops : sess[s].ops[k].turn = t BY <2>2
  <2> DEFINE live == LivePending(s)
             op == PendingOperation(sess[s])
             j == IF live # <<>> THEN live[1]
                  ELSE IF (\E k \in DOMAIN sess[s].ops : sess[s].ops[k].turn = t)
                            \/ ~Exists(op) THEN NoSub
                  ELSE op
  <2>4. j = NoSub BY <2>1, <2>3
  <2>5. IF j = NoSub
        THEN pending' = [pending EXCEPT ![s] = live] /\ Return(Events)
             /\ UNCHANGED bindings
        ELSE /\ BindTurnSubmission(t, j)
             /\ pending' = [pending EXCEPT ![s] = Without(live, j)]
             /\ loc' = [loc EXCEPT ![Events].pc = "bind", ![Events].sub = j,
                          ![Events].snap =
                             [UpsertActiveOperation(sess[s], j, t)
                                EXCEPT !.thread = TRUE]]
             /\ UNCHANGED actor
    BY Zenon DEF TurnStarted
  <2> HIDE DEF j
  <2>6. /\ pending' = [pending EXCEPT ![s] = live] /\ Return(Events)
        /\ UNCHANGED bindings
    BY <2>4, <2>5
  <2> QED BY <2>1, <2>6
<1>5. SubTypes' /\ OwnTurn' BY <1>3 DEF SubTypes, OwnTurn
<1>6. /\ sess' = [sess EXCEPT ![s] = sess[s]] /\ sess[s].queue = sess[s].queue
      /\ loc[Events].pc \in {"started", "bind"}
      /\ \A j \in Subs : /\ sub'[j].exists = sub[j].exists
                         /\ sub'[j].finalized = sub[j].finalized
  BY <1>0, <1>1, <1>3
<1>7. UNCHANGED <<starts, wake, bindings, inputs, created, failures, inbox,
                  resp, turns, wire, outcome, panicked>>
  BY <1>3, <1>4
<1> QED BY <1>1, <1>2, <1>4, <1>5, <1>6, <1>7, BoundReturn

\* OnTurnStartedNotification
LEMMA StartedStep ==
  ASSUME QueueInv, TurnStarted
  PROVE  QueueInv'
<1>s. PICK s, t, i : s = loc[Events].key /\ t = loc[Events].turn /\ i = turns[t].sub
  OBVIOUS
<1>1. loc[Events].pc = "started" BY StartedFrame
<1>2. /\ TurnOk(t) /\ turns[t].key = s /\ (~BindingNow(s, i, t) \/ At(Events, "bind"))
  BY <1>s, <1>1, EventsTurn
<1>3. ~BindingNow(s, i, t) BY <1>1, <1>2 DEF At
<1>4. Unbound(s, i, t) \/ Bound(s, i, t) BY <1>s, <1>2, <1>3 DEF TurnOk
<1> QED BY <1>s, <1>4, StartedBinds, StartedKnown

\* SaveSession and MarkSubmissionRunning of the binding
LEMMA BindStep ==
  ASSUME QueueInv, BindTurn(Events)
  PROVE  QueueInv'
<1> USE Processes DEF QueueInv
<1>s. PICK s, t, i : s = loc[Events].key /\ t = loc[Events].turn /\ i = turns[t].sub
  OBVIOUS
<1>0. loc[Events].pc = "bind"
  BY DEF BindTurn, At, Locks, EventPcs
<1>1. /\ s \in Sessions /\ i \in Subs /\ sess[s].thread /\ sess[s] \in Records
      /\ sess \in [Sessions -> Records] /\ TurnOk(t) /\ turns[t].key = s
      /\ t \in DOMAIN turns /\ t \in Nat /\ t # NoTurn /\ Alive(i)
      /\ pending \in [Sessions -> Seq(Subs)]
  BY <1>s, <1>0, EventsTurn
<1>2. BindingNow(s, i, t)
  <2>1. At(Events, "bind") /\ loc[Events].key = s BY <1>s, <1>0 DEF At
  <2> QED BY <1>s, <1>1, <2>1 DEF TurnOk, Unbound, Bound
<1>3. /\ pending[s] = <<>> /\ t \in DOMAIN bindings /\ bindings[t] = i
      /\ loc[Events].sub = i /\ loc[Events].snap = [sess[s] EXCEPT !.ops = Op(i, t)]
  <2>1. At(s, "idle") BY <1>s, <1>0, EventsTurn
  <2>2. ~At(s, "activate") BY <2>1 DEF At
  <2> QED BY <1>2, <2>2 DEF BindingNow
<1>k. PICK sr : sr = [sess[s] EXCEPT !.ops = Op(i, t)] OBVIOUS
<1>4. sr \in Records /\ sr.ops = Op(i, t) /\ sr.queue = sess[s].queue /\ sr.thread
  <2>1. [sub |-> i, turn |-> t] \in Operations BY <1>1 DEF Operations
  <2>2. Op(i, t) \in Seq(Operations) BY <2>1 DEF Op
  <2> QED BY <1>1, <1>k, <2>2 DEF Records
<1>5. /\ sess' = [sess EXCEPT ![s] = sr] /\ Return(Events)
      /\ sub' = [sub EXCEPT ![i].running = TRUE, ![i].turn = t]
  <2>1. Exists(i) BY <1>1 DEF Alive
  <2>2. /\ SaveSession(s, sr) /\ MarkSubmissionRunning(i, t) /\ Return(Events)
    BY <1>0, <1>s, <1>3, <1>k DEF BindTurn, At
  <2> QED BY <1>1, <2>1, <2>2 DEF SaveSession, MarkSubmissionRunning
<1>6. UNCHANGED <<starts, wake, pending, bindings, inputs, created, failures,
                  inbox, resp, turns, wire, outcome, panicked>>
  BY DEF BindTurn, tracker, server
<1>7. /\ sub' \in [Subs -> [exists : BOOLEAN, running : BOOLEAN,
                            finalized : BOOLEAN, turn : Nat]]
      /\ \A j \in Subs : /\ sub'[j].exists = sub[j].exists
                         /\ sub'[j].finalized = sub[j].finalized
      /\ sub'[i].turn = t /\ \A j \in Subs \ {i} : sub'[j].turn = sub[j].turn
  <2>1. sub \in [Subs -> [exists : BOOLEAN, running : BOOLEAN,
                          finalized : BOOLEAN, turn : Nat]]
    BY DEF SubTypes
  <2> PICK run : run = [sub[i] EXCEPT !.running = TRUE, !.turn = t]
    OBVIOUS
  <2>2. /\ run \in [exists : BOOLEAN, running : BOOLEAN,
                    finalized : BOOLEAN, turn : Nat]
        /\ run.exists = sub[i].exists /\ run.finalized = sub[i].finalized
        /\ run.turn = t
    BY <1>1, <2>1
  <2>3. sub' = [sub EXCEPT ![i] = run] BY <1>5, <2>1
  <2> QED BY <1>1, <2>1, <2>2, <2>3
<1>8. SubTypes' /\ OwnTurn'
  <2>1. SubTypes' BY <1>6, <1>7 DEF SubTypes
  <2>2. turns[t].sub = i /\ t \in DOMAIN turns /\ turns' = turns
    BY <1>s, <1>1, <1>6
  <2>3. ASSUME NEW j \in Subs, sub'[j].turn # NoTurn
        PROVE  sub'[j].turn \in DOMAIN turns /\ turns[sub'[j].turn].sub = j
    <3>1. CASE j = i BY <1>7, <2>2, <3>1
    <3>2. CASE j # i BY <1>7, <2>3, <3>2 DEF OwnTurn
    <3> QED BY <3>1, <3>2
  <2>4. OwnTurn' BY <2>2, <2>3 DEF OwnTurn
  <2> QED BY <2>1, <2>4
<1>9. /\ pending' = [pending EXCEPT ![s] = <<>>]
      /\ loc[Events].pc \in {"started", "bind"}
  BY <1>0, <1>1, <1>3, <1>6
<1>10. UNCHANGED <<starts, wake, bindings, inputs, created, failures, inbox,
                   resp, turns, wire, outcome, panicked>>
  BY <1>6
<1>11. \A j \in Subs : /\ sub'[j].exists = sub[j].exists
                       /\ sub'[j].finalized = sub[j].finalized
  BY <1>7
<1>12. /\ sess' = [sess EXCEPT ![s] = sr] /\ Return(Events)
       /\ t \in DOMAIN bindings /\ bindings[t] = i
  BY <1>3, <1>5
<1> QED BY <1>s, <1>4, <1>8, <1>9, <1>10, <1>11, <1>12, BoundReturn

\* The turn Events finishes is the operation of its session.
LEMMA EventsBound ==
  ASSUME QueueInv, loc[Events].pc \in {"find", "finalize"},
         NEW s, NEW t, NEW i,
         s = loc[Events].key, t = loc[Events].turn, i = turns[t].sub
  PROVE  /\ sess[s].ops = Op(i, t) /\ pending[s] = <<>>
         /\ t \in DOMAIN bindings /\ bindings[t] = i
         /\ turns[t].done /\ ~OnWire(t, "started") /\ ~OnWire(t, "completed")
<1> USE DEF QueueInv
<1>0. loc[Events].pc \in {"started", "bind", "find", "finalize"} OBVIOUS
<1>1. TurnOk(t) /\ turns[t].key = s /\ At(s, "idle") BY <1>0, EventsTurn
<1>2. turns[t].done /\ ~OnWire(t, "started") /\ ~OnWire(t, "completed")
  <2>1. ~At(Events, "idle") BY DEF At
  <2> QED BY <2>1 DEF Notifications, EventsOk
<1>3. ~Unbound(s, i, t) BY <1>2 DEF Unbound, Unstarted, At
<1>4. ~BindingNow(s, i, t) BY <1>1 DEF BindingNow, At
<1>5. Bound(s, i, t) BY <1>1, <1>3, <1>4 DEF TurnOk
<1> QED BY <1>2, <1>5 DEF Bound

\* FinishTurn finds the submission of the turn by its binding
LEMMA FindStep ==
  ASSUME QueueInv, FinishFind(Events)
  PROVE  QueueInv'
<1> USE Processes DEF QueueInv
<1>s. PICK s, t, i : s = loc[Events].key /\ t = loc[Events].turn /\ i = turns[t].sub
  OBVIOUS
<1>0. loc[Events].pc = "find" BY Zenon DEF FinishFind, At
<1>1. /\ Unsettled(t) /\ TurnOk(t) /\ s \in Sessions /\ i \in Subs
      /\ t \in DOMAIN turns /\ turns[t].key = s /\ t \in Nat /\ t # NoTurn
      /\ actor[s] = Events /\ loc[Events].hold = s /\ At(s, "idle")
      /\ sess[s].thread /\ ~Asked(s) /\ Held(i, s) /\ Alive(i)
      /\ sess \in [Sessions -> Records] /\ sess[s] \in Records
      /\ pending \in [Sessions -> Seq(Subs)]
      /\ loc \in [Procs -> Locals] /\ loc[Events] \in Locals
      /\ actor \in [Sessions -> Procs \cup {None}]
      /\ \A u \in DOMAIN turns : turns[u].key = s /\ Unsettled(u) => u = t
  BY <1>s, <1>0, EventsTurn
<1>2. /\ sess[s].ops = Op(i, t) /\ pending[s] = <<>>
      /\ t \in DOMAIN bindings /\ bindings[t] = i
      /\ turns[t].done /\ ~OnWire(t, "started") /\ ~OnWire(t, "completed")
  BY <1>s, <1>0, EventsBound
<1>3. UNCHANGED <<sess, sub, starts, wake, inputs, created, failures, inbox,
                  turns, wire, resp, outcome, panicked>>
  <2>1. UNCHANGED <<store, starts, wake, inputs, created, failures, server, resp,
                    outcome, panicked>>
    BY Zenon DEF FinishFind
  <2> QED BY <2>1 DEF store, server
<1> DEFINE w == [loc[Events] EXCEPT !.pc = "finalize", !.sub = i]
<1>4. /\ w \in Locals /\ w.pc = "finalize" /\ w.sub = i /\ w.turn = t /\ w.key = s
      /\ w.hold = s
  BY <1>s, <1>1 DEF Locals, Pcs, EventPcs
<1>5. /\ loc' = [loc EXCEPT ![Events] = w] /\ actor' = actor
      /\ bindings' = bindings /\ pending' = pending
  <2>1. Exists(i) /\ ~sub[i].finalized /\ i # NoSub
    BY <1>1 DEF Alive, Exists
  <2>2. FindSubmissionByTurn(t) = i
    BY <1>2, <2>1 DEF FindSubmissionByTurn
  <2>3. /\ loc' = [loc EXCEPT ![Events].pc = "finalize", ![Events].sub = i]
        /\ UNCHANGED <<actor, tracker>>
    BY <1>s, <2>1, <2>2 DEF FinishFind
  <2> QED BY <1>1, <2>3 DEF tracker
<1> HIDE DEF w
<1>6. /\ loc' \in [Procs -> Locals] /\ loc'[Events] = w
      /\ \A r \in Sessions : loc'[r] = loc[r]
  BY <1>1, <1>4, <1>5
<1>7. \A u : (Unsettled(u)' <=> Unsettled(u))
  BY <1>s, <1>0, <1>3, <1>4, <1>6 DEF Unsettled, OnWire
<1>8. Own(s)'
  <2>1. \A u \in DOMAIN turns' : turns'[u].key = s /\ Unsettled(u)' => u = t
    BY <1>1, <1>3, <1>7
  <2>2. sess'[s].ops # NoOp BY <1>2, <1>3, OpSome
  <2>3. SingleOk(s)' BY <1>1, <1>3, <1>5, <2>2 DEF Single, SingleOk
  <2>4. Worker(s)' BY <1>1, <1>6 DEF Worker, At
  <2>5. ResponseOk(s)' BY <1>1, <1>6 DEF ResponseOk, At
  <2>6. Bound(s, i, t)' BY <1>2, <1>3, <1>4, <1>5, <1>6 DEF Bound, At
  <2>7. TurnOk(t)'
    <3>1. ~Asked(s)' BY <1>1, <1>3 DEF Asked
    <3>2. ~At(s, "mark")' /\ ~At(s, "rpc")' BY <1>1, <1>6 DEF At
    <3>3. turns'[t].key = s /\ turns'[t].sub = i BY <1>s, <1>1, <1>3
    <3> QED BY <1>1, <1>3, <2>6, <3>1, <3>2, <3>3 DEF TurnOk
  <2> QED BY <1>1, <1>3, <1>7, <2>1, <2>2, <2>3, <2>4, <2>5, <2>7, OwnOpen
<1>9. Places' /\ Accounted'
  <2>1. \A r \in Sessions : \A j \in Subs : Held(j, r)' <=> Held(j, r)
    BY <1>3, <1>6 DEF Held, At
  <2>2. \A j : Requested(j)' <=> Requested(j) BY <1>3 DEF Requested
  <2>3. \A r \in Sessions : \A j \in Subs :
          loc'[r].pc \in {"thread", "mark"} /\ loc'[r].sub = j =>
            ~Requested(j)' /\ ~Run(j)
    BY <1>6, <2>2 DEF Places
  <2> QED BY <1>3, <2>1, <2>2, <2>3, PlacesSame
<1>10. Notifications'
  <2>1. WireOk' BY <1>3 DEF Notifications, WireOk, Ending, OnWire
  <2>2. (~OnWire(t, "started"))' /\ (~OnWire(t, "completed"))'
    BY <1>2, <1>3 DEF OnWire
  <2>3. EventsOk'
    BY <1>s, <1>1, <1>2, <1>3, <1>4, <1>6, <2>2 DEF EventsOk, At
  <2> QED BY <2>1, <2>3 DEF Notifications
<1>11. SubTypes' /\ OwnTurn' BY <1>3 DEF SubTypes, OwnTurn
<1>12. /\ wake' \in [Sessions -> Nat]
       /\ actor' \in [Sessions -> Procs \cup {None}] /\ actor'[s] = Events
       /\ \A r \in Sessions \ {s} : actor'[r] = actor[r] /\ wake'[r] = wake[r]
       /\ \A u \in DOMAIN bindings' : u \in DOMAIN turns /\ bindings'[u] \in Subs
       /\ sess' = [sess EXCEPT ![s] = sess[s]]
       /\ pending' = [pending EXCEPT ![s] = pending[s]]
       /\ w.pc \in EventPcs /\ pending[s] \in Seq(Subs)
  BY <1>1, <1>3, <1>4, <1>5 DEF SessionTypes, ServerTypes, EventPcs
<1>13. \A u \in DOMAIN turns : turns[u].key # s =>
         /\ OnWire(u, "started")' <=> OnWire(u, "started")
         /\ OnWire(u, "completed")' <=> OnWire(u, "completed")
         /\ u \in DOMAIN bindings' <=> u \in DOMAIN bindings
         /\ u \in DOMAIN bindings => bindings'[u] = bindings[u]
  BY <1>3, <1>5 DEF OnWire
<1>14. wire' \in Seq([kind : {"started", "completed"}, key : Sessions,
                      turn : Nat])
  BY <1>3 DEF ServerTypes
<1>15. UNCHANGED <<starts, created, inputs, failures, inbox, resp, turns,
                   panicked>>
  BY <1>3
<1>16. loc[Events].key = s /\ w.turn \in DOMAIN turns /\ turns[w.turn].key = s
  BY <1>s, <1>1, <1>4
<1> QED
  BY <1>1, <1>4, <1>5, <1>8, <1>9, <1>10, <1>11, <1>12, <1>13, <1>14, <1>15,
     <1>16, EventStep

\* FinalizeSubmission
Finalize(r) == [r EXCEPT !.finalized = TRUE, !.running = FALSE]

\* What FinishTurn does to the submission and its session: nobody else is
\* settled with it.
LEMMA Finalized ==
  ASSUME FinishFinalize(Events), sess \in [Sessions -> Records],
         loc[Events].key \in Sessions, loc[Events].sub \in Subs,
         sess[loc[Events].key].ops = Op(loc[Events].sub, loc[Events].turn),
         Exists(loc[Events].sub)
  PROVE  LET s == loc[Events].key  t == loc[Events].turn  i == loc[Events].sub IN
         /\ UNCHANGED <<starts, actor, wake, pending, bindings, inputs, created,
                        failures, inbox, turns, wire, resp, panicked>>
         /\ loc' = [loc EXCEPT ![Events].pc = "next"]
         /\ sess' = [sess EXCEPT ![s] = [sess[s] EXCEPT !.ops = NoOp]]
         /\ sub' = [j \in Subs |-> IF j = i THEN Finalize(sub[j]) ELSE sub[j]]
         /\ outcome' = [j \in Subs |-> IF j = i THEN t ELSE outcome[j]]
<1> DEFINE s == loc[Events].key
           t == loc[Events].turn
           i == loc[Events].sub
           rec == RemoveActiveOperation(sess[s], i, t)
           steered == {op.sub : op \in {o \in ToSet(rec.ops) : o.turn # t}}
                        \cap {j \in Subs : Exists(j) /\ ~sub[j].finalized}
           done == steered \cup {i}
<1>1. UNCHANGED <<starts, actor, wake, tracker, inputs, created, failures,
                  server, resp>>
  BY Zenon DEF FinishFinalize
<1>2. IF ~Exists(i)
      THEN panicked' = TRUE /\ UNCHANGED <<store, loc, outcome>>
      ELSE /\ sub' = [j \in Subs |-> IF j \in done THEN Finalize(sub[j])
                        ELSE sub[j]]
           /\ outcome' = [j \in Subs |-> IF j \in done THEN t ELSE outcome[j]]
           /\ sess' = [sess EXCEPT ![s] =
                [rec EXCEPT !.ops =
                   Entries(@, {k \in DOMAIN @ : @[k].sub \notin steered})]]
           /\ Goto(Events, "next") /\ UNCHANGED panicked
  BY Zenon DEF FinishFinalize, Finalize
<1>3. rec = [sess[s] EXCEPT !.ops = NoOp]
  <2>1. \E u : sess[s].ops = Op(i, u) OBVIOUS
  <2>2. sess[s] \in Records OBVIOUS
  <2> QED BY <2>1, <2>2, RemoveOnly
<1>4. rec.ops = NoOp /\ sess[s] \in Records BY <1>3 DEF Records
<1>5. ToSet(rec.ops) = {} BY <1>4 DEF NoOp, ToSet
<1>6. steered = {} /\ done = {i} BY <1>5
<1>7. \A P : Entries(NoOp, {k \in DOMAIN NoOp : NoOp[k].sub \notin P}) = NoOp
  <2>1. \A P : {k \in DOMAIN NoOp : NoOp[k].sub \notin P} = {} BY DEF NoOp
  <2>2. Entries(NoOp, {}) = NoOp BY EntriesNone DEF NoOp
  <2> QED BY <2>1, <2>2
<1> HIDE DEF rec, steered, done
<1>x. sess' = [sess EXCEPT ![s] =
        [rec EXCEPT !.ops =
           Entries(@, {k \in DOMAIN @ : @[k].sub \notin steered})]]
  BY Zenon, <1>2
<1>y. sub' = [j \in Subs |-> IF j \in done THEN Finalize(sub[j]) ELSE sub[j]]
  BY Zenon, <1>2
<1>z. outcome' = [j \in Subs |-> IF j \in done THEN t ELSE outcome[j]]
  BY Zenon, <1>2
<1>w. Goto(Events, "next") /\ UNCHANGED panicked
  BY Zenon, <1>2
<1>8. [rec EXCEPT !.ops = Entries(@, {k \in DOMAIN @ : @[k].sub \notin steered})]
        = [rec EXCEPT !.ops = NoOp]
  BY <1>4, <1>7
<1>9. [rec EXCEPT !.ops = NoOp] = [sess[s] EXCEPT !.ops = NoOp]
  BY <1>3, <1>4 DEF Records
<1>10. sess' = [sess EXCEPT ![s] = [sess[s] EXCEPT !.ops = NoOp]]
  BY <1>x, <1>8, <1>9
<1>11. loc' = [loc EXCEPT ![Events].pc = "next"] /\ panicked' = panicked
  BY <1>w DEF Goto
<1>12. /\ sub' = [j \in Subs |-> IF j = i THEN Finalize(sub[j]) ELSE sub[j]]
       /\ outcome' = [j \in Subs |-> IF j = i THEN t ELSE outcome[j]]
  <2>1. \A j : j \in done <=> j = i BY <1>6
  <2> QED BY <1>y, <1>z, <2>1
<1>13. UNCHANGED <<starts, actor, wake, pending, bindings, inputs, created,
                   failures, inbox, turns, wire, resp, panicked>>
  BY <1>1, <1>11 DEF tracker, server
<1> QED BY <1>10, <1>11, <1>12, <1>13

\* FinishTurn finalizes the submission and removes its operation
LEMMA FinalizeStep ==
  ASSUME QueueInv, FinishFinalize(Events)
  PROVE  QueueInv'
<1> USE Processes DEF QueueInv
<1>s. PICK s, t, i : s = loc[Events].key /\ t = loc[Events].turn /\ i = turns[t].sub
  OBVIOUS
<1>0. loc[Events].pc = "finalize" BY Zenon DEF FinishFinalize, At
<1>1. /\ Unsettled(t) /\ TurnOk(t) /\ s \in Sessions /\ i \in Subs
      /\ t \in DOMAIN turns /\ turns[t].key = s /\ t \in Nat /\ t # NoTurn
      /\ actor[s] = Events /\ loc[Events].hold = s /\ At(s, "idle")
      /\ sess[s].thread /\ ~Asked(s) /\ Held(i, s) /\ Alive(i)
      /\ sess \in [Sessions -> Records] /\ sess[s] \in Records
      /\ pending \in [Sessions -> Seq(Subs)]
      /\ loc \in [Procs -> Locals] /\ loc[Events] \in Locals
      /\ actor \in [Sessions -> Procs \cup {None}]
      /\ \A u \in DOMAIN turns : turns[u].key = s /\ Unsettled(u) => u = t
  BY <1>s, <1>0, EventsTurn
<1>2. /\ sess[s].ops = Op(i, t) /\ pending[s] = <<>>
      /\ turns[t].done /\ ~OnWire(t, "started") /\ ~OnWire(t, "completed")
  BY <1>s, <1>0, EventsBound
<1>3. loc[Events].sub = i
  <2>1. ~At(Events, "idle") BY <1>0 DEF At
  <2> QED BY <1>s, <1>0, <2>1 DEF Notifications, EventsOk
<1>4. Exists(i) BY <1>1 DEF Alive
<1>k. PICK sr : sr = [sess[s] EXCEPT !.ops = NoOp] OBVIOUS
<1>5. sr \in Records /\ sr.ops = NoOp /\ sr.queue = sess[s].queue /\ sr.thread
  <2>1. NoOp \in Seq(Operations) BY DEF NoOp
  <2> QED BY <1>1, <1>k, <2>1 DEF Records
<1> DEFINE w == [loc[Events] EXCEPT !.pc = "next"]
<1>f. /\ UNCHANGED <<starts, actor, wake, pending, bindings, inputs, created,
                     failures, inbox, turns, wire, resp, panicked>>
      /\ loc' = [loc EXCEPT ![Events] = w] /\ sess' = [sess EXCEPT ![s] = sr]
      /\ sub' = [j \in Subs |-> IF j = i THEN Finalize(sub[j]) ELSE sub[j]]
      /\ outcome' = [j \in Subs |-> IF j = i THEN t ELSE outcome[j]]
  BY <1>s, <1>1, <1>2, <1>3, <1>4, <1>k, Finalized
<1>6. /\ w \in Locals /\ w.pc = "next" /\ w.sub = i /\ w.turn = t /\ w.key = s
      /\ w.hold = s
  BY <1>s, <1>1, <1>3 DEF Locals, Pcs, EventPcs
<1> HIDE DEF w
<1>7. /\ loc' \in [Procs -> Locals] /\ loc'[Events] = w
      /\ \A r \in Sessions : loc'[r] = loc[r]
      /\ sess'[s] = sr /\ \A r \in Sessions \ {s} : sess'[r] = sess[r]
  BY <1>1, <1>5, <1>6, <1>f
<1>8. /\ sub' \in [Subs -> [exists : BOOLEAN, running : BOOLEAN,
                            finalized : BOOLEAN, turn : Nat]]
      /\ outcome' \in [Subs -> Int] /\ outcome'[i] = t
      /\ \A j \in Subs : sub'[j].turn = sub[j].turn
      /\ \A j \in Subs \ {i} : sub'[j] = sub[j] /\ outcome'[j] = outcome[j]
  <2>1. /\ sub \in [Subs -> [exists : BOOLEAN, running : BOOLEAN,
                             finalized : BOOLEAN, turn : Nat]]
        /\ outcome \in [Subs -> Int]
    BY DEF SubTypes
  <2>2. ASSUME NEW r \in [exists : BOOLEAN, running : BOOLEAN,
                          finalized : BOOLEAN, turn : Nat]
        PROVE  /\ Finalize(r) \in [exists : BOOLEAN, running : BOOLEAN,
                                   finalized : BOOLEAN, turn : Nat]
               /\ Finalize(r).turn = r.turn
    BY DEF Finalize
  <2> QED BY <1>1, <1>f, <2>1, <2>2
<1>9. \A u : Unsettled(u)' => Unsettled(u) /\ u # t
  <2>1. \A u, kd : OnWire(u, kd)' <=> OnWire(u, kd) BY <1>f DEF OnWire
  <2>2. loc'[Events].pc = "next" BY <1>6, <1>7
  <2> QED BY <1>2, <1>f, <2>1, <2>2 DEF Unsettled
<1>10. Own(s)'
  <2>1. ~OpenTurn(s)' BY <1>1, <1>9, <1>f DEF OpenTurn
  <2>2. ~Asked(s)' BY <1>1, <1>f DEF Asked
  <2>3. sess'[s].ops = NoOp /\ pending'[s] = <<>> BY <1>2, <1>5, <1>7, <1>f
  <2>4. Worker(s)' BY <1>1, <1>7 DEF Worker, At
  <2>5. SingleOk(s)' BY <2>3 DEF SingleOk
  <2>6. WokenOk(s)' BY <1>6, <1>7 DEF WokenOk, At
  <2>7. ~At(s, "rpc")' BY <1>1, <1>7 DEF At
  <2> QED BY <1>1, <2>1, <2>2, <2>3, <2>4, <2>5, <2>6, <2>7, OwnClosed
<1>11. Places' /\ Accounted'
  <2>1. ASSUME NEW r \in Sessions, NEW j \in Subs
        PROVE  /\ Held(j, r)' <=> Held(j, r) /\ j # i
               /\ (j # i => (Alive(j)' <=> Alive(j)))
               /\ Queued(j, r) => j # i
    <3>1. ~Held(j, s)'
      <4>1. ~At(s, "thread")' /\ sess'[s].ops = NoOp BY <1>1, <1>5, <1>7 DEF At
      <4> QED BY <4>1 DEF Held, NoOp
    <3>2. Held(j, s) => j = i
      <4>1. ~At(s, "thread") BY <1>1 DEF At
      <4> QED BY <1>2, <4>1, HeldOnly
    <3>3. r # s => (Held(j, r)' <=> Held(j, r)) BY <1>7 DEF Held, At
    <3>4. r # s => ~Held(i, r) BY <1>1 DEF Places
    <3>5. Held(j, r)' <=> Held(j, r) /\ j # i
      BY <3>1, <3>2, <3>3, <3>4
    <3>6. j # i => (Alive(j)' <=> Alive(j)) BY <1>8, <1>f DEF Alive, Exists
    <3>7. Queued(j, r) => j # i BY <1>1 DEF Places
    <3> QED BY <3>5, <3>6, <3>7
  <2>2. \A j : (Requested(j)' <=> Requested(j)) /\ (Run(j)' <=> Run(j))
    BY <1>f DEF Requested, Run
  <2>3. \A r \in Sessions : \A j \in Subs :
          loc'[r].pc \in {"thread", "mark"} /\ loc'[r].sub = j =>
            ~Requested(j)' /\ ~Run(j)'
    BY <1>7, <2>2 DEF Places
  <2>4. \A r \in Sessions : \A j \in Subs :
          Queued(j, r) => Alive(j)' /\ ~Requested(j)' /\ ~Run(j)'
    BY <2>1, <2>2 DEF Places
  <2>5. \A r \in Sessions : \A j \in Subs : Held(j, r)' => Held(j, r) /\ Alive(j)'
    BY <2>1 DEF Places
  <2>6. \A j \in Subs : j > created =>
          ~sub'[j].finalized /\ outcome'[j] = NoTurn /\ ~Run(j)'
    <3>1. i \in 1 .. created BY <1>1 DEF Alive
    <3>2. \A j \in Subs : j > created => j # i BY <3>1 DEF SubTypes, Subs
    <3> QED BY <1>8, <2>2, <3>2 DEF Places
  <2>7. \A j \in 1 .. created : j \in Subs
    BY QueueAssumption DEF SubTypes, Subs, QueueAssumption
  <2>8. \A r \in Sessions : \A j \in 1 .. created :
          Held(j, r) => Held(j, r)' \/ outcome'[j] # NoTurn
    BY <1>1, <1>8, <2>1, <2>7
  <2>9. \A j \in 1 .. created : outcome[j] # NoTurn => outcome'[j] # NoTurn
    BY <1>1, <1>8, <2>7
  <2>10. (\A r \in Sessions : sess'[r].queue = sess[r].queue) /\ created' = created
    BY <1>5, <1>7, <1>f
  <2> QED BY <2>3, <2>4, <2>5, <2>6, <2>8, <2>9, <2>10, PlacesFrame
<1>12. Notifications'
  <2>1. WireOk' BY <1>f DEF Notifications, WireOk, Ending, OnWire
  <2>2. (~OnWire(t, "started"))' /\ (~OnWire(t, "completed"))'
    BY <1>2, <1>f DEF OnWire
  <2>3. /\ loc'[Events].turn = t /\ loc'[Events].key = s /\ loc'[Events].sub = i
        /\ loc'[Events].pc = "next" /\ sess'[s].ops = NoOp /\ outcome'[i] # NoTurn
        /\ turns' = turns
    BY <1>1, <1>5, <1>6, <1>7, <1>8, <1>f
  <2>4. EventsOk'
    BY <1>s, <1>1, <1>2, <2>2, <2>3 DEF EventsOk, At
  <2> QED BY <2>1, <2>4 DEF Notifications
<1>13. SubTypes' /\ OwnTurn' BY <1>8, <1>f DEF SubTypes, OwnTurn
<1>14. /\ wake' \in [Sessions -> Nat]
       /\ actor' \in [Sessions -> Procs \cup {None}] /\ actor'[s] = Events
       /\ \A r \in Sessions \ {s} : actor'[r] = actor[r] /\ wake'[r] = wake[r]
       /\ \A u \in DOMAIN bindings' : u \in DOMAIN turns /\ bindings'[u] \in Subs
       /\ pending' = [pending EXCEPT ![s] = pending[s]]
       /\ w.pc \in EventPcs /\ pending[s] \in Seq(Subs)
  BY <1>1, <1>6, <1>f DEF SessionTypes, ServerTypes, EventPcs
<1>15. \A u \in DOMAIN turns : turns[u].key # s =>
         /\ OnWire(u, "started")' <=> OnWire(u, "started")
         /\ OnWire(u, "completed")' <=> OnWire(u, "completed")
         /\ u \in DOMAIN bindings' <=> u \in DOMAIN bindings
         /\ u \in DOMAIN bindings => bindings'[u] = bindings[u]
  BY <1>f DEF OnWire
<1>16. wire' \in Seq([kind : {"started", "completed"}, key : Sessions,
                      turn : Nat])
  BY <1>f DEF ServerTypes
<1>17. UNCHANGED <<starts, created, inputs, failures, inbox, resp, turns,
                   panicked>>
  BY <1>f
<1>18. /\ loc[Events].key = s /\ w.turn \in DOMAIN turns /\ turns[w.turn].key = s
       /\ loc' = [loc EXCEPT ![Events] = w] /\ sess' = [sess EXCEPT ![s] = sr]
  BY <1>s, <1>1, <1>6, <1>f
<1> QED
  BY <1>1, <1>5, <1>6, <1>10, <1>11, <1>12, <1>13, <1>14, <1>15, <1>16, <1>17,
     <1>18, EventStep

\* FinishTurn posts the next start and cleans the submission up
LEMMA NextStep ==
  ASSUME QueueInv, Separate, FinishNext(Events)
  PROVE  QueueInv'
<1> USE Processes DEF QueueInv
<1>s. PICK s, t, i : s = loc[Events].key /\ t = loc[Events].turn /\ i = turns[t].sub
  OBVIOUS
<1>0. loc[Events].pc = "next" BY Zenon DEF FinishNext, At
<1>z. ~At(Events, "idle") BY <1>0 DEF At
<1>1. /\ s \in Sessions /\ loc[Events].hold = s /\ actor[s] = Events
      /\ At(s, "idle") /\ t \in DOMAIN turns /\ turns[t].key = s /\ i \in Subs
      /\ t \in Nat /\ t # NoTurn
  <2>1. /\ s \in Sessions /\ loc[Events].hold = s /\ actor[s] = Events
        /\ At(s, "idle") /\ t \in DOMAIN turns /\ turns[t].key = s /\ i \in Subs
    BY <1>s, <1>z, EventsAlone
  <2> QED BY <2>1, Entities DEF NoTurn
<1>2. /\ loc[Events].sub = i /\ sess[s].ops = NoOp /\ outcome[i] # NoTurn
  BY <1>s, <1>0, <1>z DEF Notifications, EventsOk, At
<1>3. /\ sess \in [Sessions -> Records] /\ sess[s] \in Records
      /\ pending \in [Sessions -> Seq(Subs)] /\ wake \in [Sessions -> Nat]
      /\ loc \in [Procs -> Locals]
      /\ actor \in [Sessions -> Procs \cup {None}]
      /\ pending[s] = <<>>
  BY <1>1, <1>2 DEF SessionTypes, ProcTypes, Single, SingleOk
<1>4. /\ wake' = Wake(wake, NextQueuedSessionKey(sess, s))
      /\ CleanupSubmissionRuntimeState(s, i) /\ Return(Events)
      /\ UNCHANGED <<sess, starts, inputs, created, failures, inbox, turns, wire,
                     resp, outcome, panicked>>
  <2>1. /\ wake' = Wake(wake, NextQueuedSessionKey(sess, loc[Events].key))
        /\ CleanupSubmissionRuntimeState(loc[Events].key, loc[Events].sub)
        /\ UNCHANGED sess /\ FinishReturn(Events)
    BY Zenon DEF FinishNext
  <2>2. UNCHANGED <<starts, inputs, created, failures, server, resp, outcome,
                    panicked>>
    BY Zenon DEF FinishNext
  <2>3. Return(Events) BY <2>1 DEF FinishReturn
  <2> QED BY <1>s, <1>2, <2>1, <2>2, <2>3 DEF server
<1>5. /\ loc' = [loc EXCEPT ![Events] = Idle]
      /\ actor' = [actor EXCEPT ![s] = None]
  <2>1. s # None BY <1>1
  <2> QED BY <1>1, <1>4, <2>1 DEF Return
<1>6. /\ Idle \in Locals /\ Idle.pc = "idle" /\ Idle.turn = NoTurn
  <2>1. EmptySession \in Records BY DEF EmptySession, Records
  <2> QED BY <2>1 DEF Idle, Locals, Pcs, EventPcs, WorkerPcs, NoSub, NoTurn
<1>7. /\ loc' \in [Procs -> Locals] /\ loc'[Events] = Idle
      /\ \A r \in Sessions : loc'[r] = loc[r]
  BY <1>3, <1>5, <1>6
<1>8. /\ wake' \in [Sessions -> Nat]
      /\ \A r \in Sessions \ {s} : wake'[r] = wake[r]
      /\ sess[s].queue # <<>> => wake'[s] > 0
  <2>1. NextQueuedSessionKey(sess, s) =
          IF sess[s].queue # <<>> /\ sess[s].ops = NoOp THEN s ELSE None
    BY <1>1, <1>3, NextOwn DEF Separate
  <2>2. CASE sess[s].queue = <<>>
    <3>1. wake' = wake BY <1>4, <2>1, <2>2 DEF Wake
    <3> QED BY <1>3, <2>2, <3>1
  <2>3. CASE sess[s].queue # <<>>
    <3>1. wake' = [wake EXCEPT ![s] = @ + 1]
      BY <1>1, <1>2, <1>4, <2>1, <2>3 DEF Wake
    <3> QED BY <1>1, <1>3, <3>1
  <2> QED BY <2>2, <2>3
<1>9. pending' = [pending EXCEPT ![s] = <<>>]
  <2>1. Without(pending[s], i) = <<>> BY <1>3, WithoutOnly
  <2> QED BY <1>4, <2>1 DEF CleanupSubmissionRuntimeState, ClearPendingTurnBinding
<1>10. /\ sub' \in [Subs -> [exists : BOOLEAN, running : BOOLEAN,
                             finalized : BOOLEAN, turn : Nat]]
       /\ \A j \in Subs \ {i} : sub'[j] = sub[j]
       /\ sub'[i].turn = sub[i].turn
  <2>1. sub \in [Subs -> [exists : BOOLEAN, running : BOOLEAN,
                          finalized : BOOLEAN, turn : Nat]]
    BY DEF SubTypes
  <2>2. sub' = [sub EXCEPT ![i].exists = FALSE, ![i].finalized = TRUE]
    BY <1>4 DEF CleanupSubmissionRuntimeState
  <2>3. PICK gone : gone = [sub[i] EXCEPT !.exists = FALSE, !.finalized = TRUE]
    OBVIOUS
  <2>4. /\ gone \in [exists : BOOLEAN, running : BOOLEAN,
                     finalized : BOOLEAN, turn : Nat]
        /\ gone.turn = sub[i].turn
    BY <1>1, <2>1, <2>3
  <2>5. sub' = [sub EXCEPT ![i] = gone] BY <1>1, <2>1, <2>2, <2>3
  <2> QED BY <1>1, <2>1, <2>4, <2>5
<1>11. /\ \A u \in DOMAIN bindings' : u \in DOMAIN turns /\ bindings'[u] \in Subs
       /\ \A u \in DOMAIN turns : turns[u].key # s =>
            /\ u \in DOMAIN bindings' <=> u \in DOMAIN bindings
            /\ u \in DOMAIN bindings => bindings'[u] = bindings[u]
  <2>1. bindings' = [u \in DOMAIN bindings \ {sub[i].turn} |-> bindings[u]]
    BY <1>4 DEF CleanupSubmissionRuntimeState, ClearTurnBinding
  <2>2. ASSUME NEW u \in DOMAIN turns, turns[u].key # s PROVE u # sub[i].turn
    <3>1. u # NoTurn BY Entities DEF NoTurn
    <3>2. sub[i].turn # NoTurn => sub[i].turn = t
      BY <1>s, <1>1 DEF OwnTurn, Turns, StartedOnce
    <3> QED BY <1>1, <2>2, <3>1, <3>2
  <2> QED BY <2>1, <2>2 DEF ServerTypes
<1>12. \A u : Unsettled(u)' => Unsettled(u)
  <2>1. \A u, kd : OnWire(u, kd)' <=> OnWire(u, kd) BY <1>4 DEF OnWire
  <2>2. loc'[Events].pc = "idle" BY <1>6, <1>7
  <2> QED BY <1>4, <2>1, <2>2 DEF Unsettled
<1>13. Own(s)'
  <2>1. ~OpenTurn(s) /\ ~Asked(s) BY <1>1, <1>2, NoneAsked
  <2>2. ~OpenTurn(s)' BY <1>4, <1>12, <2>1 DEF OpenTurn
  <2>3. ~Asked(s)' BY <1>4, <2>1 DEF Asked
  <2>4. sess'[s].ops = NoOp /\ pending'[s] = <<>> BY <1>1, <1>2, <1>3, <1>4, <1>9
  <2>5. Worker(s)' BY <1>1, <1>7 DEF Worker, At
  <2>6. SingleOk(s)' BY <2>4 DEF SingleOk
  <2>7. WokenOk(s)' BY <1>4, <1>8 DEF WokenOk
  <2>8. ~At(s, "rpc")' BY <1>1, <1>7 DEF At
  <2> QED BY <1>1, <2>2, <2>3, <2>4, <2>5, <2>6, <2>7, <2>8, OwnClosed
<1>14. Places' /\ Accounted'
  <2>1. ~Alive(i) BY <1>2 DEF Alive
  <2>2. \A j \in Subs : j # i => (Alive(j)' <=> Alive(j))
    BY <1>4, <1>10 DEF Alive, Exists
  <2>3. \A r \in Sessions : \A j \in Subs : Held(j, r)' <=> Held(j, r)
    BY <1>4, <1>7 DEF Held, At
  <2>4. \A j : (Requested(j)' <=> Requested(j)) /\ (Run(j)' <=> Run(j))
    BY <1>4 DEF Requested, Run
  <2>5. \A r \in Sessions : \A j \in Subs :
          loc'[r].pc \in {"thread", "mark"} /\ loc'[r].sub = j =>
            ~Requested(j)' /\ ~Run(j)'
    BY <1>7, <2>4 DEF Places
  <2>6. \A r \in Sessions : \A j \in Subs :
          Queued(j, r) => Alive(j)' /\ ~Requested(j)' /\ ~Run(j)'
    BY <2>1, <2>2, <2>4 DEF Places
  <2>7. \A r \in Sessions : \A j \in Subs : Held(j, r)' => Held(j, r) /\ Alive(j)'
    BY <2>1, <2>2, <2>3 DEF Places
  <2>8. \A j \in Subs : j > created =>
          ~sub'[j].finalized /\ outcome'[j] = NoTurn /\ ~Run(j)'
    BY <1>2, <1>4, <1>10, <2>4 DEF Places
  <2>9. \A j \in 1 .. created : j \in Subs
    BY QueueAssumption DEF SubTypes, Subs, QueueAssumption
  <2>10. \A r \in Sessions : \A j \in 1 .. created :
           Held(j, r) => Held(j, r)' \/ outcome'[j] # NoTurn
    BY <2>3, <2>9
  <2> QED BY <1>4, <2>5, <2>6, <2>7, <2>8, <2>10, PlacesFrame
<1>15. Notifications'
  <2>1. WireOk' BY <1>4 DEF Notifications, WireOk, Ending, OnWire
  <2>2. EventsOk' BY <1>6, <1>7 DEF EventsOk, At
  <2> QED BY <2>1, <2>2 DEF Notifications
<1>16. SubTypes' /\ OwnTurn'
  <2>1. SubTypes' BY <1>4, <1>10 DEF SubTypes
  <2>2. \A j \in Subs : sub'[j].turn = sub[j].turn BY <1>10
  <2>3. OwnTurn' BY <1>4, <2>2 DEF OwnTurn
  <2> QED BY <2>1, <2>3
<1>17. /\ actor' \in [Sessions -> Procs \cup {None}]
       /\ \A r \in Sessions \ {s} : actor'[r] = actor[r] /\ wake'[r] = wake[r]
       /\ sess' = [sess EXCEPT ![s] = sess[s]]
       /\ Idle.pc \in EventPcs /\ <<>> \in Seq(Subs)
       /\ wire' \in Seq([kind : {"started", "completed"}, key : Sessions,
                         turn : Nat])
  BY <1>1, <1>3, <1>4, <1>5, <1>6, <1>8 DEF ServerTypes, EventPcs
<1>18. \A u \in DOMAIN turns : turns[u].key # s =>
         /\ OnWire(u, "started")' <=> OnWire(u, "started")
         /\ OnWire(u, "completed")' <=> OnWire(u, "completed")
         /\ u \in DOMAIN bindings' <=> u \in DOMAIN bindings
         /\ u \in DOMAIN bindings => bindings'[u] = bindings[u]
  BY <1>4, <1>11 DEF OnWire
<1>19. UNCHANGED <<starts, created, inputs, failures, inbox, resp, turns,
                   panicked>>
  BY <1>4
<1>20. loc[Events].key = s /\ actor[s] \in {None, Events}
  BY <1>s, <1>1
<1> QED
  BY <1>1, <1>3, <1>5, <1>6, <1>8, <1>9, <1>11, <1>13, <1>14, <1>15, <1>16,
     <1>17, <1>18, <1>19, <1>20, EventStep

-----------------------------------------------------------------------------
(* The App Server.                                                         *)

\* A notification that the App Server sends goes behind those on the wire.
LEMMA Sent ==
  ASSUME QueueInv,
         NEW e \in [kind : {"started", "completed"}, key : Sessions, turn : Nat],
         wire' = Append(wire, e),
         \A t \in DOMAIN turns :
           /\ t \in DOMAIN turns' /\ turns'[t].key = turns[t].key
           /\ turns[t].done => turns'[t].done
           /\ turns'[t].done =>
                turns[t].done \/ (e.turn = t /\ e.kind = "completed"),
         e.turn \in DOMAIN turns', e.key = turns'[e.turn].key,
         e.kind = "completed" =>
           turns'[e.turn].done /\ ~OnWire(e.turn, "completed"),
         e.kind = "started" =>
           e.turn \notin DOMAIN turns /\ ~turns'[e.turn].done
  PROVE  /\ wire' \in Seq([kind : {"started", "completed"}, key : Sessions,
                           turn : Nat])
         /\ \A t, kind : OnWire(t, kind)' <=>
                           OnWire(t, kind) \/ (e.turn = t /\ e.kind = kind)
         /\ WireOk'
<1> USE DEF QueueInv
<1>1. PICK n \in Nat : n = Len(wire) BY LenProperties DEF ServerTypes
<1>2. /\ wire' \in Seq([kind : {"started", "completed"}, key : Sessions,
                        turn : Nat])
      /\ DOMAIN wire = 1 .. n /\ DOMAIN wire' = 1 .. (n + 1)
      /\ \A k \in 1 .. n : wire'[k] = wire[k]
      /\ wire'[n + 1] = e
  BY <1>1, AppendProperties, LenProperties DEF ServerTypes
<1>3. ASSUME NEW t, NEW kind
      PROVE  OnWire(t, kind)' <=> OnWire(t, kind) \/ (e.turn = t /\ e.kind = kind)
  <2>1. \A k \in 1 .. (n + 1) : k \in 1 .. n \/ k = n + 1 OBVIOUS
  <2>2. n + 1 \in 1 .. (n + 1) /\ \A k \in 1 .. n : k \in 1 .. (n + 1) OBVIOUS
  <2>3. ASSUME OnWire(t, kind)'
        PROVE  OnWire(t, kind) \/ (e.turn = t /\ e.kind = kind)
    <3>1. PICK k \in 1 .. (n + 1) : wire'[k].turn = t /\ wire'[k].kind = kind
      BY <1>2, <2>3 DEF OnWire
    <3> QED BY <1>2, <2>1, <3>1 DEF OnWire
  <2>4. ASSUME OnWire(t, kind) PROVE OnWire(t, kind)'
    <3>1. PICK k \in 1 .. n : wire[k].turn = t /\ wire[k].kind = kind
      BY <1>2, <2>4 DEF OnWire
    <3> QED BY <1>2, <2>2, <3>1 DEF OnWire
  <2>5. e.turn = t /\ e.kind = kind => OnWire(t, kind)'
    BY <1>2, <2>2 DEF OnWire
  <2> QED BY <2>3, <2>4, <2>5
<1>4. WireOk'
  <2>1. ASSUME NEW k \in 1 .. n
        PROVE  /\ wire'[k].turn \in DOMAIN turns'
               /\ wire'[k].key = turns'[wire'[k].turn].key
               /\ wire'[k].kind = "completed" => turns'[wire'[k].turn].done
               /\ wire'[k].kind = "started" => Ending(wire[k].turn)'
    <3> PICK u : u = wire[k].turn OBVIOUS
    <3>1. /\ u \in DOMAIN turns /\ wire[k].key = turns[u].key
          /\ wire[k].kind = "completed" => turns[u].done
          /\ wire[k].kind = "started" => Ending(u)
      BY <1>2 DEF Notifications, WireOk
    <3>2. wire[k].kind = "started" => Ending(u)'
      BY <1>3, <3>1 DEF Ending
    <3>3. wire'[k] = wire[k] BY <1>2
    <3>4. wire'[k].kind = "started" => Ending(wire[k].turn)'
      BY <3>2, <3>3
    <3> QED BY <3>1, <3>3, <3>4
  <2>2. e.kind = "started" => Ending(e.turn)' BY DEF Ending
  <2>3. ASSUME NEW k \in 1 .. (n + 1), NEW l \in 1 .. (n + 1), k < l,
               wire'[k].turn = wire'[l].turn
        PROVE  wire'[k].kind = "started" /\ wire'[l].kind = "completed"
    <3>1. k \in 1 .. n /\ (l \in 1 .. n \/ l = n + 1) BY <2>3
    <3>2. CASE l \in 1 .. n
      <4>1. wire'[k] = wire[k] /\ wire'[l] = wire[l]
        BY <1>2, <3>1, <3>2
      <4>2. k \in DOMAIN wire /\ l \in DOMAIN wire
        BY <1>2, <3>1, <3>2
      <4>3. \A a, b \in DOMAIN wire : a < b /\ wire[a].turn = wire[b].turn =>
              wire[a].kind = "started" /\ wire[b].kind = "completed"
        BY DEF Notifications, WireOk
      <4> QED BY <2>3, <4>1, <4>2, <4>3
    <3>3. CASE l = n + 1
      <4>1. wire[k].turn = e.turn /\ wire'[k] = wire[k] /\ wire'[l] = e
        BY <1>2, <2>3, <3>1, <3>3
      <4>2. wire[k].turn \in DOMAIN turns /\ k \in DOMAIN wire
        BY <1>2, <3>1 DEF Notifications, WireOk
      <4>3. e.kind = "completed" BY <4>1, <4>2
      <4>4. wire[k].kind # "completed" BY <4>1, <4>2, <4>3 DEF OnWire
      <4>5. wire[k].kind \in {"started", "completed"} BY <4>2, Entities
      <4> QED BY <4>1, <4>3, <4>4, <4>5
    <3> QED BY <3>1, <3>2, <3>3
  <2>4. ASSUME NEW k \in DOMAIN wire'
        PROVE  /\ wire'[k].turn \in DOMAIN turns'
               /\ wire'[k].key = turns'[wire'[k].turn].key
               /\ wire'[k].kind = "completed" => turns'[wire'[k].turn].done
               /\ wire'[k].kind = "started" => Ending(wire[k].turn)'
    <3>1. CASE k \in 1 .. n BY <2>1, <3>1
    <3>2. CASE k = n + 1
      <4>1. wire'[k] = e BY <1>2, <3>2
      <4>2. wire'[k].kind = "started" => Ending(wire[k].turn)'
        BY <2>2, <4>1 DEF Ending
      <4> QED BY <4>1, <4>2
    <3> QED BY <1>2, <3>1, <3>2
  <2> QED BY <1>2, <2>3, <2>4 DEF WireOk
<1> QED BY <1>2, <1>3, <1>4

\* A step of the App Server about session s.
LEMMA ServerStep ==
  ASSUME QueueInv, NEW s \in Sessions,
         UNCHANGED <<sess, sub, starts, actor, wake, pending, bindings, loc,
                     inputs, created, outcome, panicked>>,
         failures' \in 0 .. MaxFailures, resp' \in [Procs -> Int],
         \A r \in Sessions \ {s} : resp'[r] = resp[r],
         \A p \in Procs : resp'[p] # NoTurn => p \in Sessions /\ At(p, "rpc"),
         inbox' \subseteq inbox, \A c \in inbox : c.key # s => c \in inbox',
         turns' \in Seq([key : Sessions, sub : Subs, done : BOOLEAN]),
         \A t \in DOMAIN turns :
           /\ t \in DOMAIN turns' /\ turns'[t].key = turns[t].key
           /\ turns'[t].sub = turns[t].sub
           /\ turns[t].key # s =>
                /\ turns'[t] = turns[t]
                /\ OnWire(t, "started")' <=> OnWire(t, "started")
                /\ OnWire(t, "completed")' <=> OnWire(t, "completed"),
         \A t \in DOMAIN turns' : turns'[t].key # s => t \in DOMAIN turns,
         wire' \in Seq([kind : {"started", "completed"}, key : Sessions,
                        turn : Nat]),
         \A i : Run(i)' => Run(i) \/ \E c \in inbox : c.sub = i /\ c.key = s,
         \A c \in inbox' : ~Run(c.sub)',
         Own(s)', Notifications', StartedOnce'
  PROVE  QueueInv'
<1> USE Processes DEF QueueInv
<1>1. Local(s)
  <2>1. loc'[Events] = loc[Events] OBVIOUS
  <2> QED BY <2>1 DEF Local
<1>2. SessionTypes' /\ SubTypes' /\ ProcTypes'
  BY DEF SessionTypes, SubTypes, ProcTypes
<1>3. ServerTypes' BY DEF ServerTypes
<1>4. Locks' BY DEF Locks, At
<1>5. OwnTurn' BY DEF OwnTurn
<1>6. ASSUME NEW c \in inbox
      PROVE  c.key \in Sessions /\ c.sub \in Subs /\ Held(c.sub, c.key)
  <2>1. RequestOk(c) BY DEF Requests
  <2>2. sess[c.key].ops = Op(c.sub, NoTurn) BY <2>1 DEF RequestOk
  <2> QED BY <2>2, HeldOp, Entities
<1>7. Places' /\ Accounted'
  <2>1. \A r \in Sessions : \A i \in Subs :
          /\ Held(i, r)' <=> Held(i, r)
          /\ Alive(i)' <=> Alive(i)
          /\ Requested(i)' => Requested(i)
          /\ Run(i)' => Run(i) \/ Requested(i)
    BY DEF Held, Alive, Exists, At, Requested
  <2>2. \A r \in Sessions : \A i \in Subs :
          loc'[r].pc \in {"thread", "mark"} /\ loc'[r].sub = i =>
            ~Requested(i)' /\ ~Run(i)'
    BY <2>1 DEF Places
  <2>3. \A r \in Sessions : \A i \in Subs :
          Queued(i, r) => Alive(i)' /\ ~Requested(i)' /\ ~Run(i)'
    BY <2>1 DEF Places
  <2>4. \A r \in Sessions : \A i \in Subs : Held(i, r)' => Held(i, r) /\ Alive(i)'
    BY <2>1 DEF Places
  <2>5. ASSUME NEW i \in Subs, i > created
        PROVE  ~sub'[i].finalized /\ outcome'[i] = NoTurn /\ ~Run(i)'
    <3>1. ~sub[i].finalized /\ outcome[i] = NoTurn /\ ~Run(i)
      BY <2>5 DEF Places
    <3>2. ~Requested(i)
      <4> SUFFICES ASSUME NEW c \in inbox, c.sub = i PROVE FALSE
        BY DEF Requested
      <4>1. Alive(i) BY <1>6 DEF Places
      <4>2. i \in 1 .. created BY <4>1 DEF Alive
      <4> QED BY <2>5, <4>2 DEF SubTypes
    <3> QED BY <2>1, <3>1, <3>2 DEF Requested
  <2>6. \A j \in 1 .. created : j \in Subs
    BY QueueAssumption DEF SubTypes, Subs, QueueAssumption
  <2>7. \A r \in Sessions : \A i \in 1 .. created :
          Held(i, r) => Held(i, r)' \/ outcome'[i] # NoTurn
    BY <2>1, <2>6
  <2> QED BY <2>2, <2>3, <2>4, <2>5, <2>7, PlacesFrame
<1>8. \A r \in Sessions \ {s} : \A i : Held(i, r) /\ ~Run(i) => ~Run(i)'
  <2> SUFFICES ASSUME NEW r \in Sessions \ {s}, NEW i, Held(i, r), ~Run(i), Run(i)'
               PROVE  FALSE
    OBVIOUS
  <2>1. PICK c \in inbox : c.sub = i /\ c.key = s OBVIOUS
  <2>2. Held(i, s) /\ i \in Subs BY <1>6, <2>1
  <2> QED BY <2>2 DEF Places
<1>9. \A p \in Procs : resp'[p] # NoTurn => p \in Sessions /\ At(p, "rpc")'
  BY DEF At
<1>10. \A r \in Sessions :
         /\ loc'[r].pc \in {"load", "save", "queue"}
              <=> loc[r].pc \in {"load", "save", "queue"}
         /\ loc'[r].pc \in StartPcs <=> loc[r].pc \in StartPcs
  OBVIOUS
<1> QED
  BY <1>1, <1>2, <1>3, <1>4, <1>5, <1>7, <1>8, <1>9, <1>10, SessionStep

\* While a request of session s waits no turn of s is open, and Events does not
\* work on s.
LEMMA RequestAlone ==
  ASSUME QueueInv, NEW c \in inbox, NEW s, NEW i, s = c.key, i = c.sub
  PROVE  /\ s \in Sessions /\ i \in Subs /\ RequestOk(c) /\ ~Run(i)
         /\ sess[s].ops = Op(i, NoTurn) /\ pending[s] = <<i>> /\ sess[s].thread
         /\ \A t \in DOMAIN turns : turns[t].key = s => ~Unsettled(t)
         /\ At(Events, "idle") \/ loc[Events].key # s
         /\ \A d \in inbox : d.key = s => d = c
         /\ \A d \in inbox : d.sub = i => d = c
         /\ At(s, "rpc") => loc[s].sub = i
<1> USE Processes DEF QueueInv
<1>1. RequestOk(c) /\ ~Run(i) /\ s \in Sessions /\ i \in Subs
  BY Entities DEF Requests
<1>2. sess[s].ops = Op(i, NoTurn) /\ pending[s] = <<i>> /\ sess[s].thread
  BY <1>1 DEF RequestOk
<1>3. ASSUME NEW t \in DOMAIN turns, turns[t].key = s, Unsettled(t)
      PROVE  FALSE
  <2>1. ~Asked(s) BY <1>3 DEF Turns, TurnOk
  <2> QED BY <2>1 DEF Asked
<1>4. At(Events, "idle") \/ loc[Events].key # s
  <2> SUFFICES ASSUME ~At(Events, "idle"), loc[Events].key = s PROVE FALSE
    OBVIOUS
  <2>1. /\ loc[Events].turn \in DOMAIN turns
        /\ turns[loc[Events].turn].key = s
    BY EventsAlone
  <2>2. loc[Events].pc \in {"started", "bind", "find", "finalize", "next"}
    BY DEF Locks, EventPcs, At
  <2>3. CASE loc[Events].pc \in {"started", "bind", "find", "finalize"}
    <3>1. Unsettled(loc[Events].turn) BY <2>3 DEF Unsettled
    <3> QED BY <1>3, <2>1, <3>1
  <2>4. CASE loc[Events].pc = "next"
    <3>1. sess[s].ops = NoOp BY <2>4 DEF Notifications, EventsOk, At
    <3> QED BY <1>2, <3>1, OpSome
  <2> QED BY <2>2, <2>3, <2>4
<1>5. \A d \in inbox : d.key = s => d = c BY DEF Requests
<1>6. ASSUME NEW d \in inbox, d.sub = i PROVE d = c
  <2>1. RequestOk(d) /\ d.key \in Sessions BY Entities DEF Requests
  <2>2. sess[d.key].ops = Op(i, NoTurn) BY <1>6, <2>1 DEF RequestOk
  <2>3. Held(i, s) /\ Held(i, d.key) BY <1>2, <2>2, HeldOp
  <2>4. d.key = s BY <1>1, <2>1, <2>3 DEF Places
  <2> QED BY <1>5, <2>4
<1>7. ASSUME At(s, "rpc") PROVE loc[s].sub = i
  <2>1. sess[s].ops = Op(loc[s].sub, NoTurn)
    BY <1>1, <1>7 DEF Workers, Worker, At
  <2>2. Op(loc[s].sub, NoTurn) = Op(i, NoTurn) BY <1>2, <2>1
  <2> QED BY <2>2, OpSame
<1> QED BY <1>1, <1>2, <1>3, <1>4, <1>5, <1>6, <1>7

\* The App Server starts the turn and announces it
LEMMA ServerStartsStep ==
  ASSUME QueueInv, NEW c \in inbox, ServerStartsTurn(c)
  PROVE  QueueInv'
<1> USE Processes DEF QueueInv
<1>c. PICK s, i : s = c.key /\ i = c.sub OBVIOUS
<1>0. /\ s \in Sessions /\ i \in Subs /\ RequestOk(c) /\ ~Run(i)
      /\ sess[s].ops = Op(i, NoTurn) /\ pending[s] = <<i>> /\ sess[s].thread
      /\ \A t \in DOMAIN turns : turns[t].key = s => ~Unsettled(t)
      /\ At(Events, "idle") \/ loc[Events].key # s
      /\ \A d \in inbox : d.key = s => d = c
      /\ \A d \in inbox : d.sub = i => d = c
      /\ At(s, "rpc") => loc[s].sub = i
  BY <1>c, RequestAlone
<1>1. c.proc \in Procs \cup {None} BY Entities
<1>n. PICK n \in Nat : n = Len(turns) + 1 BY LenProperties DEF ServerTypes
<1>2. /\ UNCHANGED <<sess, sub, starts, actor, wake, pending, bindings, loc,
                     inputs, created, failures, outcome, panicked>>
      /\ inbox' = inbox \ {c}
      /\ turns' = Append(turns, [key |-> s, sub |-> i, done |-> FALSE])
      /\ wire' = Append(wire, [kind |-> "started", key |-> s, turn |-> n])
      /\ Answer(c, n)
  BY <1>c, <1>n DEF ServerStartsTurn, store, tracker
<1>r. PICK new : new = [key |-> s, sub |-> i, done |-> FALSE] OBVIOUS
<1>e. PICK e : e = [kind |-> "started", key |-> s, turn |-> n] OBVIOUS
<1>3. /\ new \in [key : Sessions, sub : Subs, done : BOOLEAN]
      /\ new.key = s /\ new.sub = i /\ new.done = FALSE
      /\ e \in [kind : {"started", "completed"}, key : Sessions, turn : Nat]
      /\ e.kind = "started" /\ e.key = s /\ e.turn = n
  BY <1>0, <1>n, <1>r, <1>e
<1>4. /\ turns' \in Seq([key : Sessions, sub : Subs, done : BOOLEAN])
      /\ n \notin DOMAIN turns /\ n \in DOMAIN turns' /\ turns'[n] = new
      /\ \A t \in DOMAIN turns : t \in DOMAIN turns' /\ turns'[t] = turns[t]
      /\ \A t \in DOMAIN turns' : t \in DOMAIN turns \/ t = n
  BY <1>n, <1>r, <1>2, <1>3, AppendProperties, LenProperties DEF ServerTypes
<1>5. /\ wire' \in Seq([kind : {"started", "completed"}, key : Sessions,
                        turn : Nat])
      /\ \A t, kind : OnWire(t, kind)' <=>
                        OnWire(t, kind) \/ (n = t /\ "started" = kind)
      /\ WireOk'
  <2>1. wire' = Append(wire, e) BY <1>2, <1>e
  <2>2. e.turn \in DOMAIN turns' /\ e.key = turns'[e.turn].key BY <1>3, <1>4
  <2>3. e.turn \notin DOMAIN turns /\ ~turns'[e.turn].done /\ e.kind # "completed"
    BY <1>3, <1>4
  <2>4. \A t \in DOMAIN turns :
          /\ t \in DOMAIN turns' /\ turns'[t].key = turns[t].key
          /\ turns[t].done => turns'[t].done
          /\ turns'[t].done => turns[t].done \/ (e.turn = t /\ e.kind = "completed")
    BY <1>4
  <2>5. /\ wire' \in Seq([kind : {"started", "completed"}, key : Sessions,
                          turn : Nat])
        /\ \A t, kind : OnWire(t, kind)' <=>
                          OnWire(t, kind) \/ (e.turn = t /\ e.kind = kind)
        /\ WireOk'
    BY <1>3, <2>1, <2>2, <2>3, <2>4, Sent
  <2> QED BY <1>3, <2>5
<1>6. /\ resp' \in [Procs -> Int] /\ \A r \in Sessions \ {s} : resp'[r] = resp[r]
      /\ \A p \in Procs : resp'[p] # NoTurn => p \in Sessions /\ At(p, "rpc")
      /\ At(s, "rpc") => resp'[s] = n
  <2>1. /\ resp \in [Procs -> Int]
        /\ \A p \in Procs : resp[p] # NoTurn => p \in Sessions /\ At(p, "rpc")
    BY DEF ProcTypes, Responses
  <2>2. CASE c.proc = None
    <3>1. resp' = resp BY <1>2, <2>2 DEF Answer
    <3>2. ~At(s, "rpc") BY <1>0, <1>c, <2>2 DEF RequestOk, At
    <3> QED BY <2>1, <3>1, <3>2
  <2>3. CASE c.proc # None
    <3>1. c.proc = s /\ At(s, "rpc") BY <1>0, <1>c, <2>3 DEF RequestOk
    <3>2. resp' = [resp EXCEPT ![s] = n] BY <1>2, <2>3, <3>1 DEF Answer
    <3> QED BY <1>0, <2>1, <3>1, <3>2
  <2> QED BY <2>2, <2>3
<1>7. /\ \A t \in DOMAIN turns : Unsettled(t)' <=> Unsettled(t)
      /\ \A j : Run(j)' <=> Run(j) \/ j = i
  <2>1. \A t \in DOMAIN turns : Unsettled(t)' <=> Unsettled(t)
    BY <1>2, <1>4, <1>5 DEF Unsettled
  <2>2. \A j : Run(j)' <=> Run(j) \/ j = i
    BY <1>3, <1>4 DEF Run
  <2> QED BY <2>1, <2>2
<1>8. Own(s)'
  <2>1. Unsettled(n)' BY <1>3, <1>4 DEF Unsettled
  <2>2. \A u \in DOMAIN turns' : turns'[u].key = s /\ Unsettled(u)' => u = n
    BY <1>0, <1>4, <1>7
  <2>3. sess'[s].ops # NoOp BY <1>0, <1>2, OpSome
  <2>4. SingleOk(s)' BY <1>0, <1>2 DEF Single, SingleOk
  <2>5. Worker(s)' BY <1>0, <1>2 DEF Workers, Worker, At
  <2>6. ResponseOk(s)'
    <3>1. CASE At(s, "rpc")
      <4>1. resp'[s] = n /\ loc'[s].sub = i BY <1>0, <1>2, <1>6, <3>1
      <4>2. n \in DOMAIN turns' /\ turns'[n].key = s /\ turns'[n].sub = i
        BY <1>3, <1>4
      <4>3. Unsettled(resp[s])' BY <2>1, <4>1
      <4> QED BY <4>1, <4>2, <4>3 DEF ResponseOk
    <3>2. CASE ~At(s, "rpc") BY <1>2, <3>2 DEF ResponseOk, At
    <3> QED BY <3>1, <3>2
  <2>7. Unbound(s, i, n)'
    <3>1. n \notin DOMAIN bindings' BY <1>2, <1>4 DEF ServerTypes
    <3>2. Unstarted(n)' BY <1>5 DEF Unstarted
    <3>3. ~At(s, "activate")' /\ ~(At(Events, "bind") /\ loc[Events].key = s)'
      BY <1>0, <1>c, <1>2 DEF RequestOk, At
    <3> QED BY <1>0, <1>2, <3>1, <3>2, <3>3 DEF Unbound
  <2>8. TurnOk(n)'
    <3>1. ~Asked(s)' BY <1>0, <1>2 DEF Asked
    <3>2. ~At(s, "mark")' BY <1>0, <1>c, <1>2 DEF RequestOk, At
    <3>3. turns'[n].key = s /\ turns'[n].sub = i /\ sess'[s].thread
      BY <1>0, <1>2, <1>3, <1>4
    <3>4. At(s, "rpc")' => resp'[s] = n BY <1>2, <1>6 DEF At
    <3> QED BY <2>7, <3>1, <3>2, <3>3, <3>4 DEF TurnOk
  <2>9. turns'[n].key = s /\ n \in DOMAIN turns' BY <1>3, <1>4
  <2> QED BY <1>0, <2>1, <2>2, <2>3, <2>4, <2>5, <2>6, <2>8, <2>9, OwnOpen
<1>9. Notifications'
  <2>1. EventsOk'
    <3>1. CASE At(Events, "idle") BY <1>2, <3>1 DEF EventsOk, At
    <3>2. CASE ~At(Events, "idle")
      <4> PICK t : t = loc[Events].turn OBVIOUS
      <4>1. t \in DOMAIN turns /\ EventsOk BY <3>2 DEF Notifications, EventsOk
      <4>2. /\ t # n /\ turns'[t] = turns[t] /\ t \in DOMAIN turns'
            /\ OnWire(t, "started")' <=> OnWire(t, "started")
            /\ OnWire(t, "completed")' <=> OnWire(t, "completed")
            /\ Ending(t)' <=> Ending(t)
        BY <1>4, <1>5, <4>1 DEF Ending
      <4> QED BY <1>2, <3>2, <4>1, <4>2 DEF EventsOk, At
    <3> QED BY <3>1, <3>2
  <2> QED BY <1>5, <2>1 DEF Notifications
<1>10. StartedOnce'
  <2>1. \A t \in DOMAIN turns : turns[t].sub # i BY <1>0 DEF Run
  <2> QED BY <1>3, <1>4, <2>1 DEF Turns, StartedOnce
<1>11. \A d \in inbox' : ~Run(d.sub)'
  BY <1>0, <1>2, <1>7 DEF Requests
<1>12. \A j : Run(j)' => Run(j) \/ \E d \in inbox : d.sub = j /\ d.key = s
  BY <1>c, <1>7
<1>13. /\ failures' \in 0 .. MaxFailures
       /\ inbox' \subseteq inbox /\ \A d \in inbox : d.key # s => d \in inbox'
       /\ \A t \in DOMAIN turns' : turns'[t].key # s => t \in DOMAIN turns
  BY <1>c, <1>2, <1>3, <1>4 DEF SubTypes
<1>14. \A t \in DOMAIN turns :
         /\ t \in DOMAIN turns' /\ turns'[t].key = turns[t].key
         /\ turns'[t].sub = turns[t].sub
         /\ turns[t].key # s =>
              /\ turns'[t] = turns[t]
              /\ OnWire(t, "started")' <=> OnWire(t, "started")
              /\ OnWire(t, "completed")' <=> OnWire(t, "completed")
  BY <1>4, <1>5
<1>15. UNCHANGED <<sess, sub, starts, actor, wake, pending, bindings, loc,
                   inputs, created, outcome, panicked>>
  BY <1>2
<1> QED
  BY <1>0, <1>4, <1>5, <1>6, <1>8, <1>9, <1>10, <1>11, <1>12, <1>13, <1>14,
     <1>15, ServerStep

\* The App Server answers turn/start with an error
LEMMA ServerRejectsStep ==
  ASSUME QueueInv, NEW c \in inbox, ServerRejects(c)
  PROVE  QueueInv'
<1> USE Processes DEF QueueInv
<1>c. PICK s, i : s = c.key /\ i = c.sub OBVIOUS
<1>0. /\ s \in Sessions /\ i \in Subs /\ RequestOk(c) /\ ~Run(i)
      /\ sess[s].ops = Op(i, NoTurn) /\ pending[s] = <<i>> /\ sess[s].thread
      /\ \A t \in DOMAIN turns : turns[t].key = s => ~Unsettled(t)
      /\ \A d \in inbox : d.key = s => d = c
      /\ At(s, "rpc") => loc[s].sub = i
  BY <1>c, RequestAlone
<1>1. /\ UNCHANGED <<sess, sub, starts, actor, wake, pending, bindings, loc,
                     inputs, created, turns, wire, outcome, panicked>>
      /\ inbox' = inbox \ {c} /\ failures < MaxFailures /\ failures' = failures + 1
      /\ c.proc # None /\ Answer(c, Failed)
  BY DEF ServerRejects, store, tracker
<1>2. c.proc = s /\ At(s, "rpc") BY <1>0, <1>1, <1>c DEF RequestOk
<1>3. /\ resp' \in [Procs -> Int] /\ \A r \in Sessions \ {s} : resp'[r] = resp[r]
      /\ \A p \in Procs : resp'[p] # NoTurn => p \in Sessions /\ At(p, "rpc")
      /\ resp'[s] = Failed
  <2>1. /\ resp \in [Procs -> Int]
        /\ \A p \in Procs : resp[p] # NoTurn => p \in Sessions /\ At(p, "rpc")
    BY DEF ProcTypes, Responses
  <2>2. resp' = [resp EXCEPT ![s] = Failed] BY <1>1, <1>2 DEF Answer
  <2>3. Failed \in Int BY DEF Failed
  <2> QED BY <1>0, <1>2, <2>1, <2>2, <2>3
<1>4. /\ \A t : Unsettled(t)' <=> Unsettled(t)
      /\ \A t, kind : OnWire(t, kind)' <=> OnWire(t, kind)
      /\ \A j : Run(j)' <=> Run(j)
  BY <1>1 DEF Unsettled, OnWire, Run
<1>5. Own(s)'
  <2>1. ~OpenTurn(s)' BY <1>0, <1>1, <1>4 DEF OpenTurn
  <2>2. ~Asked(s)' BY <1>0, <1>1 DEF Asked
  <2>3. At(s, "rpc")' /\ loc'[s].sub = i BY <1>0, <1>1, <1>2 DEF At
  <2>4. ResponseOk(s)'
    <3>1. ~Run(loc[s].sub)' BY <1>0, <1>4, <2>3
    <3> QED BY <1>3, <2>1, <2>2, <3>1 DEF ResponseOk
  <2>5. BackedOk(s)' BY <1>3, <2>3 DEF BackedOk
  <2>6. SingleOk(s)' BY <1>0, <1>1 DEF Single, SingleOk
  <2>7. Worker(s)' BY <1>0, <1>1 DEF Workers, Worker, At
  <2>8. WokenOk(s)'
    <3>1. sess'[s].ops # NoOp BY <1>0, <1>1, OpSome
    <3> QED BY <3>1 DEF WokenOk
  <2>9. /\ \A t \in DOMAIN turns' : ~(turns'[t].key = s /\ Unsettled(t)')
        /\ \A d \in inbox' : d.key # s
    BY <2>1, <2>2 DEF OpenTurn, Asked
  <2> QED BY <2>4, <2>5, <2>6, <2>7, <2>8, <2>9 DEF Own
<1>6. Notifications'
  <2>1. WireOk' BY <1>1 DEF Notifications, WireOk, Ending, OnWire
  <2>2. EventsOk' BY <1>1 DEF Notifications, EventsOk, Ending, OnWire, At
  <2> QED BY <2>1, <2>2 DEF Notifications
<1>7. StartedOnce' BY <1>1 DEF Turns, StartedOnce
<1>8. \A d \in inbox' : ~Run(d.sub)' BY <1>1, <1>4 DEF Requests
<1>9. \A j : Run(j)' => Run(j) \/ \E d \in inbox : d.sub = j /\ d.key = s
  BY <1>4
<1>10. /\ failures' \in 0 .. MaxFailures
       /\ inbox' \subseteq inbox /\ \A d \in inbox : d.key # s => d \in inbox'
       /\ \A t \in DOMAIN turns' : turns'[t].key # s => t \in DOMAIN turns
       /\ turns' \in Seq([key : Sessions, sub : Subs, done : BOOLEAN])
       /\ wire' \in Seq([kind : {"started", "completed"}, key : Sessions,
                         turn : Nat])
  BY <1>c, <1>1, QueueAssumption DEF SubTypes, ServerTypes, QueueAssumption
<1>11. \A t \in DOMAIN turns :
         /\ t \in DOMAIN turns' /\ turns'[t].key = turns[t].key
         /\ turns'[t].sub = turns[t].sub
         /\ turns[t].key # s =>
              /\ turns'[t] = turns[t]
              /\ OnWire(t, "started")' <=> OnWire(t, "started")
              /\ OnWire(t, "completed")' <=> OnWire(t, "completed")
  BY <1>1, <1>4
<1>12. UNCHANGED <<sess, sub, starts, actor, wake, pending, bindings, loc,
                   inputs, created, outcome, panicked>>
  BY <1>1
<1> QED
  BY <1>0, <1>3, <1>5, <1>6, <1>7, <1>8, <1>9, <1>10, <1>11, <1>12, ServerStep

\* The App Server completes the turn and says so
LEMMA ServerCompletesStep ==
  ASSUME QueueInv, NEW t \in DOMAIN turns, ServerCompletesTurn(t)
  PROVE  QueueInv'
<1> USE Processes DEF QueueInv
<1>c. PICK s, i : s = turns[t].key /\ i = turns[t].sub OBVIOUS
<1>1. /\ UNCHANGED <<sess, sub, starts, actor, wake, pending, bindings, loc,
                     inputs, created, failures, inbox, resp, outcome, panicked>>
      /\ ~turns[t].done /\ turns' = [turns EXCEPT ![t].done = TRUE]
      /\ wire' = Append(wire, [kind |-> "completed", key |-> s, turn |-> t])
  BY <1>c DEF ServerCompletesTurn, store, tracker
<1>0. /\ s \in Sessions /\ i \in Subs /\ t \in Nat
      /\ Unsettled(t) /\ TurnOk(t) /\ ~OnWire(t, "completed")
      /\ \A u \in DOMAIN turns : turns[u].key = s /\ Unsettled(u) => u = t
  <2>1. Unsettled(t) BY <1>1 DEF Unsettled
  <2>2. ~OnWire(t, "completed") BY <1>1 DEF OnWire, Notifications, WireOk
  <2> QED BY <1>c, <2>1, <2>2, Entities DEF Turns
<1>r. PICK new : new = [turns[t] EXCEPT !.done = TRUE] OBVIOUS
<1>e. PICK e : e = [kind |-> "completed", key |-> s, turn |-> t] OBVIOUS
<1>2. /\ turns \in Seq([key : Sessions, sub : Subs, done : BOOLEAN])
      /\ turns[t] \in [key : Sessions, sub : Subs, done : BOOLEAN]
  BY Element DEF ServerTypes
<1>3. /\ new \in [key : Sessions, sub : Subs, done : BOOLEAN]
      /\ new.key = s /\ new.sub = i /\ new.done = TRUE
      /\ e \in [kind : {"started", "completed"}, key : Sessions, turn : Nat]
      /\ e.kind = "completed" /\ e.key = s /\ e.turn = t
  BY <1>0, <1>c, <1>2, <1>r, <1>e
<1>4. /\ turns' \in Seq([key : Sessions, sub : Subs, done : BOOLEAN])
      /\ DOMAIN turns' = DOMAIN turns /\ turns'[t] = new
      /\ \A u \in DOMAIN turns : u # t => turns'[u] = turns[u]
  <2>1. turns' = [turns EXCEPT ![t] = new] BY <1>1, <1>r
  <2> QED BY <1>2, <1>3, <2>1, ExceptSeq, LenProperties
<1>5. /\ wire' \in Seq([kind : {"started", "completed"}, key : Sessions,
                        turn : Nat])
      /\ \A u, kind : OnWire(u, kind)' <=>
                        OnWire(u, kind) \/ (t = u /\ "completed" = kind)
      /\ WireOk'
  <2>1. wire' = Append(wire, e) BY <1>1, <1>e
  <2>2. e.turn \in DOMAIN turns' /\ e.key = turns'[e.turn].key BY <1>3, <1>4
  <2>3. /\ turns'[e.turn].done /\ ~OnWire(e.turn, "completed")
        /\ e.kind # "started"
    BY <1>0, <1>3, <1>4
  <2>4. \A u \in DOMAIN turns :
          /\ u \in DOMAIN turns' /\ turns'[u].key = turns[u].key
          /\ turns[u].done => turns'[u].done
          /\ turns'[u].done => turns[u].done \/ (e.turn = u /\ e.kind = "completed")
    BY <1>c, <1>1, <1>3, <1>4
  <2>5. /\ wire' \in Seq([kind : {"started", "completed"}, key : Sessions,
                          turn : Nat])
        /\ \A u, kind : OnWire(u, kind)' <=>
                          OnWire(u, kind) \/ (e.turn = u /\ e.kind = kind)
        /\ WireOk'
    BY <1>3, <2>1, <2>2, <2>3, <2>4, Sent
  <2> QED BY <1>3, <2>5
<1>6. /\ Unsettled(t)' /\ (Unstarted(t)' <=> Unstarted(t))
      /\ \A u \in DOMAIN turns : u # t => (Unsettled(u)' <=> Unsettled(u))
      /\ \A j : Run(j)' <=> Run(j)
  <2>1. Unsettled(t)' BY <1>5 DEF Unsettled
  <2>2. Unstarted(t)' <=> Unstarted(t) BY <1>1, <1>5 DEF Unstarted, At
  <2>3. ASSUME NEW u \in DOMAIN turns, u # t
        PROVE  Unsettled(u)' <=> Unsettled(u)
    BY <1>1, <1>4, <1>5, <2>3 DEF Unsettled
  <2>4. \A j : Run(j)' <=> Run(j) BY <1>c, <1>3, <1>4 DEF Run
  <2> QED BY <2>1, <2>2, <2>3, <2>4
<1>7. Own(s)'
  <2>1. \A u \in DOMAIN turns' : turns'[u].key = s /\ Unsettled(u)' => u = t
    BY <1>0, <1>4, <1>6
  <2>2. sess'[s].ops # NoOp
    <3>1. \E j, u : sess[s].ops = Op(j, u)
      BY <1>c, <1>0 DEF TurnOk, Unbound, BindingNow, Bound
    <3> QED BY <1>1, <3>1, OpSome
  <2>3. SingleOk(s)' BY <1>0, <1>1 DEF Single, SingleOk
  <2>4. Worker(s)' BY <1>0, <1>1 DEF Workers, Worker, At
  <2>5. turns'[t].key = s /\ turns'[t].sub = i /\ t \in DOMAIN turns'
    BY <1>3, <1>4
  <2>6. ResponseOk(s)'
    <3>1. CASE At(s, "rpc")
      <4>1. resp[s] = t BY <1>0, <1>c, <3>1 DEF TurnOk
      <4>2. turns[t].sub = loc[s].sub
        <5>1. ResponseOk(s) /\ ~Asked(s) BY <1>0, <1>c DEF Responses, TurnOk
        <5>2. t # NoTurn /\ t # Failed BY <1>0, Entities DEF NoTurn, Failed
        <5> QED BY <3>1, <4>1, <5>1, <5>2 DEF ResponseOk
      <4>3. Unsettled(resp[s])' BY <1>1, <1>6, <4>1
      <4> QED BY <1>c, <1>1, <2>5, <4>1, <4>2, <4>3 DEF ResponseOk
    <3>2. CASE ~At(s, "rpc") BY <1>1, <3>2 DEF ResponseOk, At
    <3> QED BY <3>1, <3>2
  <2>7. TurnOk(t)'
    <3>1. ~Asked(s)' /\ ~At(s, "mark")' /\ sess'[s].thread
          /\ (At(s, "rpc")' => resp'[s] = t)
      BY <1>0, <1>c, <1>1 DEF TurnOk, Asked, At
    <3>2. Unbound(s, i, t)' \/ BindingNow(s, i, t)' \/ Bound(s, i, t)'
      <4>1. Unbound(s, i, t) \/ BindingNow(s, i, t) \/ Bound(s, i, t)
        BY <1>0, <1>c DEF TurnOk
      <4>2. Unbound(s, i, t) => Unbound(s, i, t)'
        BY <1>1, <1>6 DEF Unbound, At
      <4>3. BindingNow(s, i, t) => BindingNow(s, i, t)'
        BY <1>1 DEF BindingNow, At
      <4>4. Bound(s, i, t) => Bound(s, i, t)' BY <1>1 DEF Bound, At
      <4> QED BY <4>1, <4>2, <4>3, <4>4
    <3> QED BY <2>5, <3>1, <3>2 DEF TurnOk
  <2> QED BY <1>0, <1>6, <2>1, <2>2, <2>3, <2>4, <2>5, <2>6, <2>7, OwnOpen
<1>8. Notifications'
  <2>1. EventsOk'
    <3>1. CASE At(Events, "idle") BY <1>1, <3>1 DEF EventsOk, At
    <3>2. CASE ~At(Events, "idle")
      <4> PICK u : u = loc[Events].turn OBVIOUS
      <4>1. u \in DOMAIN turns /\ EventsOk BY <3>2 DEF Notifications, EventsOk
      <4>2. /\ u \in DOMAIN turns' /\ turns'[u].key = turns[u].key
            /\ turns'[u].sub = turns[u].sub
            /\ OnWire(u, "started")' <=> OnWire(u, "started")
            /\ turns[u].done => /\ turns'[u].done
                                /\ OnWire(u, "completed")' <=> OnWire(u, "completed")
            /\ Ending(u) => Ending(u)'
        BY <1>c, <1>1, <1>3, <1>4, <1>5, <4>1 DEF Ending
      <4> QED BY <1>1, <3>2, <4>1, <4>2 DEF EventsOk, At
    <3> QED BY <3>1, <3>2
  <2> QED BY <1>5, <2>1 DEF Notifications
<1>9. StartedOnce'
  <2>1. \A u \in DOMAIN turns : turns'[u].sub = turns[u].sub BY <1>c, <1>3, <1>4
  <2> QED BY <1>4, <2>1 DEF Turns, StartedOnce
<1>10. \A d \in inbox' : ~Run(d.sub)' BY <1>1, <1>6 DEF Requests
<1>11. \A j : Run(j)' => Run(j) \/ \E d \in inbox : d.sub = j /\ d.key = s
  BY <1>6
<1>12. /\ failures' \in 0 .. MaxFailures
       /\ inbox' \subseteq inbox /\ \A d \in inbox : d.key # s => d \in inbox'
       /\ \A u \in DOMAIN turns' : turns'[u].key # s => u \in DOMAIN turns
       /\ resp' \in [Procs -> Int] /\ \A r \in Sessions \ {s} : resp'[r] = resp[r]
       /\ \A p \in Procs : resp'[p] # NoTurn => p \in Sessions /\ At(p, "rpc")
  BY <1>1, <1>4 DEF SubTypes, ProcTypes, Responses
<1>13. \A u \in DOMAIN turns :
         /\ u \in DOMAIN turns' /\ turns'[u].key = turns[u].key
         /\ turns'[u].sub = turns[u].sub
         /\ turns[u].key # s =>
              /\ turns'[u] = turns[u]
              /\ OnWire(u, "started")' <=> OnWire(u, "started")
              /\ OnWire(u, "completed")' <=> OnWire(u, "completed")
  BY <1>c, <1>3, <1>4, <1>5
<1>14. UNCHANGED <<sess, sub, starts, actor, wake, pending, bindings, loc,
                   inputs, created, outcome, panicked>>
  BY <1>1
<1> QED
  BY <1>0, <1>4, <1>5, <1>7, <1>8, <1>9, <1>10, <1>11, <1>12, <1>13, <1>14,
     ServerStep

-----------------------------------------------------------------------------
(* The theorems.                                                           *)

\* A step of the process of a session is one of the enqueue or of the start.
LEMMA WorkerSteps ==
  ASSUME QueueInv, Separate, NEW s \in Sessions, Step(s)
  PROVE  QueueInv'
<1>1. /\ ~At(s, "bind") /\ ~At(s, "bindThenFinish") /\ ~At(s, "find")
      /\ ~At(s, "finalize") /\ ~At(s, "next")
  BY DEF QueueInv, Locks, WorkerPcs, StartPcs, At
<1>2. /\ ~BindTurn(s) /\ ~FinishFind(s) /\ ~FinishFinalize(s) /\ ~FinishNext(s)
  BY Zenon, <1>1 DEF BindTurn, FinishFind, FinishFinalize, FinishNext
<1>3. ~EnqueueReconcile(s) BY Zenon DEF EnqueueReconcile, Separate
<1>4. \/ EnqueueLoad(s) \/ EnqueueSave(s) \/ EnqueueQueue(s)
      \/ StartBegin(s) \/ StartCheck(s) \/ StartDequeue(s) \/ StartThread(s)
      \/ ThreadStartFails(s) \/ StartMark(s) \/ TurnStartFails(s)
      \/ TurnStartTimesOut(s) \/ StartBind(s) \/ StartActivate(s) \/ StartEnd(s)
  BY <1>2, <1>3 DEF Step
<1> QED
  BY <1>4, LoadStep, SaveStep, QueueStep, BeginStep, CheckStep, DequeueStep,
     ThreadStep, FailureSteps, MarkStep, TimeoutStep, ResponseStep,
     ActivateStep, EndStep

\* A step of Events is one of the handling of a notification.
LEMMA EventSteps ==
  ASSUME QueueInv, Separate, Step(Events)
  PROVE  QueueInv'
<1>1. loc[Events].pc \in EventPcs BY DEF QueueInv, Locks
<1>2. /\ ~At(Events, "load") /\ ~At(Events, "save") /\ ~At(Events, "queue")
      /\ ~At(Events, "begin") /\ ~At(Events, "check") /\ ~At(Events, "dequeue")
      /\ ~At(Events, "thread") /\ ~At(Events, "mark") /\ ~At(Events, "rpc")
      /\ ~At(Events, "activate") /\ ~At(Events, "end")
  BY <1>1 DEF EventPcs, At
<1>3. ~EnqueueLoad(Events) /\ ~EnqueueReconcile(Events) /\ ~EnqueueSave(Events)
      /\ ~EnqueueQueue(Events)
  BY Zenon, <1>2
     DEF EnqueueLoad, EnqueueReconcile, EnqueueSave, EnqueueQueue
<1>4. ~StartBegin(Events) /\ ~StartCheck(Events) /\ ~StartDequeue(Events)
      /\ ~StartThread(Events) /\ ~ThreadStartFails(Events) /\ ~StartMark(Events)
  BY Zenon, <1>2
     DEF StartBegin, StartCheck, StartDequeue, StartThread, ThreadStartFails,
         StartMark
<1>5. ~TurnStartFails(Events) /\ ~TurnStartTimesOut(Events) /\ ~StartBind(Events)
      /\ ~StartActivate(Events) /\ ~StartEnd(Events)
  BY Zenon, <1>2
     DEF TurnStartFails, TurnStartTimesOut, StartBind, StartActivate, StartEnd
<1>6. BindTurn(Events) \/ FinishFind(Events) \/ FinishFinalize(Events)
      \/ FinishNext(Events)
  BY <1>3, <1>4, <1>5 DEF Step
<1> QED BY <1>6, BindStep, FindStep, FinalizeStep, NextStep

\* An ordinary chat message is the only work of Chat.
LEMMA ChatIdle ==
  ASSUME QueueInv
  PROVE  ~Step(Chat)
<1>1. /\ ~At(Chat, "load") /\ ~At(Chat, "save") /\ ~At(Chat, "queue")
      /\ ~At(Chat, "begin") /\ ~At(Chat, "check") /\ ~At(Chat, "dequeue")
      /\ ~At(Chat, "thread") /\ ~At(Chat, "mark") /\ ~At(Chat, "rpc")
      /\ ~At(Chat, "activate") /\ ~At(Chat, "end") /\ ~At(Chat, "bind")
      /\ ~At(Chat, "bindThenFinish") /\ ~At(Chat, "find")
      /\ ~At(Chat, "finalize") /\ ~At(Chat, "next")
  BY DEF QueueInv, Locks, At
<1>2. ~EnqueueLoad(Chat) /\ ~EnqueueReconcile(Chat) /\ ~EnqueueSave(Chat)
      /\ ~EnqueueQueue(Chat)
  BY Zenon, <1>1
     DEF EnqueueLoad, EnqueueReconcile, EnqueueSave, EnqueueQueue
<1>3. ~StartBegin(Chat) /\ ~StartCheck(Chat) /\ ~StartDequeue(Chat)
      /\ ~StartThread(Chat) /\ ~ThreadStartFails(Chat) /\ ~StartMark(Chat)
  BY Zenon, <1>1
     DEF StartBegin, StartCheck, StartDequeue, StartThread, ThreadStartFails,
         StartMark
<1>4. ~TurnStartFails(Chat) /\ ~TurnStartTimesOut(Chat) /\ ~StartBind(Chat)
      /\ ~StartActivate(Chat) /\ ~StartEnd(Chat)
  BY Zenon, <1>1
     DEF TurnStartFails, TurnStartTimesOut, StartBind, StartActivate, StartEnd
<1>5. ~BindTurn(Chat) /\ ~FinishFind(Chat) /\ ~FinishFinalize(Chat)
      /\ ~FinishNext(Chat)
  BY Zenon, <1>1 DEF BindTurn, FinishFind, FinishFinalize, FinishNext
<1> QED BY <1>2, <1>3, <1>4, <1>5 DEF Step

\* Every step keeps the invariant.
LEMMA NextInv ==
  ASSUME QueueInv, Separate, Next
  PROVE  QueueInv'
<1>1. ASSUME NEW s \in Sessions, ReceiveMessage(s) PROVE QueueInv'
  BY Zenon, <1>1 DEF ReceiveMessage, Separate
<1>2. ASSUME NEW s \in Sessions,
             ReceiveSessionInput(s) \/ StartNextSubmissionAsync(s)
      PROVE  QueueInv'
  BY <1>2, ReceiveStep, WakeStep
<1>3. ASSUME NEW p \in Procs, Step(p) PROVE QueueInv'
  BY <1>3, Processes, WorkerSteps, EventSteps, ChatIdle
<1>4. ASSUME DispatchEvent \/ TurnStarted PROVE QueueInv'
  BY <1>4, DispatchStep, StartedStep
<1>5. ASSUME NEW c \in inbox, ServerStartsTurn(c) \/ ServerRejects(c)
      PROVE  QueueInv'
  BY <1>5, ServerStartsStep, ServerRejectsStep
<1>6. ASSUME NEW t \in DOMAIN turns, ServerCompletesTurn(t) PROVE QueueInv'
  BY <1>6, ServerCompletesStep
<1> QED BY <1>1, <1>2, <1>3, <1>4, <1>5, <1>6 DEF Next

\* A step that changes nothing keeps the invariant.
LEMMA StutterInv ==
  ASSUME QueueInv, UNCHANGED vars
  PROVE  QueueInv'
<1>1. /\ SessionTypes' /\ SubTypes' /\ ProcTypes' /\ ServerTypes'
      /\ Locks' /\ Counted' /\ Guarded' /\ Workers' /\ Single'
  <2> USE DEF QueueInv, vars
  <2>1. SessionTypes' /\ SubTypes' /\ ProcTypes' /\ ServerTypes'
    BY DEF SessionTypes, SubTypes, ProcTypes, ServerTypes
  <2>2. Locks' /\ Counted' /\ Guarded'
    BY DEF Locks, Counted, Enqueuing, Guarded, At
  <2>3. Workers' BY DEF Workers, Worker, At
  <2>4. Single' BY DEF Single, SingleOk
  <2> QED BY <2>1, <2>2, <2>3, <2>4
<1>2. /\ Places /\ Accounted /\ Turns /\ Requests /\ Responses /\ Backed
      /\ Notifications /\ OwnTurn /\ Woken /\ ~panicked
  BY DEF QueueInv
<1>3. /\ sess' = sess /\ sub' = sub /\ loc' = loc /\ resp' = resp
      /\ pending' = pending /\ bindings' = bindings /\ wire' = wire
      /\ turns' = turns /\ inbox' = inbox /\ created' = created
      /\ outcome' = outcome /\ wake' = wake /\ panicked' = panicked
  BY DEF vars
<1>4. ASSUME Places PROVE Places'
  BY <1>3, <1>4 DEF Places, Queued, Held, Alive, Exists, Requested, Run, At
<1>5. ASSUME Accounted PROVE Accounted'
  BY <1>3, <1>5 DEF Accounted, Queued, Held, At
<1>6. ASSUME Turns PROVE Turns'
  BY <1>3, <1>6 DEF Turns, StartedOnce, TurnOk, Unbound, BindingNow, Bound,
     Asked, Unsettled, Unstarted, OnWire, At
<1>7. ASSUME Requests PROVE Requests'
  BY <1>3, <1>7 DEF Requests, RequestOk, Run, At
<1>8. ASSUME Responses PROVE Responses'
  BY <1>3, <1>8 DEF Responses, ResponseOk, Asked, OpenTurn, Unsettled, OnWire,
     Run, At
<1>9. ASSUME Backed PROVE Backed'
  BY <1>3, <1>9 DEF Backed, BackedOk, Asked, OpenTurn, Unsettled, OnWire, At
<1>10. ASSUME Notifications PROVE Notifications'
  BY <1>3, <1>10 DEF Notifications, WireOk, EventsOk, Ending, OnWire, At
<1>11. ASSUME OwnTurn, Woken PROVE OwnTurn' /\ Woken'
  BY <1>3, <1>11 DEF OwnTurn, Woken, WokenOk, At
<1> QED
  BY <1>1, <1>2, <1>3, <1>4, <1>5, <1>6, <1>7, <1>8, <1>9, <1>10, <1>11
     DEF QueueInv

\* The initial state satisfies the invariant.
LEMMA InitInv == Init => QueueInv
<1> SUFFICES ASSUME Init PROVE QueueInv OBVIOUS
<1> USE QueueAssumption, Processes DEF Init, QueueAssumption
<1>0. EmptySession \in Records /\ EmptySession.queue = <<>>
      /\ EmptySession.ops = NoOp /\ ~EmptySession.thread
  BY DEF EmptySession, Records, NoOp
<1>1. /\ \A p \in Procs : loc[p] = Idle
      /\ \A s \in Sessions : loc[s] = Idle
      /\ Idle.pc = "idle" /\ Idle \in Locals
  BY <1>0 DEF Idle, Locals, Pcs, WorkerPcs, EventPcs, NoSub, NoTurn
<1>2. SessionTypes /\ SubTypes /\ ProcTypes
  BY <1>0, <1>1 DEF SessionTypes, SubTypes, ProcTypes, NoTurn
<1>3. ServerTypes /\ OwnTurn BY DEF ServerTypes, OwnTurn
<1>4. Locks /\ Guarded
  BY <1>1 DEF Locks, Guarded, At, WorkerPcs, EventPcs, StartPcs
<1>5. Counted
  <2>1. Enqueuing = {} BY <1>1 DEF Enqueuing
  <2> QED BY <2>1, FS_EmptySet DEF Counted
<1>6. Workers BY <1>1 DEF Workers, Worker, At
<1>7. Single BY <1>0 DEF Single, SingleOk
<1>8. Places /\ Accounted
  <2>1. \A s \in Sessions : \A i : ~Queued(i, s) /\ ~Held(i, s)
    BY <1>0, <1>1 DEF Queued, Held, At, NoOp
  <2>2. \A i : ~Run(i) /\ ~Requested(i) BY DEF Run, Requested
  <2>3. \A s \in Sessions : DOMAIN sess[s].queue = {} BY <1>0
  <2>4. \A i \in Subs : ~sub[i].finalized /\ outcome[i] = NoTurn OBVIOUS
  <2>5. Places BY <1>1, <2>1, <2>2, <2>3, <2>4 DEF Places
  <2>6. Accounted BY DEF Accounted
  <2> QED BY <2>5, <2>6
<1>9. Turns /\ Requests BY DEF Turns, StartedOnce, Requests
<1>10. Responses BY <1>1 DEF Responses, ResponseOk, At, NoTurn
<1>11. Backed /\ Woken BY <1>0 DEF Backed, BackedOk, Woken, WokenOk
<1>12. Notifications BY <1>1 DEF Notifications, WireOk, EventsOk, At
<1> QED
  BY <1>2, <1>3, <1>4, <1>5, <1>6, <1>7, <1>8, <1>9, <1>10, <1>11, <1>12
     DEF QueueInv

\* The invariant holds in every state.
LEMMA QueueInvariant ==
  ASSUME Separate
  PROVE  Spec => []QueueInv
<1>1. ASSUME QueueInv, [Next]_vars PROVE QueueInv'
  BY <1>1, NextInv, StutterInv
<1> QED BY <1>1, InitInv, PTL DEF Spec

\* An operation that is asked for or whose turn is open is not left alone.
LEMMA QuietOps ==
  ASSUME QueueInv, Quiescent, NEW s \in Sessions
  PROVE  sess[s].ops = NoOp
<1>1. s \in Procs /\ Events \in Procs BY Processes
<1>2. ~At(s, "mark") /\ ~At(s, "rpc") /\ At(Events, "idle")
  BY <1>1 DEF Quiescent, At
<1>3. ~Asked(s) BY DEF Quiescent, Asked
<1>4. ASSUME NEW t \in DOMAIN turns PROVE ~Unsettled(t)
  <2>1. turns[t].done /\ wire = <<>> BY DEF Quiescent
  <2>2. ~OnWire(t, "started") /\ ~OnWire(t, "completed")
    BY <2>1 DEF OnWire
  <2> QED BY <1>2, <2>1, <2>2 DEF Unsettled, At
<1>5. ~OpenTurn(s) BY <1>4 DEF OpenTurn
<1> QED BY <1>2, <1>3, <1>5 DEF QueueInv, Backed, BackedOk

\* When nothing is under way the queues are empty and every input is settled.
LEMMA QuietQueues ==
  ASSUME QueueInv, Quiescent
  PROVE  /\ \A s \in Sessions : sess[s].queue = <<>> /\ sess[s].ops = <<>>
         /\ \A i \in 1 .. created : outcome[i] # NoTurn
<1>1. \A s \in Sessions : sess[s].ops = NoOp BY QuietOps
<1>2. \A p \in Procs : loc[p].pc = "idle" BY DEF Quiescent, At
<1>3. \A s \in Sessions : s \in Procs /\ wake[s] = 0
  BY Processes DEF Quiescent
<1>4. \A s \in Sessions : sess[s].queue = <<>>
  BY <1>1, <1>2, <1>3, Processes DEF QueueInv, Woken, WokenOk, At
<1>5. \A s \in Sessions : \A i : ~Queued(i, s) /\ ~Held(i, s)
  BY <1>1, <1>2, <1>3, <1>4 DEF Queued, Held, NoOp, At
<1> QED BY <1>1, <1>4, <1>5 DEF QueueInv, Accounted, NoOp

\* No submission is sent to the App Server twice, however starts, failures,
\* timeouts and notifications interleave: the session's lock, the gate and the
\* save of the dequeued entry before turn/start are enough
\* (dequeueNextSubmission, SendSubmission).
THEOREM QueueStartedOnce ==
  ASSUME Separate
  PROVE  Spec => []StartedOnce
<1>1. QueueInv => StartedOnce BY DEF QueueInv, Turns
<1> QED BY <1>1, QueueInvariant, PTL

\* The App Server never runs two turns of a session at once: an active operation
\* stands for every turn whose end has not been handled, and no start passes it
\* (HasInFlightSubmission).
THEOREM QueueOneTurn ==
  ASSUME Separate
  PROVE  Spec => []OneTurnAtATime
<1>1. ASSUME QueueInv PROVE OneTurnAtATime
  <2> SUFFICES ASSUME NEW t \in DOMAIN turns, NEW u \in DOMAIN turns,
                      t # u, ~turns[t].done, ~turns[u].done
               PROVE  turns[u].key \notin Lane(turns[t].key)
    BY DEF OneTurnAtATime
  <2>1. Unsettled(t) /\ Unsettled(u) BY DEF Unsettled
  <2>2. turns[u].key # turns[t].key BY <1>1, <2>1 DEF QueueInv, Turns
  <2> QED BY <2>2 DEF Lane, Separate
<1> QED BY <1>1, QueueInvariant, PTL

\* No input is left behind: once every goroutine has returned and no event or
\* posted start remains, the queues are empty, no operation keeps a session busy
\* and each submission has an outcome (StartNextSubmissionAsync, FinishTurn).
THEOREM QueueNothingStranded ==
  ASSUME Separate
  PROVE  Spec => []NothingStranded
<1>1. QueueInv => NothingStranded BY QuietQueues DEF NothingStranded
<1> QED BY <1>1, QueueInvariant, PTL

-----------------------------------------------------------------------------
(* Outcomes.                                                               *)

\* A submission that a turn finished is the one the turn was started for, and
\* the App Server has completed that turn.
OutcomeInv ==
  \A i \in Subs : outcome[i] > 0 =>
    /\ outcome[i] \in DOMAIN turns
    /\ turns[outcome[i]].sub = i /\ turns[outcome[i]].done

\* Turns are only added and completed.
LEMMA TurnsGrow ==
  ASSUME QueueInv, Next, NEW t \in DOMAIN turns
  PROVE  /\ t \in DOMAIN turns' /\ turns'[t].sub = turns[t].sub
         /\ turns[t].done => turns'[t].done
<1>0. turns \in Seq([key : Sessions, sub : Subs, done : BOOLEAN])
  BY DEF QueueInv, ServerTypes
<1>1. CASE turns' = turns BY <1>1
<1>2. CASE \E c \in inbox : ServerStartsTurn(c)
  <2>1. PICK c \in inbox :
          turns' = Append(turns, [key |-> c.key, sub |-> c.sub, done |-> FALSE])
    BY <1>2 DEF ServerStartsTurn
  <2>2. [key |-> c.key, sub |-> c.sub, done |-> FALSE]
          \in [key : Sessions, sub : Subs, done : BOOLEAN]
    BY Entities DEF QueueInv
  <2> QED BY <1>0, <2>1, <2>2
<1>3. CASE \E u \in DOMAIN turns : ServerCompletesTurn(u)
  <2>1. PICK u \in DOMAIN turns : turns' = [turns EXCEPT ![u].done = TRUE]
    BY <1>3 DEF ServerCompletesTurn
  <2> QED BY <1>0, <2>1
<1>4. ASSUME NEW p \in Procs, Step(p) PROVE turns' = turns
  <2>1. ASSUME EnqueueLoad(p) \/ EnqueueReconcile(p) \/ EnqueueSave(p) \/ EnqueueQueue(p)
        PROVE  turns' = turns
    BY Zenon, <2>1 DEF EnqueueLoad, EnqueueReconcile, EnqueueSave, EnqueueQueue, server
  <2>2. ASSUME StartBegin(p) \/ StartCheck(p) \/ StartDequeue(p) \/ StartThread(p)
                 \/ ThreadStartFails(p)
        PROVE  turns' = turns
    BY Zenon, <2>2 DEF StartBegin, StartCheck, StartDequeue, StartThread,
       ThreadStartFails, server
  <2>3. ASSUME StartMark(p) \/ TurnStartFails(p) \/ TurnStartTimesOut(p)
        PROVE  turns' = turns
    BY Zenon, <2>3 DEF StartMark, TurnStartFails, TurnStartTimesOut, server
  <2>4. ASSUME StartBind(p) \/ StartActivate(p) \/ StartEnd(p) \/ BindTurn(p)
        PROVE  turns' = turns
    BY Zenon, <2>4 DEF StartBind, StartActivate, StartEnd, BindTurn, server
  <2>5. ASSUME FinishFind(p) \/ FinishFinalize(p) \/ FinishNext(p)
        PROVE  turns' = turns
    BY Zenon, <2>5 DEF FinishFind, FinishFinalize, FinishNext, server
  <2> QED BY Zenon, <1>4, <2>1, <2>2, <2>3, <2>4, <2>5 DEF Step
<1>5. ASSUME NEW s \in Sessions,
             ReceiveMessage(s) \/ ReceiveSessionInput(s) \/ StartNextSubmissionAsync(s)
      PROVE  turns' = turns
  BY Zenon, <1>5 DEF ReceiveMessage, ReceiveSessionInput, StartNextSubmissionAsync, server
<1>6. ASSUME DispatchEvent \/ TurnStarted PROVE turns' = turns
  BY Zenon, <1>6 DEF DispatchEvent, TurnStarted, server
<1>7. ASSUME NEW c \in inbox, ServerRejects(c) PROVE turns' = turns
  BY Zenon, <1>7 DEF ServerRejects
<1> QED BY Zenon, <1>1, <1>2, <1>3, <1>4, <1>5, <1>6, <1>7 DEF Next

\* A submission gets its outcome from a failed start or from FinishTurn.
LEMMA OutcomeChange ==
  ASSUME Next
  PROVE  \/ outcome' = outcome
         \/ \E i : outcome' = [outcome EXCEPT ![i] = Failed]
         \/ \E p \in Procs : FinishFinalize(p)
<1>1. ASSUME NEW p, ThreadStartFails(p) \/ TurnStartFails(p)
      PROVE  \/ outcome' = outcome
             \/ \E i : outcome' = [outcome EXCEPT ![i] = Failed]
  <2>1. HandleSubmissionStartFailure(p)
    BY <1>1 DEF ThreadStartFails, TurnStartFails
  <2>2. outcome' = IF Exists(loc[p].sub) THEN [outcome EXCEPT ![loc[p].sub] = Failed]
                   ELSE outcome
    BY Zenon, <2>1 DEF HandleSubmissionStartFailure
  <2> QED BY <2>2 DEF Exists
<1>2. ASSUME NEW p \in Procs, Step(p)
      PROVE  \/ outcome' = outcome
             \/ \E i : outcome' = [outcome EXCEPT ![i] = Failed]
             \/ FinishFinalize(p)
  BY Zenon, <1>1, <1>2 DEF Step, EnqueueLoad, EnqueueReconcile, EnqueueSave,
     EnqueueQueue, StartBegin, StartCheck, StartDequeue, StartThread, StartMark,
     TurnStartTimesOut, StartBind, StartActivate, StartEnd, BindTurn, FinishFind,
     FinishNext
<1> QED
  BY Zenon, <1>2 DEF Next, ReceiveMessage, ReceiveSessionInput,
     StartNextSubmissionAsync, DispatchEvent, TurnStarted, ServerStartsTurn,
     ServerRejects, ServerCompletesTurn

\* FinishTurn gives the outcome to the submission of its turn only.
LEMMA OutcomeStep ==
  ASSUME QueueInv, Separate, OutcomeInv, Next
  PROVE  OutcomeInv'
<1>1. outcome \in [Subs -> Int] BY DEF QueueInv, SubTypes
<1>2. CASE outcome' = outcome
  BY <1>2, TurnsGrow DEF OutcomeInv
<1>3. CASE \E i : outcome' = [outcome EXCEPT ![i] = Failed]
  BY <1>1, <1>3, TurnsGrow DEF OutcomeInv, Failed
<1>4. CASE \E p \in Procs : FinishFinalize(p)
  <2>1. PICK p \in Procs : FinishFinalize(p) BY <1>4
  <2>2. loc[p].pc = "finalize" BY Zenon, <2>1 DEF FinishFinalize, At
  <2>3. p = Events
    BY <2>2, Processes DEF QueueInv, Locks, WorkerPcs, StartPcs, At
  <2> DEFINE s == loc[Events].key
             t == loc[Events].turn
             i == turns[t].sub
  <2>4. /\ s \in Sessions /\ i \in Subs /\ t \in DOMAIN turns /\ turns[t].done
        /\ sess[s].ops = Op(i, t) /\ Alive(i) /\ loc[Events].sub = i
    <3>1. /\ s \in Sessions /\ i \in Subs /\ t \in DOMAIN turns /\ Alive(i)
      BY <2>2, <2>3, EventsTurn
    <3>2. sess[s].ops = Op(i, t) /\ turns[t].done
      BY <2>2, <2>3, EventsBound
    <3>3. loc[Events].sub = i
      BY <2>2, <2>3 DEF QueueInv, Notifications, EventsOk, At
    <3> QED BY <3>1, <3>2, <3>3
  <2>5. Exists(i) /\ sess \in [Sessions -> Records]
    BY <2>4 DEF Alive, QueueInv, SessionTypes
  <2>6. /\ outcome' = [j \in Subs |-> IF j = i THEN t ELSE outcome[j]]
        /\ turns' = turns
    BY <2>1, <2>3, <2>4, <2>5, Finalized
  <2> HIDE DEF i
  <2>7. ASSUME NEW j \in Subs, outcome'[j] > 0
        PROVE  /\ outcome'[j] \in DOMAIN turns'
               /\ turns'[outcome'[j]].sub = j /\ turns'[outcome'[j]].done
    <3>1. CASE j = i BY <2>4, <2>6, <3>1 DEF i
    <3>2. CASE j # i BY <2>6, <2>7, <3>2 DEF OutcomeInv
    <3> QED BY <3>1, <3>2
  <2> QED BY <2>7 DEF OutcomeInv
<1> QED BY <1>2, <1>3, <1>4, OutcomeChange

LEMMA OutcomeInvariant ==
  ASSUME Separate
  PROVE  Spec => []OutcomeInv
<1>1. Init => OutcomeInv BY DEF Init, OutcomeInv, NoTurn
<1>2. ASSUME QueueInv, OutcomeInv, [Next]_vars PROVE OutcomeInv'
  <2>1. CASE Next BY <1>2, <2>1, OutcomeStep
  <2>2. CASE UNCHANGED vars BY <1>2, <2>2 DEF vars, OutcomeInv
  <2> QED BY <1>2, <2>1, <2>2
<1> QED BY <1>1, <1>2, QueueInvariant, PTL DEF Spec

\* FinishTurn finishes a submission by the turn that was started for it
\* (CanBindCompletion, RemoveActiveOperation).
THEOREM QueueOwnCompletion ==
  ASSUME Separate
  PROVE  Spec => []OwnCompletion
<1>1. OutcomeInv => OwnCompletion BY DEF OutcomeInv, OwnCompletion
<1> QED BY <1>1, OutcomeInvariant, PTL

\* No submission is finished before the App Server has completed its turn.
THEOREM QueueNoEarlyFinish ==
  ASSUME Separate
  PROVE  Spec => []NoEarlyFinish
<1>1. OutcomeInv => NoEarlyFinish BY DEF OutcomeInv, NoEarlyFinish
<1> QED BY <1>1, OutcomeInvariant, PTL
=============================================================================

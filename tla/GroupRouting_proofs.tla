-------------------------- MODULE GroupRouting_proofs --------------------------
(***************************************************************************)
(* The newest assignment a bot took decides whether it is the primary of   *)
(* the group: for any number of bots and messages, any order, number and   *)
(* loss of their copies, and any failures beside them.  Then workspaces:    *)
(* their deletion, and the worker that creates one.                        *)
(***************************************************************************)
EXTENDS GroupRouting, WorkspaceLifecycle, WorkspaceCreation, TLAPS

\* Messages are created in the order they are numbered, and their events say when.
Ordered ==
  /\ CreatedAt \in [M -> Nat \ {0}]
  /\ \A m, n \in M : m < n => CreatedAt[m] < CreatedAt[n]

(* The inductive invariant.                                                *)

Records == [exists : BOOLEAN, enabled : BOOLEAN, msg : Nat, at : Nat]
Steps == {"idle", "sync", "off", "drop", "route", "command", "on"}

Types ==
  /\ queue \in [Bots -> Seq(M)]
  /\ primary \in [Bots -> Records]
  /\ init \in [Bots -> [Callers -> {"none", "read", "count", "on", "off"}]]
  /\ run \in [Bots -> [Tasks -> [pc : Steps, m : M \cup {0}, cur : Records]]]
  /\ applied \in [Bots -> SUBSET M]

\* The record r is what the assignments in S leave: the newest one decides; a
\* record without any is that of the automatic initialisation.
Holds(r, S, b) ==
  /\ S = {} => r.msg = 0 /\ r.at = 0
  /\ S # {} => /\ r.exists /\ r.msg \in S /\ r.at = CreatedAt[r.msg]
               /\ \A n \in S : n <= r.msg
               /\ r.enabled = (Messages[r.msg].to = b)

\* A task works on a message; only the router takes assignments, with the record
\* of all it has taken before, which nobody else replaces.
Task(b, t) ==
  /\ run[b][t].pc # "idle" => run[b][t].m \in M
  /\ run[b][t].pc \in {"off", "command", "on"} =>
       /\ t = "router" /\ Assigns(run[b][t].m)
       /\ (Messages[run[b][t].m].to = b) = (run[b][t].pc # "off")
  /\ run[b][t].pc = "route" /\ Assigns(run[b][t].m) =>
       Messages[run[b][t].m].to = b
  /\ run[b][t].pc \in {"off", "on"} => Holds(run[b][t].cur, applied[b], b)
  /\ t = "forward" /\ run[b][t].pc # "idle" =>
       Messages[run[b][t].m].kind = "forward"

RoutingInv ==
  /\ Types
  /\ \A b \in Bots : Holds(primary[b], applied[b], b)
  /\ \A b \in Bots, t \in Tasks : Task(b, t)
-----------------------------------------------------------------------------
(* Records.                                                                *)

\* Messages are numbered.
LEMMA Numbered == M \subseteq Nat \ {0}
BY MessagesAssumption DEF M, MessagesAssumption

\* An assignment applied to a record that holds the earlier ones leaves a record
\* that holds them all, also when the stored record was initialised meanwhile.
LEMMA Applied ==
  ASSUME Ordered, NEW b \in Bots, NEW m \in M, NEW on \in BOOLEAN,
         NEW S \in SUBSET M, NEW cur \in Records, NEW r \in Records,
         Holds(cur, S, b), Holds(r, S, b), on = (Messages[m].to = b)
  PROVE  Holds(IF StaleAssignment(cur, m) THEN r ELSE WithPrimary(cur, on, m),
               S \cup {m}, b)
<1>1. M \subseteq Nat \ {0} BY Numbered
<1>2. CreatedAt[m] \in Nat \ {0} /\ CreatedAt[m] # 0 BY DEF Ordered
<1>3. CASE StaleAssignment(cur, m)
  <2>1. S # {} /\ cur.msg \in S /\ cur.at = CreatedAt[cur.msg]
    BY <1>1, <1>3 DEF StaleAssignment, Holds
  <2>2. cur.msg \in M /\ cur.msg \in Nat /\ CreatedAt[cur.msg] \in Nat BY <1>1, <2>1 DEF Ordered
  <2>3. m <= cur.msg
    <3>1. cur.msg = m \/ CreatedAt[m] < CreatedAt[cur.msg] BY <1>3, <2>1 DEF StaleAssignment
    <3>2. cur.msg < m => CreatedAt[cur.msg] < CreatedAt[m] BY <2>2 DEF Ordered
    <3> QED BY <1>1, <1>2, <2>2, <3>1, <3>2
  <2>4. r.msg \in S /\ \A n \in S : n <= r.msg BY <2>1 DEF Holds
  <2>5. m <= r.msg
    <3>1. cur.msg <= r.msg BY <2>1, <2>4
    <3>2. r.msg \in Nat BY DEF Records
    <3> QED BY <1>1, <2>2, <2>3, <3>1, <3>2
  <2> QED BY <1>3, <2>1, <2>4, <2>5 DEF Holds
<1>4. CASE ~StaleAssignment(cur, m)
  <2> DEFINE w == WithPrimary(cur, on, m)
  <2>1. w.exists /\ w.enabled = on /\ w.msg = m /\ w.at = CreatedAt[m]
    BY <1>4 DEF WithPrimary
  <2>2. ASSUME NEW n \in S PROVE n <= m
    <3>1. cur.msg \in S /\ cur.at = CreatedAt[cur.msg] /\ n <= cur.msg BY <2>2 DEF Holds
    <3>2. cur.msg \in M /\ n \in Nat /\ cur.msg \in Nat /\ m \in Nat
      BY <1>1, <2>2, <3>1
    <3>3. CreatedAt[cur.msg] # 0 /\ CreatedAt[cur.msg] \in Nat BY <3>2 DEF Ordered
    <3>4. ~(CreatedAt[m] < CreatedAt[cur.msg]) BY <1>2, <1>4, <3>1, <3>3 DEF StaleAssignment
    <3>5. m < cur.msg => CreatedAt[m] < CreatedAt[cur.msg] BY <3>2 DEF Ordered
    <3> QED BY <3>1, <3>2, <3>4, <3>5
  <2>3. m <= m BY <1>1
  <2> QED BY <1>4, <2>1, <2>2, <2>3 DEF Holds
<1> QED BY <1>3, <1>4
-----------------------------------------------------------------------------
(* Tasks.                                                                  *)

Locals == [pc : Steps, m : M \cup {0}, cur : Records]

\* What one task's locals may be.
TaskOk(b, t, x) ==
  /\ x.pc # "idle" => x.m \in M
  /\ x.pc \in {"off", "command", "on"} =>
       /\ t = "router" /\ Assigns(x.m)
       /\ (Messages[x.m].to = b) = (x.pc # "off")
  /\ x.pc = "route" /\ Assigns(x.m) => Messages[x.m].to = b
  /\ x.pc \in {"off", "on"} => Holds(x.cur, applied[b], b)
  /\ t = "forward" /\ x.pc # "idle" => Messages[x.m].kind = "forward"

\* A step of a task that leaves the records alone.
LEMMA TaskMoves ==
  ASSUME RoutingInv, NEW b \in Bots, NEW t \in Tasks, NEW x \in Locals,
         TaskOk(b, t, x), run' = [run EXCEPT ![b][t] = x],
         UNCHANGED <<primary, applied>>,
         queue' \in [Bots -> Seq(M)],
         init' \in [Bots -> [Callers -> {"none", "read", "count", "on", "off"}]]
  PROVE  RoutingInv'
<1>1. run \in [Bots -> [Tasks -> Locals]] BY DEF RoutingInv, Types, Locals
<1>2. run' \in [Bots -> [Tasks -> Locals]] BY <1>1
<1>3. run'[b][t] = x BY <1>1
<1>4. \A c \in Bots, u \in Tasks : c # b \/ u # t => run'[c][u] = run[c][u]
  BY <1>1
<1>5. Types' BY <1>2 DEF RoutingInv, Types, Locals
<1>6. \A c \in Bots : Holds(primary'[c], applied'[c], c)
  BY DEF RoutingInv
<1>7. ASSUME NEW c \in Bots, NEW u \in Tasks PROVE Task(c, u)'
  <2>1. CASE c = b /\ u = t
    <3> USE <1>3, <2>1 DEF TaskOk, Task
    <3> QED BY <1>3, <2>1
  <2>2. CASE c # b \/ u # t
    <3>1. run'[c][u] = run[c][u] BY <1>4, <2>2
    <3>2. Task(c, u) BY DEF RoutingInv
    <3> QED BY <3>1, <3>2 DEF Task
  <2> QED BY <2>1, <2>2
<1> QED BY <1>5, <1>6, <1>7 DEF RoutingInv, Holds

\* A bot takes an assignment: the record read before, which holds those taken by
\* then, is saved with it or kept for a newer one.
LEMMA AssignmentTaken ==
  ASSUME RoutingInv, Ordered, NEW b \in Bots, NEW on \in BOOLEAN,
         run[b]["router"].pc = (IF on THEN "on" ELSE "off"),
         SetPrimary(b, "router", on),
         run' = [run EXCEPT ![b]["router"] = Idle],
         UNCHANGED <<queue, init>>
  PROVE  RoutingInv'
<1> DEFINE x == run[b]["router"]
<1>1. /\ Types /\ \A c \in Bots : Holds(primary[c], applied[c], c)
      /\ \A c \in Bots, u \in Tasks : Task(c, u)
  BY DEF RoutingInv
<1>2. "router" \in Tasks /\ "forward" \in Tasks /\ Tasks = {"router", "forward"}
  BY DEF Tasks
<1>3. /\ x.pc = (IF on THEN "on" ELSE "off") /\ x.m \in M /\ x.cur \in Records
      /\ Holds(x.cur, applied[b], b) /\ on = (Messages[x.m].to = b)
  <2>1. Task(b, "router") BY <1>1, <1>2
  <2>2. x.pc \in {"off", "on"} /\ (x.pc # "off") = on OBVIOUS
  <2>3. x.cur \in Records BY <1>1, <1>2 DEF Types
  <2> QED BY <2>1, <2>2, <2>3 DEF Task
<1>4. primary[b] \in Records /\ applied[b] \in SUBSET M BY <1>1 DEF Types
<1> DEFINE r == IF StaleAssignment(x.cur, x.m) THEN primary[b]
                ELSE WithPrimary(x.cur, on, x.m)
<1>5. Holds(r, applied[b] \cup {x.m}, b)
  BY <1>1, <1>3, <1>4, Applied
<1>6. r \in Records
  <2>1. CreatedAt[x.m] \in Nat /\ x.m \in Nat BY <1>3, Numbered DEF Ordered
  <2> QED BY <1>3, <1>4, <2>1 DEF WithPrimary, Records
<1>7. primary' = [primary EXCEPT ![b] = r]
      /\ applied' = [applied EXCEPT ![b] = applied[b] \cup {x.m}]
  <2>1. primary = [primary EXCEPT ![b] = primary[b]] BY <1>1 DEF Types
  <2> QED BY <2>1, <1>1 DEF SetPrimary, Types
<1>8. Idle \in Locals /\ Idle.pc = "idle"
  BY DEF Idle, Locals, NoRecord, Records, Steps
<1>9. /\ run \in [Bots -> [Tasks -> Locals]] /\ run' \in [Bots -> [Tasks -> Locals]]
      /\ run'[b]["router"] = Idle
      /\ \A c \in Bots, u \in Tasks : c # b \/ u # "router" => run'[c][u] = run[c][u]
  <2>1. run \in [Bots -> [Tasks -> Locals]] BY <1>1 DEF Types, Locals
  <2> QED BY <1>2, <1>8, <2>1
<1> HIDE DEF r, x
<1>10. Types'
  <2>1. primary' \in [Bots -> Records] /\ applied' \in [Bots -> SUBSET M]
    BY <1>1, <1>3, <1>6, <1>7 DEF Types
  <2> QED BY <1>1, <1>9, <2>1 DEF Types, Locals
<1>11. ASSUME NEW c \in Bots PROVE Holds(primary'[c], applied'[c], c)
  <2>1. CASE c = b
    <3>1. primary'[c] = r /\ applied'[c] = applied[b] \cup {x.m}
      BY <1>1, <1>7, <2>1 DEF Types
    <3> QED BY <1>5, <2>1, <3>1
  <2>2. CASE c # b
    <3>1. primary'[c] = primary[c] /\ applied'[c] = applied[c]
      BY <1>1, <1>7, <2>2 DEF Types
    <3> QED BY <1>1, <3>1
  <2> QED BY <2>1, <2>2
<1>12. ASSUME NEW c \in Bots, NEW u \in Tasks PROVE Task(c, u)'
  <2>1. CASE c = b /\ u = "router"
    <3>1. run'[c][u].pc = "idle" BY <1>8, <1>9, <2>1
    <3> QED BY <3>1 DEF Task
  <2>2. CASE c # b
    <3>1. run'[c][u] = run[c][u] /\ applied'[c] = applied[c]
      BY <1>1, <1>7, <1>9, <2>2 DEF Types
    <3> QED BY <1>1, <3>1 DEF Task
  <2>3. CASE c = b /\ u = "forward"
    <3>1. run'[c][u] = run[c][u] BY <1>2, <1>9, <2>3
    <3>2. run[c][u].pc \notin {"off", "command", "on"}
      BY <1>1, <1>2, <2>3 DEF Task
    <3> QED BY <1>1, <3>1, <3>2 DEF Task
  <2> QED BY <1>2, <2>1, <2>2, <2>3
<1> QED BY <1>10, <1>11, <1>12 DEF RoutingInv
-----------------------------------------------------------------------------
(* The steps.                                                              *)

\* Whatever leaves records and tasks alone keeps the invariant.
LEMMA OthersMove ==
  ASSUME RoutingInv, UNCHANGED <<run, primary, applied>>,
         queue' \in [Bots -> Seq(M)],
         init' \in [Bots -> [Callers -> {"none", "read", "count", "on", "off"}]]
  PROVE  RoutingInv'
<1>1. Types' BY DEF RoutingInv, Types
<1>2. \A b \in Bots : Holds(primary'[b], applied'[b], b) BY DEF RoutingInv
<1>3. ASSUME NEW b \in Bots, NEW t \in Tasks PROVE Task(b, t)'
  BY DEF RoutingInv, Task
<1> QED BY <1>1, <1>2, <1>3 DEF RoutingInv

\* The group, the event stream and the end of a retention.
LEMMA Surroundings ==
  ASSUME RoutingInv,
         \/ Send
         \/ \E b \in Bots : \/ \E m \in M : Deliver(b, m)
                            \/ BotAdded(b) \/ Forget(b)
  PROVE  RoutingInv'
<1>1. UNCHANGED <<run, primary, applied>> BY DEF Send, Deliver, BotAdded, Forget
<1>2. /\ queue \in [Bots -> Seq(M)]
      /\ init \in [Bots -> [Callers -> {"none", "read", "count", "on", "off"}]]
  BY DEF RoutingInv, Types
<1>3. ASSUME NEW b \in Bots, NEW m \in M, Deliver(b, m)
      PROVE  queue' \in [Bots -> Seq(M)] /\ init' = init
  BY <1>2, <1>3 DEF Deliver
<1>4. ASSUME NEW b \in Bots, BotAdded(b)
      PROVE  /\ queue' = queue
             /\ init' \in [Bots -> [Callers -> {"none", "read", "count", "on", "off"}]]
  BY <1>2, <1>4 DEF BotAdded, Callers, Tasks
<1>5. ASSUME NEW b \in Bots, Forget(b) PROVE queue' = queue /\ init' = init
  BY <1>5 DEF Forget
<1>6. Send => queue' = queue /\ init' = init BY DEF Send
<1> QED BY <1>1, <1>2, <1>3, <1>4, <1>5, <1>6, OthersMove

\* The automatic initialisation creates a record only where there is none, so
\* never over an assignment.
LEMMA Initialised ==
  ASSUME RoutingInv, NEW b \in Bots, NEW c \in Callers, Ensure(b, c)
  PROVE  RoutingInv'
<1>1. /\ Types /\ \A d \in Bots : Holds(primary[d], applied[d], d)
      /\ \A d \in Bots, u \in Tasks : Task(d, u)
  BY DEF RoutingInv
<1>2. UNCHANGED <<queue, run, applied>> BY DEF Ensure
<1>3. \E s \in {"none", "read", "count", "on", "off"} : SetInit(b, c, s)
  BY DEF Ensure, EnsureRead, EnsureCount, EnsureCreate
<1>4. init' \in [Bots -> [Callers -> {"none", "read", "count", "on", "off"}]]
  BY <1>1, <1>3 DEF SetInit, Types
<1>5. \/ primary' = primary
      \/ /\ ~primary[b].exists
         /\ \E on \in BOOLEAN :
              primary' = [primary EXCEPT ![b] =
                            [NoRecord EXCEPT !.exists = TRUE, !.enabled = on]]
  BY DEF Ensure, EnsureRead, EnsureCount, EnsureCreate
<1>6. CASE primary' = primary BY <1>1, <1>2, <1>4, <1>6, OthersMove DEF Types
<1>7. ASSUME NEW on \in BOOLEAN, ~primary[b].exists,
             primary' = [primary EXCEPT ![b] =
                           [NoRecord EXCEPT !.exists = TRUE, !.enabled = on]]
      PROVE  RoutingInv'
  <2> DEFINE r == [NoRecord EXCEPT !.exists = TRUE, !.enabled = on]
  <2>1. r \in Records /\ r.msg = 0 /\ r.at = 0 BY DEF NoRecord, Records
  <2> HIDE DEF r
  <2>2. applied[b] = {} BY <1>1, <1>7 DEF Holds
  <2>3. Types' BY <1>1, <1>2, <1>4, <1>7, <2>1 DEF Types, r
  <2>4. ASSUME NEW d \in Bots PROVE Holds(primary'[d], applied'[d], d)
    <3>1. CASE d = b
      <4>1. primary'[d] = r BY <1>1, <1>7, <3>1 DEF Types, r
      <4> QED BY <1>2, <2>1, <2>2, <3>1, <4>1 DEF Holds
    <3>2. CASE d # b
      <4>1. primary'[d] = primary[d] BY <1>1, <1>7, <3>2 DEF Types
      <4> QED BY <1>1, <1>2, <4>1
    <3> QED BY <3>1, <3>2
  <2>5. ASSUME NEW d \in Bots, NEW u \in Tasks PROVE Task(d, u)'
    BY <1>1, <1>2 DEF Task
  <2> QED BY <2>3, <2>4, <2>5 DEF RoutingInv
<1> QED BY <1>5, <1>6, <1>7

\* The router claims a message, and gives it a task.
LEMMA Routed ==
  ASSUME RoutingInv, NEW b \in Bots, RouterBegin(b)
  PROVE  RoutingInv'
<1>1. Types BY DEF RoutingInv
<1>2. queue[b] \in Seq(M) /\ queue[b] # <<>> BY <1>1 DEF Types, RouterBegin
<1>3. Head(queue[b]) \in M /\ Tail(queue[b]) \in Seq(M) BY <1>2
<1>4. queue' \in [Bots -> Seq(M)] BY <1>1, <1>3 DEF Types, RouterBegin
<1>5. UNCHANGED <<primary, applied>> BY DEF RouterBegin
<1>6. "router" \in Tasks /\ "router" \in Callers BY DEF Tasks, Callers
<1> DEFINE x == [Idle EXCEPT !.pc = "sync", !.m = Head(queue[b])]
<1>7. \/ UNCHANGED <<run, init>>
      \/ run' = [run EXCEPT ![b]["router"] = x] /\ SetInit(b, "router", "read")
  BY DEF RouterBegin
<1>8. CASE UNCHANGED <<run, init>> BY <1>1, <1>4, <1>5, <1>8, OthersMove DEF Types
<1>9. CASE run' = [run EXCEPT ![b]["router"] = x] /\ SetInit(b, "router", "read")
  <2>1. x \in Locals /\ x.pc = "sync" /\ x.m \in M
    BY <1>3 DEF Idle, Locals, NoRecord, Records, Steps
  <2>2. init' \in [Bots -> [Callers -> {"none", "read", "count", "on", "off"}]]
    BY <1>1, <1>6, <1>9 DEF Types, SetInit
  <2> HIDE DEF x
  <2>3. TaskOk(b, "router", x) BY <2>1 DEF TaskOk
  <2> QED BY <1>4, <1>5, <1>6, <1>9, <2>1, <2>2, <2>3, TaskMoves
<1> QED BY <1>7, <1>8, <1>9

\* The locals of a task change only in their step.
LEMMA Goes ==
  ASSUME RoutingInv, NEW b \in Bots, NEW t \in Tasks, NEW pc \in Steps,
         Goto(b, t, pc)
  PROVE  LET x == [run[b][t] EXCEPT !.pc = pc]
         IN  /\ run' = [run EXCEPT ![b][t] = x] /\ x \in Locals
             /\ x.pc = pc /\ x.m = run[b][t].m /\ x.cur = run[b][t].cur
<1>1. run \in [Bots -> [Tasks -> Locals]] BY DEF RoutingInv, Types, Locals
<1>2. run[b][t] \in Locals BY <1>1
<1> QED BY <1>1, <1>2 DEF Goto, Locals

\* A task that returns is idle.
LEMMA Returns ==
  ASSUME RoutingInv, NEW b \in Bots, NEW t \in Tasks, Return(b, t),
         UNCHANGED <<primary, applied, queue, init>>
  PROVE  RoutingInv'
<1>1. Idle \in Locals /\ Idle.pc = "idle"
  BY DEF Idle, Locals, NoRecord, Records, Steps
<1>2. TaskOk(b, t, Idle) BY <1>1 DEF TaskOk
<1>3. run' = [run EXCEPT ![b][t] = Idle] BY DEF Return
<1> QED BY <1>1, <1>2, <1>3, TaskMoves DEF RoutingInv, Types

\* An assignment is read, or the task goes on to the drop rule.
LEMMA Synced ==
  ASSUME RoutingInv, NEW b \in Bots, NEW t \in Tasks, SyncPrimary(b, t)
  PROVE  RoutingInv'
<1> DEFINE m == run[b][t].m
           x == [run[b][t] EXCEPT !.pc = "off", !.cur = primary[b]]
<1>1. /\ run[b][t].pc = "sync" /\ UNCHANGED <<queue, primary, init, applied>>
      /\ m \in M /\ (t = "forward" => Messages[m].kind = "forward")
  BY DEF SyncPrimary, Stands, RoutingInv, Task
<1>2. \/ Goto(b, t, "drop") \/ Return(b, t)
      \/ /\ Assigns(m) /\ Messages[m].to # b
         /\ run' = [run EXCEPT ![b][t] = x]
  BY DEF SyncPrimary, Handled
<1>3. CASE Goto(b, t, "drop")
  <2> DEFINE y == [run[b][t] EXCEPT !.pc = "drop"]
  <2>1. "drop" \in Steps BY DEF Steps
  <2>2. /\ run' = [run EXCEPT ![b][t] = y] /\ y \in Locals
        /\ y.pc = "drop" /\ y.m = m
    BY <1>3, <2>1, Goes
  <2> HIDE DEF y
  <2>3. TaskOk(b, t, y) BY <1>1, <2>2 DEF TaskOk
  <2> QED BY <1>1, <2>2, <2>3, TaskMoves DEF RoutingInv, Types
<1>4. CASE Return(b, t) BY <1>1, <1>4, Returns
<1>5. ASSUME Assigns(m), Messages[m].to # b, run' = [run EXCEPT ![b][t] = x]
      PROVE  RoutingInv'
  <2>1. run[b][t] \in Locals /\ primary[b] \in Records
    BY DEF RoutingInv, Types, Locals
  <2>2. x \in Locals /\ x.pc = "off" /\ x.m = m /\ x.cur = primary[b]
    BY <2>1 DEF Locals, Steps
  <2>3. t = "router" BY <1>1, <1>5 DEF Assigns, Tasks
  <2>4. Holds(primary[b], applied[b], b) BY DEF RoutingInv
  <2> HIDE DEF x
  <2>5. TaskOk(b, t, x) BY <1>1, <1>5, <2>2, <2>3, <2>4 DEF TaskOk
  <2> QED BY <1>1, <1>5, <2>2, <2>5, TaskMoves DEF RoutingInv, Types
<1> QED BY <1>2, <1>3, <1>4, <1>5

\* A message is dropped, given to a task of its own, or routed.
LEMMA Dropped ==
  ASSUME RoutingInv, NEW b \in Bots, NEW t \in Tasks, DropOrForward(b, t)
  PROVE  RoutingInv'
<1> DEFINE m == run[b][t].m
           x == [Idle EXCEPT !.pc = "sync", !.m = m]
<1>1. /\ run[b][t].pc = "drop" /\ UNCHANGED <<queue, primary, applied>>
      /\ m \in M /\ (t = "forward" => Messages[m].kind = "forward")
  BY DEF DropOrForward, Stands, RoutingInv, Task
<1>2. /\ run \in [Bots -> [Tasks -> Locals]] /\ Types
      /\ \A c \in Bots, u \in Tasks : Task(c, u)
      /\ \A c \in Bots : Holds(primary[c], applied[c], c)
  BY DEF RoutingInv, Types, Locals
<1>3. \/ Return(b, t) /\ UNCHANGED init
      \/ Goto(b, t, "route") /\ UNCHANGED init /\ ~Drops(b, m)
      \/ /\ Messages[m].kind = "forward" /\ SetInit(b, "forward", "read")
         /\ run' = [run EXCEPT ![b] = [router |-> Idle, forward |-> x]]
  BY DEF DropOrForward, Handled
<1>4. CASE Return(b, t) /\ UNCHANGED init BY <1>1, <1>4, Returns
<1>5. CASE Goto(b, t, "route") /\ UNCHANGED init /\ ~Drops(b, m)
  <2> DEFINE y == [run[b][t] EXCEPT !.pc = "route"]
  <2>1. "route" \in Steps BY DEF Steps
  <2>2. /\ run' = [run EXCEPT ![b][t] = y] /\ y \in Locals
        /\ y.pc = "route" /\ y.m = m
    BY <1>5, <2>1, Goes
  <2>3. Assigns(m) => Messages[m].to = b
    BY <1>5 DEF Drops, AcceptGroupMessage, MentionedSelf, MentionedAny, Assigns
  <2> HIDE DEF y
  <2>4. TaskOk(b, t, y) BY <1>1, <2>2, <2>3 DEF TaskOk
  <2> QED BY <1>1, <1>2, <1>5, <2>2, <2>4, TaskMoves DEF Types
<1>6. ASSUME Messages[m].kind = "forward", SetInit(b, "forward", "read"),
             run' = [run EXCEPT ![b] = [router |-> Idle, forward |-> x]]
      PROVE  RoutingInv'
  <2>1. Idle \in Locals /\ Idle.pc = "idle" /\ x \in Locals /\ x.pc = "sync" /\ x.m = m
    BY <1>1 DEF Idle, Locals, NoRecord, Records, Steps
  <2> DEFINE f == [router |-> Idle, forward |-> x]
  <2>2. f["router"] = Idle /\ f["forward"] = x /\ f \in [Tasks -> Locals]
    BY <2>1 DEF Tasks
  <2>3. init' \in [Bots -> [Callers -> {"none", "read", "count", "on", "off"}]]
    BY <1>2, <1>6 DEF Types, SetInit, Callers, Tasks
  <2> HIDE DEF x, f
  <2>4. /\ run' \in [Bots -> [Tasks -> Locals]] /\ run'[b] = f
        /\ \A c \in Bots \ {b} : run'[c] = run[c]
    BY <1>2, <1>6, <2>2 DEF f
  <2>5. Types' BY <1>1, <1>2, <2>3, <2>4 DEF Types, Locals
  <2>6. ASSUME NEW c \in Bots, NEW u \in Tasks PROVE Task(c, u)'
    <3>1. CASE c # b BY <1>1, <1>2, <2>4, <3>1 DEF Task
    <3>2. CASE c = b /\ u = "router"
      <4>1. run'[c][u].pc = "idle" BY <2>1, <2>2, <2>4, <3>2
      <4> QED BY <4>1 DEF Task
    <3>3. CASE c = b /\ u = "forward"
      <4>1. run'[c][u].pc = "sync" /\ run'[c][u].m = m
        BY <2>1, <2>2, <2>4, <3>3
      <4> QED BY <1>1, <1>6, <4>1 DEF Task
    <3> QED BY <3>1, <3>2, <3>3 DEF Tasks
  <2> QED BY <1>1, <1>2, <2>5, <2>6 DEF RoutingInv
<1> QED BY <1>3, <1>4, <1>5, <1>6

\* The drop rule has let only the bot's own assignments pass to their command.
LEMMA RoutedOn ==
  ASSUME RoutingInv, NEW b \in Bots, NEW t \in Tasks, Route(b, t)
  PROVE  RoutingInv'
<1> DEFINE m == run[b][t].m
           y == [run[b][t] EXCEPT !.pc = "command"]
<1>1. /\ run[b][t].pc = "route" /\ UNCHANGED <<queue, primary, applied>>
      /\ m \in M /\ (t = "forward" => Messages[m].kind = "forward")
      /\ Assigns(m) => Messages[m].to = b
  BY DEF Route, Stands, RoutingInv, Task
<1>2. \/ Return(b, t) /\ UNCHANGED init
      \/ Assigns(m) /\ Goto(b, t, "command") /\ SetInit(b, t, "read")
  BY DEF Route, Handled, Failed
<1>3. CASE Return(b, t) /\ UNCHANGED init BY <1>1, <1>3, Returns
<1>4. CASE Assigns(m) /\ Goto(b, t, "command") /\ SetInit(b, t, "read")
  <2>1. "command" \in Steps BY DEF Steps
  <2>2. /\ run' = [run EXCEPT ![b][t] = y] /\ y \in Locals
        /\ y.pc = "command" /\ y.m = m
    BY <1>4, <2>1, Goes
  <2>3. init' \in [Bots -> [Callers -> {"none", "read", "count", "on", "off"}]]
    BY <1>4 DEF RoutingInv, Types, SetInit, Callers
  <2> HIDE DEF y
  <2>4. t = "router" BY <1>1, <1>4 DEF Assigns, Tasks
  <2>5. TaskOk(b, t, y) BY <1>1, <1>4, <2>2, <2>4 DEF TaskOk
  <2> QED BY <1>1, <2>2, <2>3, <2>5, TaskMoves DEF RoutingInv, Types
<1> QED BY <1>2, <1>3, <1>4

\* The command reads the record it will save.
LEMMA Commanded ==
  ASSUME RoutingInv, NEW b \in Bots, NEW t \in Tasks, Command(b, t)
  PROVE  RoutingInv'
<1> DEFINE x == [run[b][t] EXCEPT !.pc = "on", !.cur = primary[b]]
<1>1. /\ run[b][t].pc = "command" /\ UNCHANGED <<queue, primary, init, applied>>
      /\ run[b][t].m \in M /\ t = "router" /\ Assigns(run[b][t].m)
      /\ Messages[run[b][t].m].to = b
  BY DEF Command, Stands, RoutingInv, Task
<1>2. run' = [run EXCEPT ![b][t] = x] \/ Return(b, t) BY DEF Command, Failed
<1>3. CASE Return(b, t) BY <1>1, <1>3, Returns
<1>4. CASE run' = [run EXCEPT ![b][t] = x]
  <2>1. run[b][t] \in Locals /\ primary[b] \in Records
    BY DEF RoutingInv, Types, Locals
  <2>2. x \in Locals /\ x.pc = "on" /\ x.m = run[b][t].m /\ x.cur = primary[b]
    BY <2>1 DEF Locals, Steps
  <2>3. Holds(primary[b], applied[b], b) BY DEF RoutingInv
  <2> HIDE DEF x
  <2>4. TaskOk(b, t, x) BY <1>1, <2>2, <2>3 DEF TaskOk
  <2> QED BY <1>1, <1>4, <2>2, <2>4, TaskMoves DEF RoutingInv, Types
<1> QED BY <1>2, <1>3, <1>4

\* The two ways of saving an assignment.
LEMMA Saved ==
  ASSUME RoutingInv, Ordered, NEW b \in Bots, NEW t \in Tasks,
         SaveOff(b, t) \/ SaveOn(b, t)
  PROVE  RoutingInv'
<1>1. Task(b, t) BY DEF RoutingInv
<1>2. t = "router" BY <1>1 DEF SaveOff, SaveOn, Stands, Task
<1>3. CASE SaveOff(b, t)
  BY <1>2, <1>3, AssignmentTaken DEF SaveOff, Stands, Handled, Return
<1>4. CASE SaveOn(b, t)
  <2>1. /\ run[b]["router"].pc = "on" /\ SetPrimary(b, "router", TRUE)
        /\ run' = [run EXCEPT ![b]["router"] = Idle] /\ UNCHANGED <<queue, init>>
    BY <1>2, <1>4 DEF SaveOn, Stands, Handled, Failed, Return
  <2> QED BY <2>1, AssignmentTaken
<1> QED BY <1>3, <1>4
-----------------------------------------------------------------------------
(* The theorem.                                                            *)

\* Every reachable state satisfies the invariant.
LEMMA RoutingInvariant ==
  ASSUME Ordered
  PROVE  Spec => []RoutingInv
<1>1. Init => RoutingInv
  <2> SUFFICES ASSUME Init PROVE RoutingInv OBVIOUS
  <2>1. Idle \in Locals /\ Idle.pc = "idle" /\ NoRecord \in Records
        /\ NoRecord.msg = 0 /\ NoRecord.at = 0
    BY DEF Idle, Locals, NoRecord, Records, Steps
  <2>2. Types BY <2>1 DEF Init, Types, Locals
  <2>3. \A b \in Bots : Holds(primary[b], applied[b], b)
    BY <2>1 DEF Init, Holds
  <2>4. \A b \in Bots, t \in Tasks : Task(b, t) BY <2>1 DEF Init, Task
  <2> QED BY <2>2, <2>3, <2>4 DEF RoutingInv
<1>2. ASSUME RoutingInv, Next PROVE RoutingInv'
  <2>1. CASE \/ Send
             \/ \E b \in Bots : \/ \E m \in M : Deliver(b, m)
                                \/ BotAdded(b) \/ Forget(b)
    BY <1>2, <2>1, Surroundings
  <2>2. ASSUME NEW b \in Bots, RouterBegin(b) PROVE RoutingInv'
    BY <1>2, <2>2, Routed
  <2>3. ASSUME NEW b \in Bots, NEW c \in Callers, Ensure(b, c) PROVE RoutingInv'
    BY <1>2, <2>3, Initialised
  <2>4. ASSUME NEW b \in Bots, NEW t \in Tasks, TaskStep(b, t) PROVE RoutingInv'
    BY <1>2, <2>4, Synced, Dropped, RoutedOn, Commanded, Saved DEF TaskStep
  <2> QED BY <1>2, <2>1, <2>2, <2>3, <2>4 DEF Next
<1>3. ASSUME RoutingInv, UNCHANGED vars PROVE RoutingInv'
  BY <1>3, OthersMove DEF RoutingInv, Types, vars
<1> QED BY <1>1, <1>2, <1>3, PTL DEF Spec

\* The newest assignment a bot took decides whether it is the primary: in
\* whatever order copies of the group's messages arrive, however often, and
\* however the automatic initialisation and failing requests run beside them
\* (StaleAssignment, SetPrimary, EnsureGroupPrimary).
THEOREM RoutingNewestWins ==
  ASSUME Ordered
  PROVE  Spec => []NewestWins
<1>1. ASSUME RoutingInv PROVE NewestWins
  <2> SUFFICES ASSUME NEW b \in Bots, applied[b] # {},
                      NEW newest, newest = CHOOSE m \in applied[b] :
                                             \A n \in applied[b] : n <= m
               PROVE  primary[b].exists
                      /\ primary[b].enabled = (Messages[newest].to = b)
    BY DEF NewestWins
  <2>1. /\ primary[b].exists /\ primary[b].msg \in applied[b]
        /\ \A n \in applied[b] : n <= primary[b].msg
        /\ primary[b].enabled = (Messages[primary[b].msg].to = b)
    BY <1>1 DEF RoutingInv, Holds
  <2>2. newest \in applied[b] /\ \A n \in applied[b] : n <= newest BY <2>1
  <2>3. applied[b] \subseteq Nat BY <1>1, Numbered DEF RoutingInv, Types
  <2>4. newest = primary[b].msg
    <3>1. newest \in Nat /\ primary[b].msg \in Nat BY <2>1, <2>2, <2>3
    <3>2. newest <= primary[b].msg /\ primary[b].msg <= newest BY <2>1, <2>2
    <3> QED BY <3>1, <3>2
  <2> QED BY <2>1, <2>4
<1> QED BY <1>1, RoutingInvariant, PTL
-----------------------------------------------------------------------------
(* Deleting a workspace.                                                   *)

\* A change of a chat, with all its fields.
IsChange(o) ==
  o \in [pc : {o.pc}, w : {o.w}, seen : {o.seen}, fallback : {o.fallback}, unbind : {o.unbind}]

\* What the references must be for a workspace to be deleted.
MayGo(refs, w) ==
  /\ \A d \in Chats : HasWork(refs[1][d]) => ~ ReferencesWorkspace(refs[1][d], w)
  /\ \A g \in Groups : refs[4][g] # w

\* A deletion that has been validated carries references that allow it.
Validated(o) == IsChange(o) /\ (o.pc = "remove" => MayGo(o.seen, o.w))

LifecycleInv == op = [c \in Chats |-> op[c]] /\ \A c \in Chats : Validated(op[c])

RemovedUnused ==
  \A w \in config \ config' :
    /\ \A c \in Chats : HasWork(sessions[c]) => ~ ReferencesWorkspace(sessions[c], w)
    /\ \A g \in Groups : binding[g] # w

\* One chat's change may become any other that is validated.
LEMMA EnterKeeps ==
  ASSUME LifecycleInv, NEW c \in Chats, NEW o, Validated(o), op' = [op EXCEPT ![c] = o]
  PROVE  LifecycleInv'
  <1>1. op' = [d \in Chats |-> op'[d]]
    BY DEF LifecycleInv
  <1>2. ASSUME NEW d \in Chats PROVE Validated(op'[d])
    BY DEF LifecycleInv
  <1> QED
    BY <1>1, <1>2 DEF LifecycleInv, Validated, MayGo, HasWork, ReferencesWorkspace, IsChange

LEMMA SetFields ==
  ASSUME NEW o, IsChange(o)
  PROVE  /\ \A s : s # "remove" => Validated([o EXCEPT !.pc = s])
         /\ \A s, x : (s = "remove" => MayGo(x, o.w)) => Validated([o EXCEPT !.pc = s, !.seen = x])
  <1>1. ASSUME NEW s, s # "remove" PROVE Validated([o EXCEPT !.pc = s])
    <2> DEFINE n == [o EXCEPT !.pc = s]
    <2>1. n \in [pc : {s}, w : {o.w}, seen : {o.seen}, fallback : {o.fallback}, unbind : {o.unbind}]
      BY DEF IsChange
    <2> HIDE DEF n
    <2> QED
      BY <1>1, <2>1 DEF Validated, IsChange
  <1>2. ASSUME NEW s, NEW x, s = "remove" => MayGo(x, o.w)
        PROVE  Validated([o EXCEPT !.pc = s, !.seen = x])
    <2> DEFINE n == [o EXCEPT !.pc = s, !.seen = x]
    <2>1. n \in [pc : {s}, w : {o.w}, seen : {x}, fallback : {o.fallback}, unbind : {o.unbind}]
      BY DEF IsChange
    <2> HIDE DEF n
    <2> QED
      BY <1>2, <2>1 DEF Validated, IsChange
  <1> QED
    BY <1>1, <1>2

LEMMA FreshChanges ==
  /\ Validated(NoChange)
  /\ \A w : Validated([NoChange EXCEPT !.pc = "switch", !.w = w])
  /\ Validated([NoChange EXCEPT !.pc = "switch", !.unbind = TRUE])
  /\ \A w, f : Validated([NoChange EXCEPT !.pc = "delete", !.w = w, !.fallback = f])
  <1>1. ASSUME NEW p, p # "remove", NEW w, NEW f, NEW u,
               NEW n \in [pc : {p}, w : {w}, seen : {<<>>}, fallback : {f}, unbind : {u}]
        PROVE  Validated(n)
    BY <1>1 DEF Validated, IsChange
  <1>2. NoChange \in [pc : {"idle"}, w : {None}, seen : {<<>>}, fallback : {None}, unbind : {FALSE}]
    BY DEF NoChange
  <1>3. [NoChange EXCEPT !.pc = "switch", !.unbind = TRUE]
          \in [pc : {"switch"}, w : {None}, seen : {<<>>}, fallback : {None}, unbind : {TRUE}]
    BY <1>2
  <1>4. ASSUME NEW w PROVE [NoChange EXCEPT !.pc = "switch", !.w = w]
          \in [pc : {"switch"}, w : {w}, seen : {<<>>}, fallback : {None}, unbind : {FALSE}]
    BY <1>2
  <1>5. ASSUME NEW w, NEW f PROVE [NoChange EXCEPT !.pc = "delete", !.w = w, !.fallback = f]
          \in [pc : {"delete"}, w : {w}, seen : {<<>>}, fallback : {f}, unbind : {FALSE}]
    BY <1>2
  <1>6. Validated(NoChange) /\ Validated([NoChange EXCEPT !.pc = "switch", !.unbind = TRUE])
    BY <1>1, <1>2, <1>3
  <1>7. ASSUME NEW w PROVE Validated([NoChange EXCEPT !.pc = "switch", !.w = w])
    <2> DEFINE n == [NoChange EXCEPT !.pc = "switch", !.w = w]
    <2>1. n \in [pc : {"switch"}, w : {w}, seen : {<<>>}, fallback : {None}, unbind : {FALSE}]
      BY <1>4
    <2> HIDE DEF n
    <2>2. Validated(n)
      BY <2>1 DEF Validated, IsChange
    <2> QED
      BY <2>2 DEF n
  <1>8. ASSUME NEW w, NEW f
        PROVE  Validated([NoChange EXCEPT !.pc = "delete", !.w = w, !.fallback = f])
    <2> DEFINE n == [NoChange EXCEPT !.pc = "delete", !.w = w, !.fallback = f]
    <2>1. n \in [pc : {"delete"}, w : {w}, seen : {<<>>}, fallback : {f}, unbind : {FALSE}]
      BY <1>5
    <2> HIDE DEF n
    <2>2. Validated(n)
      BY <2>1 DEF Validated, IsChange
    <2> QED
      BY <2>2 DEF n
  <1> QED
    BY <1>6, <1>7, <1>8

LEMMA LifecycleKept ==
  ASSUME LifecycleInv, [LifecycleNext]_lifecycleVars
  PROVE  LifecycleInv'
  <1> USE DEF Enter
  <1>1. ASSUME NEW c \in Chats, \/ Input(c) \/ StartTurn(c) \/ FinishTurn(c) \/ ParkThread(c)
        PROVE  LifecycleInv'
    <2>1. op' = op
      BY <1>1 DEF Input, StartTurn, FinishTurn, ParkThread
    <2> QED
      BY <2>1 DEF LifecycleInv, Validated, MayGo, HasWork, ReferencesWorkspace, IsChange
  <1>2. ASSUME NEW c \in Chats, NEW w, AskSwitch(c, w) \/ Create(c, w) \/ AskDelete(c, w)
        PROVE  LifecycleInv'
    <2>1. PICK o : Validated(o) /\ op' = [op EXCEPT ![c] = o]
      BY <1>2, FreshChanges DEF AskSwitch, Create, AskDelete
    <2> QED
      BY <2>1, EnterKeeps
  <1>3. ASSUME NEW g \in Groups, AskUnbind(g) PROVE LifecycleInv'
    <2>1. g \in Chats
      BY DEF Chats
    <2> QED
      BY <1>3, <2>1, FreshChanges, EnterKeeps DEF AskUnbind
  <1>4. ASSUME NEW c \in Chats, SwitchRead(c) \/ SwitchGet(c) \/ SwitchCommit(c) \/ BindRead(c) \/ BindSave(c)
        PROVE  LifecycleInv'
    <2>1. IsChange(op[c])
      BY DEF LifecycleInv, Validated
    <2>2. PICK o : Validated(o) /\ op' = [op EXCEPT ![c] = o]
      <3>1. CASE SwitchRead(c)
        <4>1. Validated([op[c] EXCEPT !.pc = IF op[c].unbind THEN "commit" ELSE "get",
                                      !.seen = References])
          BY <2>1, SetFields
        <4> QED
          BY <3>1, <4>1, FreshChanges DEF SwitchRead, Refuse
      <3>2. CASE SwitchGet(c)
        BY <3>2, <2>1, SetFields, FreshChanges DEF SwitchGet, Refuse
      <3>3. CASE SwitchCommit(c)
        BY <3>3, <2>1, SetFields, FreshChanges DEF SwitchCommit, Refuse
      <3>4. CASE BindRead(c)
        BY <3>4, <2>1, SetFields, FreshChanges DEF BindRead, Refuse
      <3>5. CASE BindSave(c)
        BY <3>5, FreshChanges DEF BindSave
      <3> QED
        BY <1>4, <3>1, <3>2, <3>3, <3>4, <3>5
    <2> QED
      BY <2>2, EnterKeeps
  <1>5. ASSUME NEW c \in Chats, DeleteRead(c) PROVE LifecycleInv'
    <2>1. CASE DeleteRefused(c, op[c].w)
      BY <1>5, <2>1, FreshChanges, EnterKeeps DEF DeleteRead, Refuse
    <2>2. CASE ~ DeleteRefused(c, op[c].w)
      <3>1. MayGo(References, op[c].w)
        BY <2>2 DEF DeleteRefused, MayGo, References, SwitchBlocked
      <3>2. Validated([op[c] EXCEPT !.pc = "remove", !.seen = References])
        BY <3>1, SetFields DEF LifecycleInv, Validated
      <3> QED
        BY <1>5, <2>2, <3>2, EnterKeeps DEF DeleteRead
    <2> QED
      BY <2>1, <2>2
  <1>6. ASSUME NEW c \in Chats, DeleteCommit(c) PROVE LifecycleInv'
    BY <1>6, FreshChanges, EnterKeeps DEF DeleteCommit, Refuse
  <1>7. ASSUME NEW c \in Chats, CrashBetweenFiles(c) PROVE LifecycleInv'
    <2>1. op' = [d \in Chats |-> NoChange]
      BY <1>7 DEF CrashBetweenFiles
    <2> QED
      BY <2>1, FreshChanges DEF LifecycleInv
  <1>8. CASE UNCHANGED lifecycleVars
    BY <1>8 DEF lifecycleVars, LifecycleInv, Validated, MayGo, HasWork, ReferencesWorkspace, IsChange
  <1> QED
    BY <1>1, <1>2, <1>3, <1>4, <1>5, <1>6, <1>7, <1>8 DEF LifecycleNext

LEMMA LifecycleRemoves ==
  ASSUME LifecycleInv, [LifecycleNext]_lifecycleVars
  PROVE  RemovedUnused
  <1>1. ASSUME NEW c \in Chats, DeleteCommit(c) PROVE RemovedUnused
    <2>1. CASE DeleteAllowed(c)
      <3>1. MayGo(References, op[c].w)
        BY <1>1, <2>1 DEF LifecycleInv, Validated, DeleteCommit, DeleteAllowed, CommitAllowed
      <3>2. config \ config' \subseteq {op[c].w}
        BY <1>1, <2>1 DEF DeleteCommit
      <3> QED
        BY <3>1, <3>2 DEF MayGo, References, RemovedUnused
    <2>2. CASE ~ DeleteAllowed(c)
      BY <1>1, <2>2 DEF DeleteCommit, Refuse, RemovedUnused
    <2> QED
      BY <2>1, <2>2
  <1>2. CASE config \subseteq config'
    BY <1>2 DEF RemovedUnused
  <1>3. ASSUME NEW c \in Chats,
               \/ Input(c) \/ StartTurn(c) \/ FinishTurn(c) \/ ParkThread(c) \/ SwitchRead(c)
               \/ SwitchGet(c) \/ SwitchCommit(c) \/ BindRead(c) \/ BindSave(c) \/ DeleteRead(c)
               \/ CrashBetweenFiles(c) \/ AskUnbind(c)
               \/ \E w : AskSwitch(c, w) \/ Create(c, w) \/ AskDelete(c, w)
        PROVE  config \subseteq config'
    BY <1>3 DEF Input, StartTurn, FinishTurn, ParkThread, SwitchRead, SwitchGet, SwitchCommit,
         BindRead, BindSave, DeleteRead, CrashBetweenFiles, AskUnbind, AskSwitch, Create,
         AskDelete, Refuse
  <1>4. CASE UNCHANGED lifecycleVars
    BY <1>4 DEF lifecycleVars, RemovedUnused
  <1> QED
    BY <1>1, <1>2, <1>3, <1>4 DEF LifecycleNext, Chats

\* A workspace is removed only while no session that refers to it has a turn or
\* a queue, and no group is bound to it, for any number of chats, workspaces,
\* switches, deletions and failed writes.
THEOREM WorkspacesRespectWork == LifecycleSpec => DeletionRespectsWork
  <1>1. LifecycleInit => LifecycleInv
    BY FreshChanges DEF LifecycleInit, LifecycleInv
  <1>2. LifecycleInv /\ [LifecycleNext]_lifecycleVars => LifecycleInv'
    BY LifecycleKept
  <1>3. LifecycleInv /\ [LifecycleNext]_lifecycleVars => RemovedUnused
    BY LifecycleRemoves
  <1> QED
    BY <1>1, <1>2, <1>3, PTL DEF LifecycleSpec, DeletionRespectsWork, RemovedUnused
-----------------------------------------------------------------------------
(* Creating a workspace.                                                   *)

MaybeTarget == Targets \cup {NoTarget}
WorkerSteps == {"plan", "git", "create", "switch", "finish", "patch", "done"}
Outcomes == {"none", "cancelled", "takeover", "failed", "completed"}
WorkerRecord ==
  [target : MaybeTarget, pc : WorkerSteps, cancelled : BOOLEAN, created : BOOLEAN,
   outcome : Outcomes]

\* The outcome of a worker that has ended is what it did: a directory it speaks
\* of is there, and it has registered its workspace or not.
OutcomeTrue(w, there) ==
  /\ w.pc \in {"plan", "git", "create"} => ~ w.created
  /\ w.pc = "switch" => w.created
  /\ w.pc \in {"create", "switch"} => w.target \in there
  /\ w.pc \in {"finish", "patch"} =>
       /\ w.outcome # "none"
       /\ w.outcome = "completed" => w.created
       /\ w.outcome = "cancelled" => ~ w.created
       /\ w.outcome = "takeover" => w.target \in there
Honest(there) == {w \in WorkerRecord : OutcomeTrue(w, there)}

CreationInv ==
  /\ handler.target \in MaybeTarget
  /\ DOMAIN handler = {"pc", "target"}
  /\ workers \in Seq(Honest(dirs))

PatchTrue ==
  \A i \in DOMAIN workers :
    At(i, "patch") /\ workers'[i].pc = "done" /\ card' # card =>
      /\ card'.name = "success" => workers[i].created
      /\ card'.name = "cancelled" => ~ workers[i].created
      /\ card'.name = "hint" => workers[i].target \in dirs

LEMMA HonestGrows ==
  ASSUME NEW a, NEW b, a \subseteq b
  PROVE  Honest(a) \subseteq Honest(b)
  BY DEF Honest, OutcomeTrue

LEMMA CancelKeeps ==
  ASSUME CreationInv, NEW i
  PROVE  CancelWorker(workers, i) \in Seq(Honest(dirs))
  <1> DEFINE ws == [workers EXCEPT ![i].cancelled = TRUE]
  <1>1. ASSUME NEW w \in Honest(dirs) PROVE [w EXCEPT !.cancelled = TRUE] \in Honest(dirs)
    <2> DEFINE v == [w EXCEPT !.cancelled = TRUE]
    <2>1. /\ v \in WorkerRecord /\ v.pc = w.pc /\ v.created = w.created
          /\ v.outcome = w.outcome /\ v.target = w.target
      BY DEF Honest, WorkerRecord
    <2> HIDE DEF v
    <2>2. v \in Honest(dirs)
      BY <2>1 DEF Honest, OutcomeTrue
    <2> QED
      BY <2>2 DEF v
  <1>2. ws \in Seq(Honest(dirs))
    <2>1. workers \in Seq(Honest(dirs))
      BY DEF CreationInv
    <2>2. CASE i \in DOMAIN workers
      <3>1. [workers[i] EXCEPT !.cancelled = TRUE] \in Honest(dirs)
        BY <1>1, <2>1, <2>2
      <3> QED
        BY <2>1, <2>2, <3>1
    <2>3. CASE i \notin DOMAIN workers
      <3>1. ws = workers
        BY <2>1, <2>3
      <3> QED
        BY <2>1, <3>1
    <2> QED
      BY <2>2, <2>3
  <1> QED
    BY <1>2 DEF CancelWorker, CreationInv

\* One worker's step.
LEMMA SetKeeps ==
  ASSUME CreationInv, NEW i \in DOMAIN workers, NEW w, Set(i, w),
         dirs \subseteq dirs', w \in Honest(dirs')
  PROVE  workers' \in Seq(Honest(dirs'))
  BY HonestGrows DEF CreationInv, Set

\* A worker that ends with an outcome.
LEMMA EndIs ==
  ASSUME CreationInv, NEW i \in DOMAIN workers, NEW ds, NEW o \in Outcomes \ {"none"},
         o = "completed" => workers[i].created,
         o = "cancelled" => ~ workers[i].created,
         o = "takeover" => workers[i].target \in ds
  PROVE  [workers[i] EXCEPT !.pc = "finish", !.outcome = o] \in Honest(ds)
  <1> DEFINE v == [workers[i] EXCEPT !.pc = "finish", !.outcome = o]
  <1>1. workers[i] \in WorkerRecord
    BY DEF CreationInv, Honest
  <1>2. /\ v \in WorkerRecord /\ v.pc = "finish" /\ v.outcome = o
        /\ v.created = workers[i].created /\ v.target = workers[i].target
    BY <1>1 DEF WorkerRecord, WorkerSteps
  <1> HIDE DEF v
  <1>3. v \in Honest(ds)
    BY <1>2 DEF Honest, OutcomeTrue
  <1> QED
    BY <1>3 DEF v

\* A worker that has ended keeps its outcome.
LEMMA EndStays ==
  ASSUME CreationInv, NEW i \in DOMAIN workers, NEW ds, NEW s \in {"patch", "done"},
         s = "patch" => workers[i].pc = "finish" /\ OutcomeTrue(workers[i], ds)
  PROVE  [workers[i] EXCEPT !.pc = s] \in Honest(ds)
  <1> DEFINE v == [workers[i] EXCEPT !.pc = s]
  <1>1. workers[i] \in WorkerRecord
    BY DEF CreationInv, Honest
  <1>2. /\ v \in WorkerRecord /\ v.pc = s /\ v.outcome = workers[i].outcome
        /\ v.created = workers[i].created /\ v.target = workers[i].target
    BY <1>1 DEF WorkerRecord, WorkerSteps
  <1> HIDE DEF v
  <1>3. v \in Honest(ds)
    BY <1>2 DEF Honest, OutcomeTrue
  <1> QED
    BY <1>3 DEF v

LEMMA WorkerKeeps ==
  ASSUME CreationInv, NEW i \in 1 .. MaxWorkers, Work(i)
  PROVE  CreationInv'
  <1> DEFINE w == workers[i]
  <1>0. i \in DOMAIN workers /\ UNCHANGED handler /\ dirs \subseteq dirs'
    BY DEF Work, Replan, Git, CreateLocal, SwitchTo, Finish, Patch, At, NotTheWorker
  <1>1. w \in WorkerRecord /\ OutcomeTrue(w, dirs)
    BY <1>0 DEF CreationInv, Honest
  <1>2. \E v \in Honest(dirs') : Set(i, v)
    <2>1. CASE Replan(i)
      <3>1. [w EXCEPT !.pc = "git"] \in Honest(dirs)
        <4> DEFINE v == [w EXCEPT !.pc = "git"]
        <4>1. v \in WorkerRecord /\ v.pc = "git" /\ v.created = w.created
          BY <1>1 DEF WorkerRecord, WorkerSteps
        <4> HIDE DEF v
        <4>2. v \in Honest(dirs)
          BY <1>1, <2>1, <4>1 DEF Replan, At, Honest, OutcomeTrue
        <4> QED
          BY <4>2 DEF v
      <3>2. [w EXCEPT !.pc = "done"] \in Honest(dirs)
        BY <1>0, EndStays
      <3> QED
        BY <2>1, <3>1, <3>2 DEF Replan
    <2>2. CASE Git(i)
      <3>1. CASE Set(i, [w EXCEPT !.pc = "create"]) /\ dirs' = dirs \cup {w.target}
        <4> DEFINE v == [w EXCEPT !.pc = "create"]
        <4>1. v \in WorkerRecord /\ v.pc = "create" /\ v.created = w.created /\ v.target = w.target
          BY <1>1 DEF WorkerRecord, WorkerSteps
        <4> HIDE DEF v
        <4>2. v \in Honest(dirs')
          BY <1>1, <2>2, <3>1, <4>1 DEF Git, At, Honest, OutcomeTrue
        <4> QED
          BY <4>2, <3>1 DEF v
      <3>2. CASE End(i, "failed") \/ End(i, "cancelled")
        <4>1. ~ w.created
          BY <1>1, <2>2 DEF Git, At, OutcomeTrue
        <4>2. \A o \in {"failed", "cancelled"} :
                [w EXCEPT !.pc = "finish", !.outcome = o] \in Honest(dirs')
          BY <1>0, <4>1, EndIs DEF Outcomes
        <4> QED
          BY <3>2, <4>2 DEF End
      <3> QED
        BY <2>2, <3>1, <3>2 DEF Git
    <2>3. CASE CreateLocal(i)
      <3>1. CASE End(i, "takeover")
        <4>1. w.target \in dirs'
          BY <1>0, <1>1, <2>3 DEF CreateLocal, At, OutcomeTrue
        <4>2. [w EXCEPT !.pc = "finish", !.outcome = "takeover"] \in Honest(dirs')
          BY <1>0, <4>1, EndIs DEF Outcomes
        <4> QED
          BY <3>1, <4>2 DEF End
      <3>2. CASE Set(i, [w EXCEPT !.pc = "switch", !.created = TRUE])
        <4> DEFINE v == [w EXCEPT !.pc = "switch", !.created = TRUE]
        <4>1. v \in WorkerRecord /\ v.pc = "switch" /\ v.created /\ v.target = w.target
          BY <1>1 DEF WorkerRecord, WorkerSteps
        <4> HIDE DEF v
        <4>2. v \in Honest(dirs')
          BY <1>0, <1>1, <2>3, <4>1 DEF CreateLocal, At, Honest, OutcomeTrue
        <4> QED
          BY <4>2, <3>2 DEF v
      <3> QED
        BY <2>3, <3>1, <3>2 DEF CreateLocal
    <2>4. CASE SwitchTo(i)
      <3>1. w.created /\ w.target \in dirs'
        BY <1>0, <1>1, <2>4 DEF SwitchTo, At, OutcomeTrue
      <3>2. \A o \in {"completed", "takeover"} :
              [w EXCEPT !.pc = "finish", !.outcome = o] \in Honest(dirs')
        BY <1>0, <3>1, EndIs DEF Outcomes
      <3> QED
        BY <2>4, <3>2 DEF SwitchTo, End
    <2>5. CASE Finish(i)
      <3>1. OutcomeTrue(w, dirs') /\ w.pc = "finish"
        BY <1>1, <2>5 DEF Finish, At
      <3>2. \A s \in {"patch", "done"} : [w EXCEPT !.pc = s] \in Honest(dirs')
        BY <1>0, <3>1, EndStays
      <3> QED
        BY <2>5, <3>2 DEF Finish
    <2>6. CASE Patch(i)
      <3>1. [w EXCEPT !.pc = "done"] \in Honest(dirs')
        BY <1>0, EndStays
      <3> QED
        BY <2>6, <3>1 DEF Patch
    <2> QED
      BY <2>1, <2>2, <2>3, <2>4, <2>5, <2>6 DEF Work, Replan, CreateLocal, SwitchTo, Finish, Patch
  <1> QED
    BY <1>0, <1>2, SetKeeps DEF CreationInv

LEMMA CreationKept ==
  ASSUME CreationInv, [CreationNext]_creationVars
  PROVE  CreationInv'
  <1>1. ASSUME NEW i \in 1 .. MaxWorkers, Work(i) PROVE CreationInv'
    BY <1>1, WorkerKeeps
  <1>2. ASSUME NEW t \in Targets, Submit(t) PROVE CreationInv'
    <2>1. UNCHANGED <<workers, dirs>>
      BY <1>2 DEF Submit
    <2>2. handler' = handler \/ handler' = [pc |-> "prepare", target |-> t]
      BY <1>2 DEF Submit
    <2> QED
      BY <2>1, <2>2 DEF CreationInv, MaybeTarget
  <1>3. CASE Prepare
    <2>1. UNCHANGED <<workers, dirs>>
      BY <1>3 DEF Prepare
    <2>2. handler' = [handler EXCEPT !.pc = "start"] \/ handler' = IdleHandler
      BY <1>3 DEF Prepare
    <2> QED
      BY <2>1, <2>2 DEF CreationInv, MaybeTarget, IdleHandler
  <1>4. CASE Start
    <2>1. Worker(handler.target) \in Honest(dirs)
      BY DEF CreationInv, Worker, Honest, OutcomeTrue, WorkerRecord, WorkerSteps, Outcomes
    <2>2. CancelWorker(workers, tracker) \in Seq(Honest(dirs))
      BY CancelKeeps
    <2>3. Append(CancelWorker(workers, tracker), Worker(handler.target)) \in Seq(Honest(dirs))
      BY <2>1, <2>2
    <2> QED
      BY <1>4, <2>3 DEF Start, CreationInv, IdleHandler, MaybeTarget
  <1>5. CASE CloneCancel \/ WorktreeCancel
    <2>1. UNCHANGED <<handler, dirs>> /\ workers' \in {workers, CancelWorker(workers, tracker)}
      BY <1>5 DEF CloneCancel, WorktreeCancel
    <2> QED
      BY <2>1, CancelKeeps DEF CreationInv
  <1>6. ASSUME NEW t \in Targets, OthersMake(t) PROVE CreationInv'
    <2>1. UNCHANGED <<workers, handler>> /\ dirs \subseteq dirs'
      BY <1>6 DEF OthersMake
    <2> QED
      BY <2>1, HonestGrows DEF CreationInv
  <1>7. CASE Restart
    <2>1. ASSUME NEW i \in DOMAIN workers PROVE [workers[i] EXCEPT !.pc = "done"] \in Honest(dirs)
      BY EndStays
    <2>2. DOMAIN workers = 1 .. Len(workers) /\ Len(workers) \in Nat
      BY DEF CreationInv
    <2>3. workers' \in Seq(Honest(dirs))
      BY <1>7, <2>1, <2>2 DEF Restart
    <2> QED
      BY <1>7, <2>3 DEF Restart, CreationInv, IdleHandler, MaybeTarget
  <1>8. CASE \/ SubmitIncomplete \/ Refresh \/ PickDir \/ FormCancel \/ NewSubmit \/ ShowAnswer
             \/ Lapse \/ (\E i \in 1 .. MaxWorkers : Progress(i)) \/ UNCHANGED creationVars
    <2>1. UNCHANGED <<handler, workers, dirs>>
      BY <1>8 DEF SubmitIncomplete, Refresh, PickDir, FormCancel, NewSubmit, ShowAnswer, Lapse,
           Progress, creationVars, Click
    <2> QED
      BY <2>1 DEF CreationInv
  <1> QED
    BY <1>1, <1>2, <1>3, <1>4, <1>5, <1>6, <1>7, <1>8 DEF CreationNext

LEMMA CreationPatches ==
  ASSUME CreationInv, [CreationNext]_creationVars
  PROVE  PatchTrue
  <1>1. ASSUME NEW i \in 1 .. MaxWorkers, Patch(i) PROVE PatchTrue
    <2>1. i \in DOMAIN workers /\ workers[i].pc = "patch"
      BY <1>1 DEF Patch, At
    <2>2. ASSUME NEW j \in DOMAIN workers, j # i, At(j, "patch") PROVE workers'[j].pc # "done"
      BY <1>1, <2>2 DEF Patch, Set, At
    <2>3. OutcomeTrue(workers[i], dirs)
      BY <2>1 DEF CreationInv, Honest
    <2>4. workers[i].outcome \in Outcomes
      BY <2>1 DEF CreationInv, Honest, WorkerRecord
    <2>5. /\ card'.name = "success" => workers[i].outcome = "completed"
          /\ card'.name = "cancelled" => workers[i].outcome = "cancelled"
          /\ card'.name = "hint" => workers[i].outcome = "takeover"
      <3>1. card' = ResultCard(workers[i].outcome)
        BY <1>1 DEF Patch
      <3>2. CASE workers[i].outcome = "completed"
        BY <3>1, <3>2 DEF ResultCard, Card
      <3>3. CASE workers[i].outcome = "cancelled"
        BY <3>1, <3>3 DEF ResultCard, Card
      <3>4. CASE workers[i].outcome = "takeover"
        BY <3>1, <3>4 DEF ResultCard, Card
      <3>5. CASE workers[i].outcome = "failed"
        BY <3>1, <3>5 DEF ResultCard, FormCard, Card
      <3> QED
        BY <2>1, <2>3, <2>4, <3>2, <3>3, <3>4, <3>5 DEF Outcomes, OutcomeTrue
    <2> QED
      BY <2>1, <2>2, <2>3, <2>5 DEF PatchTrue, OutcomeTrue
  <1>2. CASE card' = card
    BY <1>2 DEF PatchTrue
  <1>3. CASE ShowAnswer
    BY <1>3 DEF ShowAnswer, PatchTrue, At
  <1>4. ASSUME NEW i \in 1 .. MaxWorkers, Progress(i) PROVE PatchTrue
    BY <1>4 DEF Progress, PatchTrue, At
  <1> QED
    BY <1>1, <1>2, <1>3, <1>4
       DEF CreationNext, creationVars, Submit, OthersMake, SubmitIncomplete, Prepare, Start, Refresh,
           PickDir, CloneCancel, WorktreeCancel, FormCancel, NewSubmit, Lapse, Restart, Work, Replan,
           Git, CreateLocal, SwitchTo, Finish, NotTheWorker

\* What a worker patches into the card is true, for any number of clicks,
\* workers, targets, failures and restarts, and whatever the others do with the
\* directories and the configuration meanwhile.
THEOREM CreationIsTold == CreationSpec => ResultIsTrue
  <1>1. CreationInit => CreationInv
    BY DEF CreationInit, CreationInv, IdleHandler, MaybeTarget
  <1>2. CreationInv /\ [CreationNext]_creationVars => CreationInv'
    BY CreationKept
  <1>3. CreationInv /\ [CreationNext]_creationVars => PatchTrue
    BY CreationPatches
  <1> QED
    BY <1>1, <1>2, <1>3, PTL DEF CreationSpec, ResultIsTrue, PatchTrue
=============================================================================

----------------------------- MODULE StateStore -----------------------------
(***************************************************************************)
(* The state store (internal/state/store.go) and its frontend scope        *)
(* (adapter/storage/json/scoped): one mutex, the runtime sessions, the     *)
(* snapshot that every change rewrites through a temporary file, and the   *)
(* queue of notifications (application/frontend/notifications.go).         *)
(*                                                                         *)
(* A save fails before its rename or replaces the file as a whole, so a    *)
(* crash finds the old file or the new one.  Most operations keep their    *)
(* change in memory when the save fails; UpdateSession and the commits of  *)
(* backend sessions take it back.  A start loads the file, normalizes it   *)
(* and rewrites session keys of older shapes.                              *)
(***************************************************************************)
EXTENDS Naturals, Sequences, FiniteSets, SequencesExt

CONSTANTS
  Frontends, Chats, Values,
  Backends,
  Sanitized,    \* sanitizeStateIDPart of each frontend
  Files,        \* the files a first start may find
  MaxOps,       \* bound: changes
  MaxFailures,  \* bound: failed saves and deliveries
  MaxRestarts   \* bound: restarts

VARIABLES
  up,         \* the program runs
  sessions,   \* runtime.Sessions
  stored,     \* data.Sessions
  records,    \* data.AgentBindings and the other records of a chat
  profiles,   \* data.BotProfiles
  notes,      \* data.FrontendCardNotifications
  disk,       \* the file
  dirty,      \* the last save failed
  own,        \* the profile each frontend saved last
  ops, failures, restarts

storeVars ==
  <<up, sessions, stored, records, profiles, notes, disk, dirty, own,
    ops, failures, restarts>>

Blank == "none"
Maybe == Values \cup {Blank}
Key(f, chat, topic) == [f |-> f, chat |-> chat, topic |-> topic]
Extend(f, k, v) == [x \in DOMAIN f \cup {k} |-> IF x = k THEN v ELSE f[x]]
Without(f, K) == [x \in DOMAIN f \ K |-> f[x]]
Empty == [x \in {} |-> Blank]

\* the queue and the turn are not stored; a restart is idle
Persist(s) == [s EXCEPT !.queue = <<>>, !.turn = Blank]
NewSession == [thread |-> Blank, name |-> Blank, plan |-> Blank, backends |-> Empty,
               queue |-> <<>>, turn |-> Blank, at |-> 0]
IsBlank(s) == [s EXCEPT !.at = 0] = NewSession

\* A file holds finitely many sessions, each of the fields of a session.
ASSUME StoreAssumption ==
  \A file \in Files :
    /\ IsFiniteSet(DOMAIN file.sessions)
    /\ \A k \in DOMAIN file.sessions :
         DOMAIN file.sessions[k] = DOMAIN NewSession /\ file.sessions[k].at \in Nat

Snapshot(st, rec, prof, nts) ==
  [sessions |-> st, records |-> rec, profiles |-> prof, notes |-> nts]

Fails == failures < MaxFailures /\ failures' = failures + 1
Op == up /\ ops < MaxOps /\ ops' = ops + 1 /\ UNCHANGED <<up, restarts>>

\* saveLocked, with what the change leaves in memory
Save(st, rec, prof, nts) ==
  /\ stored' = st /\ records' = rec /\ profiles' = prof /\ notes' = nts
  /\ \/ disk' = Snapshot(st, rec, prof, nts) /\ dirty' = FALSE /\ UNCHANGED failures
     \/ Fails /\ dirty' = TRUE /\ UNCHANGED disk

\* syncPersistentSessionLocked and saveLocked
SaveSessionAs(k, s) ==
  /\ sessions' = Extend(sessions, k, s)
  /\ Save(Extend(stored, k, Persist(s)), records, profiles, notes)
-----------------------------------------------------------------------------
(* Start: Open, then CanonicalizeStoredSessionKeys.                        *)
Canonical(k, hint) ==
  LET f == IF k.f # Blank THEN k.f ELSE hint
  IN  IF f = Blank THEN k ELSE Key(f, k.chat, Blank)

\* Mutant of Newer: the first session met wins.
FirstMet(a, b) == TRUE

Newer(a, b) == ~(b.at > a.at)

\* fillSessionBlanks
FillBlanks(s, from) ==
  [s EXCEPT !.thread = IF @ # Blank THEN @ ELSE from.thread,
            !.name = IF @ # Blank THEN @ ELSE from.name,
            !.turn = IF @ # Blank THEN @ ELSE from.turn]

\* mergeSessionBackendThreadMaps
Overlay(base, over) ==
  [b \in DOMAIN base \cup DOMAIN over |-> IF b \in DOMAIN over THEN over[b] ELSE base[b]]

MergeSessions(a, b) ==
  LET p == IF Newer(a, b) THEN a ELSE b
      q == IF Newer(a, b) THEN b ELSE a
  IN  [FillBlanks(p, q) EXCEPT !.backends = Overlay(q.backends, p.backends),
                               !.queue = @ \o SelectSeq(q.queue, LAMBDA x : x \notin Range(p.queue))]

\* A session takes its place, or joins the one that is there.
Meet(acc, loaded, k) ==
  LET ck == Canonical(k, Blank)
  IN  Extend(acc, ck, IF ck \in DOMAIN acc THEN MergeSessions(acc[ck], loaded[k])
                      ELSE loaded[k])

\* CanonicalizeSessionKeys meets the sessions in the order of a Go map.
Canonicalized(loaded, order) ==
  LET met[n \in 0 .. Len(order)] ==
        IF n = 0 THEN Empty ELSE Meet(met[n - 1], loaded, order[n])
  IN  met[Len(order)]

\* The waiting messages of a binding name their sessions too.
Rekeyed(rec) ==
  [id \in DOMAIN rec |->
     [rec[id] EXCEPT !.waiting = [i \in DOMAIN @ |-> Canonical(@[i], rec[id].f)]]]

Orders(S) == {o \in [1 .. Cardinality(S) -> S] : Range(o) = S}

StoreInit ==
  /\ up = FALSE /\ disk \in Files
  /\ sessions = Empty /\ stored = Empty /\ records = Empty /\ profiles = Empty
  /\ notes = [f \in Frontends |-> <<>>]
  /\ dirty = FALSE
  /\ own = [f \in Frontends |-> Blank]
  /\ ops = 0 /\ failures = 0 /\ restarts = 0

\* Open; the rewritten sessions are stored again (syncPersistentSessionLocked) and a
\* file that cannot be rewritten stops the start
Open(order) ==
  /\ ~up
  /\ LET loaded == [k \in DOMAIN disk.sessions |-> Persist(disk.sessions[k])]
         moved == Canonicalized(loaded, order)
         rec == Rekeyed(disk.records)
         changed == \/ \E k \in DOMAIN loaded : Canonical(k, Blank) # k
                    \/ rec # disk.records
         now == IF changed THEN moved ELSE loaded
         kept == [k \in DOMAIN now |-> Persist(now[k])]
     IN  /\ up' = TRUE /\ sessions' = now /\ stored' = kept
         /\ records' = rec /\ profiles' = disk.profiles /\ notes' = disk.notes
         /\ disk' = Snapshot(kept, rec, disk.profiles, disk.notes)
  /\ dirty' = FALSE
  /\ UNCHANGED <<own, ops, failures, restarts>>

\* the process ends at any time, also between two operations of a caller
Crash ==
  /\ up /\ restarts < MaxRestarts
  /\ up' = FALSE /\ restarts' = restarts + 1
  /\ sessions' = Empty /\ stored' = Empty /\ records' = Empty /\ profiles' = Empty
  /\ notes' = [f \in Frontends |-> <<>>]
  /\ own' = IF dirty THEN [f \in Frontends |-> Blank] ELSE own
  /\ dirty' = FALSE
  /\ UNCHANGED <<disk, ops, failures>>
-----------------------------------------------------------------------------
(* Sessions.                                                               *)

\* StoreBackendThread
StoreBackendThread(s, b) ==
  [s EXCEPT !.backends = IF s.thread = Blank THEN Without(@, {b}) ELSE Extend(@, b, s.thread)]

Now(s) == [s EXCEPT !.at = ops + 2]

\* What callers change: a thread or its name, a setting, the turn.
Changed(s) ==
  {[s EXCEPT !.thread = v] : v \in Maybe} \cup {[s EXCEPT !.name = v, !.plan = v] : v \in Values}
  \cup {[s EXCEPT !.turn = v] : v \in Maybe}

\* SaveSession of the scope, and UpsertSession
UpsertSession(k, b) ==
  /\ Op
  /\ LET old == IF k \in DOMAIN sessions THEN sessions[k] ELSE NewSession
     IN  \E s \in Changed(old) : SaveSessionAs(k, Now(StoreBackendThread(s, b)))
  /\ UNCHANGED own

\* Mutant of RolledBack: the stored session keeps the change.
RolledBackInRuntime(k, s) == Extend(stored, k, Persist(s))

RolledBack(k, s) == stored

\* UpdateSession: a failed save is taken back
UpdateSession(k, b) ==
  /\ Op /\ k \in DOMAIN sessions
  /\ \E c \in Changed(sessions[k]) :
       LET s == Now(StoreBackendThread(c, b))
           st == Extend(stored, k, Persist(s))
       IN  \/ /\ sessions' = Extend(sessions, k, s) /\ stored' = st
              /\ disk' = Snapshot(st, records, profiles, notes) /\ dirty' = FALSE
              /\ UNCHANGED failures
           \/ /\ Fails /\ stored' = RolledBack(k, s)
              /\ UNCHANGED <<sessions, disk, dirty>>
  /\ UNCHANGED <<records, profiles, notes, own>>

\* CommitBackendSessions: the sessions of a frontend lose their threads; a
\* failed write of the configuration takes back the file as well
CommitBackendSessions(f) ==
  LET K == {k \in DOMAIN sessions : k.f = f}
      next == [k \in DOMAIN sessions |->
                 IF k \in K THEN Now([sessions[k] EXCEPT !.thread = Blank]) ELSE sessions[k]]
      st == [k \in DOMAIN stored |-> IF k \in K THEN Persist(next[k]) ELSE stored[k]]
  IN  /\ Op /\ K # {}
      /\ \/ /\ sessions' = next /\ stored' = st
            /\ disk' = Snapshot(st, records, profiles, notes) /\ dirty' = FALSE
            /\ UNCHANGED failures
         \/ Fails /\ UNCHANGED <<sessions, stored, disk, dirty>>
         \/ /\ Fails /\ disk' = Snapshot(stored, records, profiles, notes)
            /\ dirty' = FALSE /\ UNCHANGED <<sessions, stored>>
      /\ UNCHANGED <<records, profiles, notes, own>>

\* ensureSessionLocked
Ensured(k) == IF k \in DOMAIN sessions THEN sessions[k]
              ELSE IF k \in DOMAIN stored THEN stored[k] ELSE NewSession

QueueSubmission(k) ==
  /\ Op
  /\ LET s == Ensured(k) IN SaveSessionAs(k, Now([s EXCEPT !.queue = Append(@, ops)]))
  /\ UNCHANGED own

\* an empty queue leaves the ensured session unsaved
DequeueSubmission(k) ==
  /\ Op
  /\ LET s == Ensured(k)
     IN  IF s.queue = <<>>
         THEN /\ sessions' = Extend(sessions, k, s) /\ stored' = Extend(stored, k, Persist(s))
              /\ UNCHANGED <<records, profiles, notes, disk, dirty, failures>>
         ELSE SaveSessionAs(k, Now([s EXCEPT !.queue = Tail(@)]))
  /\ UNCHANGED own
-----------------------------------------------------------------------------
(* Records of a chat and profiles of a frontend.                           *)
RecordID(f, chat) == <<Sanitized[f], chat>>

\* UpsertScopedAgentBinding, UpsertGroupAnnouncementBlock: one for each chat
UpsertRecord(f, chat, v) ==
  LET id == RecordID(f, chat)
      taken == \E x \in DOMAIN records : x # id /\ records[x].f = f /\ records[x].chat = chat
  IN  /\ Op
      /\ IF taken THEN UNCHANGED <<stored, records, profiles, notes, disk, dirty, failures>>
         ELSE Save(stored, Extend(records, id, [f |-> f, chat |-> chat, value |-> v,
                     waiting |-> IF id \in DOMAIN records THEN records[id].waiting ELSE <<>>]),
                   profiles, notes)
      /\ UNCHANGED <<sessions, own>>

DeleteRecord(f, id) ==
  /\ Op /\ id \in DOMAIN records /\ records[id].f = f
  /\ Save(stored, Without(records, {id}), profiles, notes)
  /\ UNCHANGED <<sessions, own>>

\* UpsertBotProfile: the other profiles of the frontend go
UpsertProfile(f, v) ==
  LET id == Sanitized[f]
      others == {x \in DOMAIN profiles : x # id /\ profiles[x].f = f}
  IN  /\ Op
      /\ Save(stored, records, Extend(Without(profiles, others), id, [f |-> f, value |-> v]), notes)
      /\ own' = [own EXCEPT ![f] = v]
      /\ UNCHANGED sessions

\* DeleteBotProfile
DeleteProfile(f) ==
  LET mine == {x \in DOMAIN profiles : profiles[x].f = f}
  IN  /\ Op /\ mine # {}
      /\ Save(stored, records, Without(profiles, mine), notes)
      /\ own' = [own EXCEPT ![f] = Blank]
      /\ UNCHANGED sessions
-----------------------------------------------------------------------------
(* Notifications: a note replaces an earlier one of its key.               *)
Collapsed(list, note) ==
  LET same == {i \in DOMAIN list : list[i].key = note.key}
  IN  IF same = {} THEN Append(list, note)
      ELSE [list EXCEPT ![CHOOSE i \in same : \A j \in same : i <= j] = note]

\* AppendFrontendCardNotification: an equal note changes nothing
QueueNote(f, note) ==
  /\ Op
  /\ IF note \in Range(notes[f])
     THEN UNCHANGED <<stored, records, profiles, notes, disk, dirty, failures>>
     ELSE Save(stored, records, profiles, [notes EXCEPT ![f] = Collapsed(@, note)])
  /\ UNCHANGED <<sessions, own>>

\* DeleteFrontendCardNotificationsByCollapseKey
ClearNotes(f, key) ==
  /\ Op /\ \E i \in DOMAIN notes[f] : notes[f][i].key = key
  /\ Save(stored, records, profiles, [notes EXCEPT ![f] = SelectSeq(@, LAMBDA n : n.key # key)])
  /\ UNCHANGED <<sessions, own>>

\* DrainFrontendCardNotifications and the deliveries of Flush: a note that
\* cannot be delivered is queued again
FlushNotes(f, undelivered) ==
  /\ Op /\ notes[f] # <<>>
  /\ Save(stored, records, profiles,
          [notes EXCEPT ![f] = SelectSeq(@, LAMBDA n : n \in undelivered)])
  /\ UNCHANGED <<sessions, own>>

SessionKeys == {Key(f, chat, Blank) : f \in Frontends, chat \in Chats}

StoreNext ==
  \/ \E order \in Orders(DOMAIN disk.sessions) : Open(order)
  \/ Crash
  \/ \E k \in SessionKeys, b \in Backends : UpsertSession(k, b) \/ UpdateSession(k, b)
  \/ \E f \in Frontends : CommitBackendSessions(f)
  \/ \E k \in SessionKeys : QueueSubmission(k) \/ DequeueSubmission(k)
  \/ \E f \in Frontends, chat \in Chats, v \in Values : UpsertRecord(f, chat, v)
  \/ \E f \in Frontends, id \in DOMAIN records : DeleteRecord(f, id)
  \/ \E f \in Frontends, v \in Values : UpsertProfile(f, v)
  \/ \E f \in Frontends : DeleteProfile(f)
  \/ \E f \in Frontends, key \in {"a", "b"}, v \in Values :
       QueueNote(f, [key |-> key, body |-> v]) \/ ClearNotes(f, key)
  \/ \E f \in Frontends : \E undelivered \in SUBSET Range(notes[f]) : FlushNotes(f, undelivered)

StoreSpec == StoreInit /\ [][StoreNext]_storeVars
-----------------------------------------------------------------------------
\* Unless the last save failed, a restart would find what the program works
\* with: every change reaches the stored copy of its session and the file, and
\* what UpdateSession or a commit took back is in neither.  A session that was
\* only asked for its queue may be missing.
FileFollowsMemory ==
  LET kept(st) == {k \in DOMAIN st : ~IsBlank(st[k])}
  IN  up =>
      /\ \A k \in kept(sessions) : k \in DOMAIN stored /\ stored[k] = Persist(sessions[k])
      /\ ~dirty =>
           /\ kept(disk.sessions) = kept(stored)
           /\ \A k \in kept(stored) : disk.sessions[k] = stored[k]
           /\ [disk EXCEPT !.sessions = stored] = Snapshot(stored, records, profiles, notes)

\* The session that takes the place of k and of all that share its chat keeps the
\* thread and the name of the newest of them and every backend thread; what the
\* newest lacks comes from an older one.
KeepsWork(k) ==
  LET ck == Canonical(k, Blank)
      old == {disk.sessions[x] : x \in {y \in DOMAIN disk.sessions : Canonical(y, Blank) = ck}}
      newest == {s \in old : \A t \in old : t.at <= s.at}
      keeps(now, value(_)) ==
        \/ now \in {value(s) : s \in newest} \ {Blank}
        \/ /\ Blank \in {value(s) : s \in newest}
           /\ \/ now \in {value(s) : s \in old} \ {Blank}
              \/ {value(s) : s \in old} = {Blank}
  IN  /\ ck \in DOMAIN sessions'
      /\ keeps(sessions'[ck].thread, LAMBDA s : s.thread)
      /\ keeps(sessions'[ck].name, LAMBDA s : s.name)
      /\ DOMAIN sessions'[ck].backends = UNION {DOMAIN s.backends : s \in old}

\* The rewriting of old session keys loses no work of any chat, whatever the order
\* in which its sessions are met (CanonicalizeSessionKeys, mergeSessions).
MigrationKeepsWork ==
  [][~up /\ up' => \A k \in DOMAIN disk.sessions : KeepsWork(k)]_storeVars

\* "SaveBotProfile persists a profile in the current frontend scope"
\* (scoped/agent_binding.go:23): a frontend reads the profile it saved last.
ProfileOwned ==
  up => \A f \in Frontends :
          own[f] # Blank => \E id \in DOMAIN profiles : profiles[id] = [f |-> f, value |-> own[f]]
=============================================================================

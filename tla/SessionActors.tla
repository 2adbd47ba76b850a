---------------------------- MODULE SessionActors ----------------------------
(***************************************************************************)
(* runtime.SessionActors (src/internal/runtime/session_actors.go): a map   *)
(* of mutexes, one entry per session key in use.  An entry is created by   *)
(* the first task that asks for the key and deleted by the last one that   *)
(* leaves, so a task must never wait on an entry that has been deleted     *)
(* while another task gets a fresh entry for the same key.                 *)
(*                                                                         *)
(* An entry is a pointer; the allocator returns one that nothing refers    *)
(* to.  The critical sections of a.mu are single steps.                    *)
(***************************************************************************)
EXTENDS Naturals, FiniteSets

CONSTANTS
  Tasks,    \* goroutines that call Run
  Keys,     \* actor keys
  Entries,  \* bound: lock entries that exist at a time
  None

ASSUME ActorsAssumption ==
  IsFiniteSet(Tasks) /\ None \notin Tasks \cup Keys \cup Entries

VARIABLES
  pc,     \* per task: "out", "wait" (for entry.mu), "run" (inside fn), "leave"
  key,    \* the key of the task's Run
  entry,  \* the entry the task got from the map
  locks,  \* the map: key -> entry, None if absent
  refs,   \* entry.refs
  holder  \* entry.mu: the task that holds it, None if unlocked

vars == <<pc, key, entry, locks, refs, holder>>

Init ==
  /\ pc = [t \in Tasks |-> "out"]
  /\ key = [t \in Tasks |-> None]
  /\ entry = [t \in Tasks |-> None]
  /\ locks = [k \in Keys |-> None]
  /\ refs = [e \in Entries |-> 0]
  /\ holder = [e \in Entries |-> None]

\* The tasks that hold a pointer to entry e
Users(e) == {t \in Tasks : entry[t] = e}

Reachable(e) == Users(e) # {} \/ \E k \in Keys : locks[k] = e

\* Run, first critical section, the key has an entry
Join(t, k) ==
  /\ pc[t] = "out" /\ locks[k] # None
  /\ pc' = [pc EXCEPT ![t] = "wait"]
  /\ key' = [key EXCEPT ![t] = k]
  /\ entry' = [entry EXCEPT ![t] = locks[k]]
  /\ refs' = [refs EXCEPT ![locks[k]] = @ + 1]
  /\ UNCHANGED <<locks, holder>>

\* Run, first critical section, the key has none: a new entry with one reference
Create(t, k, e) ==
  /\ pc[t] = "out" /\ locks[k] = None /\ ~Reachable(e)
  /\ pc' = [pc EXCEPT ![t] = "wait"]
  /\ key' = [key EXCEPT ![t] = k]
  /\ entry' = [entry EXCEPT ![t] = e]
  /\ locks' = [locks EXCEPT ![k] = e]
  /\ refs' = [refs EXCEPT ![e] = 1]
  /\ holder' = [holder EXCEPT ![e] = None]

\* entry.mu.Lock(), then fn runs
Lock(t) ==
  /\ pc[t] = "wait" /\ holder[entry[t]] = None
  /\ pc' = [pc EXCEPT ![t] = "run"]
  /\ holder' = [holder EXCEPT ![entry[t]] = t]
  /\ UNCHANGED <<key, entry, locks, refs>>

\* Mutant of Unlock: the deferred function only counts down
UnlockForgotten(t) ==
  /\ pc[t] = "run"
  /\ pc' = [pc EXCEPT ![t] = "leave"]
  /\ UNCHANGED <<key, entry, locks, refs, holder>>

\* fn has returned or panicked: entry.mu.Unlock() in the deferred function
Unlock(t) ==
  /\ pc[t] = "run"
  /\ pc' = [pc EXCEPT ![t] = "leave"]
  /\ holder' = [holder EXCEPT ![entry[t]] = None]
  /\ UNCHANGED <<key, entry, locks, refs>>

\* Mutant of Leave: the entry is deleted although tasks still wait on it
LeaveAlwaysDeletes(t) ==
  /\ pc[t] = "leave"
  /\ pc' = [pc EXCEPT ![t] = "out"]
  /\ refs' = [refs EXCEPT ![entry[t]] = @ - 1]
  /\ locks' = [locks EXCEPT ![key[t]] = None]
  /\ key' = [key EXCEPT ![t] = None]
  /\ entry' = [entry EXCEPT ![t] = None]
  /\ UNCHANGED holder

\* Mutant of Leave: the entry stays in the map
LeaveNeverDeletes(t) ==
  /\ pc[t] = "leave"
  /\ pc' = [pc EXCEPT ![t] = "out"]
  /\ refs' = [refs EXCEPT ![entry[t]] = @ - 1]
  /\ key' = [key EXCEPT ![t] = None]
  /\ entry' = [entry EXCEPT ![t] = None]
  /\ UNCHANGED <<locks, holder>>

\* Run, second critical section: the last task out deletes the entry
Leave(t) ==
  /\ pc[t] = "leave"
  /\ pc' = [pc EXCEPT ![t] = "out"]
  /\ refs' = [refs EXCEPT ![entry[t]] = @ - 1]
  /\ locks' = IF refs[entry[t]] = 1 THEN [locks EXCEPT ![key[t]] = None]
              ELSE locks
  /\ key' = [key EXCEPT ![t] = None]
  /\ entry' = [entry EXCEPT ![t] = None]
  /\ UNCHANGED holder

Enter(t) == \E k \in Keys : Join(t, k) \/ \E e \in Entries : Create(t, k, e)

Next == \E t \in Tasks : Enter(t) \/ Lock(t) \/ Unlock(t) \/ Leave(t)

Spec == Init /\ [][Next]_vars

\* A task inside Run goes on; the mutex is given to every waiter in the end.
FairSpec == /\ Spec
            /\ \A t \in Tasks : WF_vars(Unlock(t)) /\ WF_vars(Leave(t))
            /\ \A t \in Tasks : SF_vars(Lock(t))
-----------------------------------------------------------------------------
(* Properties.                                                             *)

\* Types; the map and the tasks refer to allocated entries only.
TypeOK ==
  /\ pc \in [Tasks -> {"out", "wait", "run", "leave"}]
  /\ key \in [Tasks -> Keys \cup {None}]
  /\ entry \in [Tasks -> Entries \cup {None}]
  /\ locks \in [Keys -> Entries \cup {None}]
  /\ refs \in [Entries -> Nat]
  /\ holder \in [Entries -> Tasks \cup {None}]

\* A task is inside Run exactly while it has a key and an entry.
Inside ==
  \A t \in Tasks : /\ (pc[t] = "out") <=> (entry[t] = None)
                   /\ (pc[t] = "out") <=> (key[t] = None)

\* Every task inside Run refers to the entry the map has for its key: nobody
\* waits on an entry that was deleted and replaced (Run, delete(a.locks, key)).
SameEntry == \A t \in Tasks : pc[t] # "out" => locks[key[t]] = entry[t]

\* Two keys never share an entry.
OwnEntry == \A k, l \in Keys : locks[k] = locks[l] /\ locks[k] # None => k = l

\* entry.refs counts the tasks that refer to the entry.
RefsCount == \A e \in Entries : Reachable(e) => refs[e] = Cardinality(Users(e))

\* An entry in the map is in use: keys do not accumulate in the map.
NoLeak == \A k \in Keys : locks[k] # None => \E t \in Tasks : entry[t] = locks[k]

\* A task runs fn exactly while it holds the mutex of its entry.
Held == \A t \in Tasks, e \in Entries :
          Reachable(e) => ((holder[e] = t) <=> (pc[t] = "run" /\ entry[t] = e))

\* The inductive invariant
ActorInv == /\ TypeOK /\ Inside /\ SameEntry /\ OwnEntry /\ RefsCount /\ NoLeak
            /\ Held

\* Tasks of the same key never run at the same time (the purpose of Run).
Exclusive == \A t, u \in Tasks :
               pc[t] = "run" /\ pc[u] = "run" /\ key[t] = key[u] => t = u

\* Every task that calls Run gets to run, if the tasks before it return.
EveryTaskRuns == \A t \in Tasks : (pc[t] = "wait") ~> (pc[t] = "run")

\* The task that runs under key k
Owner(k) == IF \E t \in Tasks : pc[t] = "run" /\ key[t] = k
            THEN CHOOSE t \in Tasks : pc[t] = "run" /\ key[t] = k ELSE None

Mutex == INSTANCE KeyedMutex WITH
  want <- [t \in Tasks |-> IF pc[t] \in {"wait", "run"} THEN key[t] ELSE None],
  owner <- [k \in Keys |-> Owner(k)]

\* The map of counted mutexes implements the keyed mutex of KeyedMutex.
ImplementsMutex == Mutex!Spec
=============================================================================

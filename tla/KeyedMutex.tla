------------------------------ MODULE KeyedMutex ------------------------------
(* What SessionActors promises: tasks of one key run one at a time, tasks of  *)
(* different keys independently.                                             *)
CONSTANTS Tasks, Keys, None

VARIABLES
  want,   \* the key task t wants or runs under, None outside Run
  owner   \* the task that runs under key k, None if no task does

abstractVars == <<want, owner>>

Init == want = [t \in Tasks |-> None] /\ owner = [k \in Keys |-> None]

Request(t, k) ==
  /\ want[t] = None
  /\ want' = [want EXCEPT ![t] = k]
  /\ UNCHANGED owner

Grant(t, k) ==
  /\ want[t] = k /\ owner[k] = None
  /\ owner' = [owner EXCEPT ![k] = t]
  /\ UNCHANGED want

Release(t, k) ==
  /\ want[t] = k /\ owner[k] = t
  /\ owner' = [owner EXCEPT ![k] = None]
  /\ want' = [want EXCEPT ![t] = None]

Next == \E t \in Tasks, k \in Keys : Request(t, k) \/ Grant(t, k) \/ Release(t, k)

Spec == Init /\ [][Next]_abstractVars
=============================================================================

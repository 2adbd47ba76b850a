--------------------------- MODULE MCCodexClient ---------------------------
(* Instance of CodexClient for TLC.  Either the server emits its events, or *)
(* one more goroutine uses the client.                                      *)
EXTENDS CodexClient

CONSTANT Free  \* the call that the other goroutine makes

VARIABLE scenario

MCInit == Init /\ scenario \in {"events", "calls"}

MCNext ==
  /\ Next
  /\ scenario = "events" => call'[Free] = "idle"
  /\ scenario = "calls" => emitted' = 0
  /\ UNCHANGED scenario

MCSpec == MCInit /\ [][MCNext]_<<vars, scenario>> /\ Fairness
=============================================================================

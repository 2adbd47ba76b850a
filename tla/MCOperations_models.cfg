SPECIFICATION MCSpec
CONSTANTS
  Tasks = {t1, t2, t3}
  Keys = {k1, k2}
  Entries = {e1, e2, e3}
  None = None
  MaxTurns = 4
  MaxInputs = 2
  MaxStops = 2
  MaxToggles = 1
  MaxThreads = 2
  MaxTimers = 4
  Steering = FALSE
  Anywhere = FALSE
  Frontends = {"f", "g"}
  Chats = {"c"}
  Values = {"x", "y"}
  Backends = {"codex"}
  Sanitized <- OneID
  Files <- StateFiles
  MaxOps = 3
  MaxFailures = 1
  MaxRestarts = 1
  Calls = {1, 2, 3, 4}
  Kind <- ReactionCalls
  Target <- OneMessage
  Interval = 2
  IdleTTL = 4
  SweepInterval = 1
  MaxTime = 0
  MaxRotations = 1
  MaxTimeouts = 1
  Callers = {1, 2, 3}
  SessionOf <- SessionsOfCallers
  Keyed = {3}
  Args = {"f", "g"}
  MaxCalls = 2
  Jobs = {"text", "file", "mixed"}
  TextOf <- Texts
  Downloads = {"file"}
  SizeOf <- Local
  Viewers <- Sharing
  Retention = 0
  MaxDays = 1
  MaxFaults = 2
  MaxReboots = 1
  MaxRoots = 2
CHECK_DEADLOCK FALSE
INVARIANT SettingPersists

SPECIFICATION MCSpec
CONSTANTS
  MaxClients = 3
  MaxRestarts = 1
  MaxSwitches = 1
  MaxMessages = 1
  MaxDeaths = 2
  r1 = r1
  r2 = r2
  Mode = "progress"
  MaxItems = 2
  MaxPosts = 6
  MaxRequests = 1
  MaxFailures = 1
  Requests = {r1, r2}
  MaxTurns = 2
  MaxPresses = 1
  MaxRepeats = 1
  MaxSendErrors = 1
CHECK_DEADLOCK FALSE
INVARIANTS
  DeferredWorkHasResumer
  DeadClientRemoved
  ProgressBelowRequest
  SplitFaithful
  RepliesSatisfySchema
  AnswersMatchCard
PROPERTIES
  NeverReopened
  FailureIsAtomic

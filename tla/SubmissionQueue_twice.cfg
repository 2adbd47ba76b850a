SPECIFICATION Spec
CONSTANTS
  Sessions = {"a"}
  Serial = FALSE
  MaxSubs = 3
  MaxFailures = 0
  ChatInputs = TRUE
  ActorInputs = FALSE
  Reconciles = FALSE
CHECK_DEADLOCK FALSE
INVARIANT StartedOnce

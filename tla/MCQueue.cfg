SPECIFICATION MCSpec
CONSTANTS
  Sessions = {"a", "b"}
  Serial = FALSE
  MaxSubs = 3
  MaxFailures = 1
  ChatInputs = FALSE
  ActorInputs = TRUE
  Reconciles = FALSE
  r1 = r1
  r2 = r2
CHECK_DEADLOCK FALSE
INVARIANTS
  StartedOnce
  
  
  ThreadSettles
PROPERTIES
  
  AnswersResume

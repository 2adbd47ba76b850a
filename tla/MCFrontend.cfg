SPECIFICATION MCSpec
CONSTANTS
  Bots = {1, 2}
  Messages <- ToTwo
  CreatedAt <- Numbers
  Configured = {1, 2}
  MaxCopies = 1
  MaxUnknown = 1
  MaxErrors = 1
  DedupCap = 9
  Private = {"a"}
  Groups = {"g"}
  Initial = {1, 2}
  Fresh = {3}
  MaxInputs = 1
  MaxChanges = 3
  MaxFailures = 1
  Kind = "clone"
  InGroup = FALSE
  Targets = {1, 2}
  MaxClicks = 3
  MaxWorkers = 2
  MaxFaults = 1
  MaxRestarts = 1
CHECK_DEADLOCK FALSE
INVARIANTS
  NewestWins
  
  OwnCompletion
  ForwardsExpanded
PROPERTIES
  
  ResultIsTrue

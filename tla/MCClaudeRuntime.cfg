SPECIFICATION MCSpec
CONSTANTS
  Reqs = {"r1"}
  Permissions = {"r1"}
  MaxProcs = 2
  Subs = {1, 2}
  Settings <- PlainHotCold
  MaxLaunches = 2
  MaxSends = 4
  MaxChanges = 2
  MaxDeaths = 0
  MaxStops = 0
  Requests = {1}
  Version <- Now
  Releases <- Published
  MaxConfirms = 2
  Faults = {"inspect", "launch", "reply", "save", "stage", "activate", "start"}
  MaxFaults = 1
  MaxCrashes = 1
CHECK_DEADLOCK FALSE
INVARIANTS
  SubmittedIsReturned
  
  
PROPERTIES
  PromptUsesSettings
  UpgradeSettles

SPECIFICATION MCSpec
CONSTANTS
  Ctls = {}
  Asks = {}
  MaxTurns = 2
  MaxSteers = 1
  Chatter = {"start", "tool", "text", "long"}
  MaxChatter = 1
  EventBuffer = 1
CHECK_DEADLOCK FALSE
INVARIANTS
  NoSendOnClosed
  OwnResult
PROPERTIES
  EveryTurnEnds
  NothingOutlives

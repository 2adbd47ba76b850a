SPECIFICATION MCSpec
CONSTANTS
  RPCs = {init, cb1}
  Sends = {inited, note}
  Free = note
  InitRPC = init
  InitSend = inited
  CallbackRPCs = {cb1}
  NoCall = NoCall
  QueueCap = 1
  MaxEvents = 2
INVARIANT NoOrphanedCall
PROPERTIES WireOrder CallsReleased
CHECK_DEADLOCK FALSE

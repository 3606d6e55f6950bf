CONSTANTS
  QueueLen = 1
  MaxCalls = 3
  MaxPushes = 2
  MaxPings = 1
  LinkMayFail = TRUE
SPECIFICATION Spec
INVARIANTS TypeOK
PROPERTIES LoopsEndTogether CallsReturn OpenUntilDisconnect
CHECK_DEADLOCK FALSE

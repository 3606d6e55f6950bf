CONSTANTS
  c1 = c1
  c2 = c2
  Conns = {c1, c2}
  Configs <- AllFiles
  ListenMayFail = TRUE
  MaxMsgs = 1
SPECIFICATION Spec
INVARIANTS SnapshotSane ReportedOnce AbortsBounded
PROPERTIES EveryPacketCounted StartsOrEnds
CHECK_DEADLOCK FALSE

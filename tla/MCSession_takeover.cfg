SPECIFICATION SessionSpec
CONSTANTS
  c1 = c1
  c2 = c2
  c3 = c3
  i1 = i1
  Conns = {c1, c2}
  NoConn = NoConn
  Ids = {i1}
  NoId = NoId
  IdsOf <- SharedIds
  UserOf <- OneUserPerId
  NoUser = NoUser
  QueueLen = 2
  MaxConnections = 1
  Overflow = "discard"
  EnablePresence = TRUE
  Orderly = FALSE
  RequestsOf <- Pinging
  KeepAlives <- Flags
  MaxStored = 0
  WriteMayFail = TRUE
  RedisMayFail = FALSE
INVARIANTS ConnectionLimit EvictionFinal PresentHasSession AbsentWasTakenOver ReceiptKept
CHECK_DEADLOCK FALSE
SYMMETRY Symmetry

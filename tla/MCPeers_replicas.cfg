CONSTANTS
  p1 = p1
  p2 = p2
  none = none
  c1 = c1
  c2 = c2
  Peers = {p1, p2}
  NoPeer = none
  Clients = {c1}
  MaxMsgs = 3
  QueueLen = 2
  PostsLen = 1
  Overflow = "discard"
  Started = {p1}
  LinkMayFail = TRUE
SPECIFICATION Spec
INVARIANTS TypeOK ReplicaInOrder
PROPERTIES QueuedArrives
CHECK_DEADLOCK FALSE

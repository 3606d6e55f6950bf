SPECIFICATION Spec
CONSTANTS
  c1 = c1
  c2 = c2
  i1 = i1
  w1 = w1
  w2 = w2
  i2 = i2
  Conns = {c1}
  NoConn = NoConn
  Ids = {i1, i2}
  NoId = NoId
  IdsOf <- OwnIds
  UserOf <- OneUserPerId
  NoUser = NoUser
  QueueLen = 1
  MaxConnections = 0
  Overflow = "discard"
  EnablePresence = FALSE
  Orderly = TRUE
  RequestsOf <- Both
  KeepAlives <- Flags
  MaxStored = 1
  WriteMayFail = TRUE
  RedisMayFail = FALSE
  Workers = {w1}
  PostsLen = 1
  MaxSubscriptions = 1
  PostKinds = {"plain", "retain"}
  MaxTopics = 1
  MaxSlots = 2
  MaxUnsub = 0
INVARIANT RegistryExact
PROPERTIES StopDisconnects Teardown WorkerFinishes
CHECK_DEADLOCK FALSE

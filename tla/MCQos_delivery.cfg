CONSTANTS
  c1 = c1
  c2 = c2
  c3 = c3
  m1 = m1
  m2 = m2
  m3 = m3
  m4 = m4
  none = none
  Clients = {c1, c2}
  Msgs = {m1, m3}
  NoMsg = none
  FromOf <- Publishers
  MidOf <- Ids
  Followed = {m1, m3}
  Subscribers = {c2}
  Clean = {TRUE, FALSE}
  QueueLen = 1
  Overflow = "block"
  MaxSessions = 2
SPECIFICATION Spec
INVARIANTS TypeOK ConfirmedIsSubmitted OutboundIsKept
PROPERTIES StoredIsDelivered
CHECK_DEADLOCK FALSE

CONSTANTS
  c1 = c1
  c2 = c2
  w1 = w1
  w2 = w2
  Clients = {c1}
  Nil = Nil
  Workers = {w1, w2}
  Words = {"a", "b"}
  Mixed = {}
  Filters <- TopicAndBad
  Published <- OneTopic
  Kinds = {"plain", "retain", "clear"}
  PostsLen = 2
  MaxSubscribes = 2
  MaxMessages = 3
SPECIFICATION Spec
SYMMETRY Symmetry
INVARIANTS TypeOK OvertakesFew RetainedIsRecent
CHECK_DEADLOCK FALSE

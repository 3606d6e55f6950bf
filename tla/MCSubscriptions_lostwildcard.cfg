CONSTANTS
  c1 = c1
  c2 = c2
  w1 = w1
  w2 = w2
  Clients = {c1, c2}
  Nil = Nil
  Workers = {w1}
  Words = {"a", "b"}
  Mixed = {}
  Filters <- TopicAndPlus
  Published <- OneTopic
  Kinds = {"plain"}
  PostsLen = 1
  MaxSubscribes = 5
  MaxMessages = 1
SPECIFICATION Spec
SYMMETRY Symmetry
INVARIANTS WildcardDelivered
CHECK_DEADLOCK FALSE

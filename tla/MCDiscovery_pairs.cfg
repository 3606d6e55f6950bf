CONSTANTS
  n1 = n1
  n2 = n2
  n3 = n3
  n4 = n4
  Nodes = {n1, n2, n3, n4}
  EtcdMayFail = TRUE
  MaxCrashes = 3
SPECIFICATION Spec
SYMMETRY Symmetry
INVARIANTS PairsIntroduced JoinsUnlessFault
PROPERTIES JoinsInformed
CHECK_DEADLOCK FALSE

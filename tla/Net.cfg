SPECIFICATION FairSpec
CONSTANTS
  Addrs = {"a"}
  Threads = {"t1", "t2"}
  Does <- MCDoes
  MaxNodes = 1
  MaxLost = 1
  MaxOutbound = 2
  MaxInbound = 1
INVARIANTS ReferencesExact ResourcesAccounted
PROPERTIES DisconnectedIsDeleted ClosedLeaves

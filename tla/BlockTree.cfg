SPECIFICATION Spec
CONSTANTS
  Blocks = {"a1", "a2", "a3", "b2", "c1", "c2"}
  Genesis = "g"
  Prev <- MCPrev
  Height <- MCHeight
  Work <- MCWork
  Bad = {"a3"}
  BadContext = {"b2"}
  Checkpoints = {"a1"}
  Orders <- MCOrders
  Reprocess = 0
  RpcBlocks = {"a1", "a2"}
  MaxOps = 2
  None = "none"
CHECK_DEADLOCK FALSE
  
PROPERTIES WorkNeverDrops ActivationEnds

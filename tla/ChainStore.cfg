SPECIFICATION Spec
CONSTANTS
  Blocks = {"a1", "a2", "a3", "b1"}
  Genesis = "g"
  Prev <- MCPrev
  Height <- MCHeight
  Addr <- MCAddr
  Refusable = {"b1"}
  MaxDowns = 2
CHECK_DEADLOCK FALSE
INVARIANTS  CoinsBackedByIndex MemoryConsistent RecoveryIsSound

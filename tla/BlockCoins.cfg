SPECIFICATION Spec
CONSTANTS
  Chosen = {"b1", "b2", "b3", "b4", "b5", "x3", "c2", "c3", "c4", "k4", "k5", "j5", "s5", "s6"}
  Blocks <- Chosen
  Genesis = "g"
  Prev <- MCPrev
  Height <- MCHeight
  Txids <- MCTxids
  Vtx <- MCVtx
  Maturity = 1
  MaxReorg = 2
INVARIANTS CoinsAreReplayed TipCanBeDisconnected StakesFollowChain

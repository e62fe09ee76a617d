SPECIFICATION PoolSpec
CONSTANTS
  Loose = {"t1", "t2", "t3", "u1", "m1", "n2", "x2"}
  Blocks = {"b1", "b2", "b3", "d2", "d3"}
  Genesis = "g"
  Prev <- MCPrev
  Height <- MCHeight
  Vtx <- MCVtx
  Vin <- MCVin
  Outputs <- MCOutputs
  Bad = {"x2"}
  Peers = {"p", "q"}
  Maturity = 2
  MaxOrphans = 2
INVARIANT NoDoubleSpends

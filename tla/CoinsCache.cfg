SPECIFICATION Spec
CONSTANTS
  t1 = t1
  t2 = t2
  one = one
  both = both
  Txids <- MCTxids
  Live <- MCLive
  Pruned = Pruned
  Absent = Absent
  Blocks = {b1, b2}
  NoBlock = NoBlock
INVARIANTS FlagsTruthful FlushAssertionHolds
PROPERTY ImplementsUtxoViews

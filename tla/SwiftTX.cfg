SPECIFICATION SwiftSpec
CONSTANTS
  t1 = t1
  t2 = t2
  m1 = m1
  Txs = {t1, t2}
  Vin <- MCVin
  Signers = {m1}
  VoteHeights <- MCVoteHeights
  Required = 1
  Lifetime = 2
  Self = m1
  WalletTxs = {t1}
  Nobody = Nobody
CHECK_DEADLOCK FALSE
INVARIANTS SignersDistinct LocksConsistent
PROPERTY LocksEnd

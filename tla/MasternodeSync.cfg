SPECIFICATION FairSpec
CONSTANTS
  NPeers = 1
  Old = {}
  Threshold = 2
  Followed = {"list"}
  MaxResets = 1
INVARIANTS SyncTypeOK SyncedHasItems
PROPERTIES SyncEnds FailedIsRetried

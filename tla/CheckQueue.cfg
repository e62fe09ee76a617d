SPECIFICATION FairQueueSpec
CONSTANTS
  w1 = w1
  w2 = w2
  m = m
  c1 = c1
  c2 = c2
  c3 = c3
  c4 = c4
  Workers <- MCWorkers
  Master = m
  Checks <- MCChecks
  Bad <- MCBad
  BatchSize = 2
INVARIANTS QueueTypeOK TodoCountsOutstanding VerdictCorrect IdleBetweenBlocks
PROPERTY WaitReturns

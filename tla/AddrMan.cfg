SPECIFICATION AddrSpec
CONSTANTS
  Services = {"a1", "a2", "b", "c"}
  Ip <- MCIp
  Sources = {"s", "t", "u"}
  NewBuckets = {1, 2, 3}
  Places = {0}
  TriedSlots <- MCTriedSlots
  NewBucket <- MCNewBucket
  NewPlace <- MCNewPlace
  TriedSlot <- MCTriedSlot
  MaxRefs = 2
  GetAddrPct = 34
  MaxIds = 4
INVARIANTS Check RestartKeepsTables
PROPERTY TriedNotForgotten

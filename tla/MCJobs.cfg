CONSTANTS
  m1 = m1
  m2 = m2
  Messages = {m1, m2}
  MaxAttempts = 2
  Batch = 2
  Slots = 1
  Places = 2
  Creator = Creator
  Troubles = {"crash"}
  MaxClaims = 3
  MaxTrouble = 1
  Jobs = {1, 2, 3, 4}
  Concurrency = 2
  MaxQueue = 1
  MaxCalls = 3
  PoolMax = 2
SPECIFICATION PartsSpec
INVARIANTS SlotsCounted NoLostWakeup KeysPersisted
PROPERTIES QueueFairSpec MessagesEnd SavesEnd
CHECK_DEADLOCK FALSE

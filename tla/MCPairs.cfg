CONSTANTS
  m1 = m1
  m2 = m2
  Messages = {m1}
  MaxAttempts = 1
  Batch = 1
  Concurrency = 1
  MaxQueue = 0
  Creator = Creator
  Troubles = {}
  MaxClaims = 1
  MaxTrouble = 0
  Lines = {l1, l2, l3, l4}
  Calls = {c1, c2}
  Procs = {p1}
  NoCall = NoCall
  Limit = 4
  Turns = 1
  MinGroup = 2
  MaxGroup = 3
  FailLimit = 1
  Attempts = 1
  MaxTimes = 1
SPECIFICATION PairsSpec
PROPERTY PairsAvoided
CHECK_DEADLOCK FALSE

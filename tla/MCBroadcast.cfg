CONSTANTS
  m1 = m1
  m2 = m2
  Messages = {m1, m2}
  MaxAttempts = 2
  Batch = 2
  Concurrency = 2
  MaxQueue = 1
  Creator = Creator
  Troubles = {"crash", "db", "unsure", "slow"}
  MaxClaims = 3
  MaxTrouble = 1
  Lines = {l1, l2}
  Calls = {c1, c2}
  Procs = {p1, p2}
  NoCall = NoCall
  Limit = 2
  Turns = 4
  MinGroup = 2
  MaxGroup = 3
  FailLimit = 1
  Attempts = 1
  MaxTimes = 2
SPECIFICATION PartsSpec
SYMMETRY SymmMessages
INVARIANTS OneWorker DeliveredOnce VerdictIsTrue QuotaKept
PROPERTY OutcomeIsFinal
CHECK_DEADLOCK FALSE

CONSTANTS
  Users = {a1, a2}
  Second = 2
  Page = 1
  MaxNow = 3
  MaxTurns = 2
  MaxTrouble = 1
  MaxMishaps = 1
  MaxTokens = 3
  MaxLogins = 3
  MaxRequests = 2
  MaxCalls = 3
  MaxClicks = 4
  r1 = r1
  r2 = r2
  h1 = h1
  h2 = h2
  v = v
  Replies = {r1, r2}
  Inbox = {h1, h2}
  Variables <- MCVariables
  MaxMoves = 2
  MaxWrites = 2
  MaxTries = 2
  NoReply = NoReply
  NoDraft = NoDraft
  NoList = NoList
  QueueIds = {q1, q2}
  Names = {x}
  Listable = {u}
  MaxSaves = 1
  MaxCallsMade = 5
  MaxFailures = 1
  NoId = NoId
  NoAnswer = NoAnswer
  Failed = Failed
SPECIFICATION PartsSpec
SYMMETRY SymmOffice
INVARIANTS NothingPassedOver AnAdministratorRemains RevocationHolds LogoutSticks AsComposed ListedIsOfTheQueue
CHECK_DEADLOCK FALSE

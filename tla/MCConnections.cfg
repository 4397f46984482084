CONSTANTS
  a1 = a1
  a2 = a2
  s1 = s1
  NoAgent = NoAgent
  p1 = p1
  p2 = p2
  w1 = w1
  w2 = w2
  Sessions = {w1, w2}
  NoSession = NoSession
  PollEvery = 2
  RefreshEvery = 3
  MaxPolls = 2
  MaxTurns = 2
  q1 = q1
  q2 = q2
  l1 = l1
  l2 = l2
  NoQueue = NoQueue
  NoLine = NoLine
  MaxAsked = 2
  MaxChanges = 1
  Queues = {q1, q2}
  Lines = {l1, l2}
  Agents = {a1, a2}
  Supervisors = {s1}
  Procs = {p1, p2}
  FirstLinks <- TwoLinks
  FirstMembers <- ThreeMembers
  FirstRows <- FirstChats
  Threads = {h1, h2}
  NoThread = NoThread
  NoInput = NoInput
  Takes = {k1, k2}
  MaxFiles = 2
  MaxClicks = 6
  n1 = n1
  n2 = n2
  x1 = x1
  Templates = {t1, t2}
  Pictures = {t1}
  Files = {f1}
  Numbers = {n1, n2}
  Sheets = {x1}
  Orders = {o1}
  Lists <- TypedLists
  Listing <- SheetRows
  Fits <- SuitsSheet
  Own = Own
  NoText = NoText
  None = None
  MaxEdits = 3
  MaxSends = 2
SPECIFICATION PartsSpec
SYMMETRY Symm
INVARIANTS CardsAreTrue OrphansAdopted SentWhereComposed CampaignIsAsShown
PROPERTY RightsHeld

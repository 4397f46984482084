CONSTANTS
  NoRow = NoRow
  Ids = {m}
  Handlers = {h1, h2, h3}
  MaxOffers = 2
  MaxAck = 2
  MaxEdit = 2
  PageLen = 1
  OldMsgs = 2
  MaxMsg = 3
  MaxReq = 2
  MaxWire = 2
  MaxLoads = 2
  Chats = {c1, c2}
  Agents = {a1}
  Supervisors = {s1}
  Admins = {s1}
  NoAgent = NoAgent
  Queued = {c1, c2}
  Members = NoAgent
  NoChat = NoChat
  PageSize = 1
  MaxActs = 2
  MaxEvents = 2
SPECIFICATION PlacesSpec
SYMMETRY Symmetry
INVARIANTS NothingLost StatusIsTrue ConversationIsTrue ListIsTrue
PROPERTY LogSpec
CHECK_DEADLOCK FALSE

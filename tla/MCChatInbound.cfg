CONSTANTS
  c1 = c1
  c2 = c2
  a1 = a1
  a2 = a2
  s1 = s1
  s2 = s2
  p1 = p1
  p2 = p2
  NoAgent = NoAgent
  NoProc = NoProc
  Chats = {c1}
  Agents = {a1, a2}
  Supervisors = {s1}
  Admins = {s1}
  Procs = {p1, p2}
  Queued = {c1}
  Members <- MCMembers
  OpNames <- InboundOps
  CacheEnabled = TRUE
SPECIFICATION Spec
SYMMETRY Symm
INVARIANT RowsSound

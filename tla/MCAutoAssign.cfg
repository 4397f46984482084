CONSTANTS
  a1 = a1
  a2 = a2
  c1 = c1
  c2 = c2
  s1 = s1
  s2 = s2
  r1 = r1
  r2 = r2
  Chats = {c1, c2}
  Agents = {a1, a2}
  Members <- Mixed
  Sockets = {s1, s2}
  Owner <- TwoAgents
  Runs = {r1, r2}
  NoRun = NoRun
  NoAgent = NoAgent
  MaxChats = 1
  MaxManual = 1
SPECIFICATION FairSpec
PROPERTIES CyclesDoNotClash CyclesGoOn

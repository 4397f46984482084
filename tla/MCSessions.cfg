CONSTANTS
  p1 = p1
  p2 = p2
  Procs = {p1, p2}
  NoProc = NoProc
  OpNames = {"create", "status", "reset", "reconnect", "disconnect", "delete"}
  MaxCtl = 2
  Ctls = {1, 2}
  MaxRec = 2
  MaxFail = 1
  Limit = 2
  MaxSock = 3
  MaxTrouble = 1
SPECIFICATION LayersSpec
SYMMETRY SymmProcs
INVARIANTS OneController NoSilentDeath RowIsTrue
PROPERTY SocketIsLine
CHECK_DEADLOCK FALSE

SPECIFICATION Spec
CONSTANTS
  c1 = c1
  c2 = c2
  c3 = c3
  Conns = {c1, c2, c3}
  NoFd = NoFd
  Stray = Stray
  MAX_CLIENTS = 3
  SendBuffer = 1
  MaxLines = 2
  MaxSegs = 1
  Faults = {"socket", "bind", "accept", "poll"}
  Garbage = {2, 3}
  Indeterminate = {0, 2, 4, 9}
  StdinCloses = TRUE
SYMMETRY ConnSymmetry
INVARIANTS ClientsCovered ReadNeverBlocks
PROPERTY ImplementsBroadcast
CHECK_DEADLOCK FALSE

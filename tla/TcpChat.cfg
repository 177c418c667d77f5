SPECIFICATION ChatSpec
CONSTANTS
  c1 = c1
  c2 = c2
  Conns = {c1, c2}
  NoFd = NoFd
  Stray = Stray
  MAX_CLIENTS = 3
  SendBuffer = 1
  MaxLines = 2
  MaxSegs = 2
  RecvBuffer = 1
  Typists = {c1}
  Faults = {"accept"}
  Garbage = {2, 3}
  Indeterminate = {2}
  StdinCloses = TRUE
INVARIANT WaitsAreAnswered
PROPERTIES ClientsArePeers ClientsServed LinesReachClients ClientsReturn
CHECK_DEADLOCK FALSE

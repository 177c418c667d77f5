SPECIFICATION FairSpec
CONSTANTS
  c1 = c1
  c2 = c2
  c3 = c3
  Conns = {c1, c2, c3}
  NoFd = NoFd
  MAX_CLIENTS = 4
  TLS_RECORD_SIZE = 2
  MaxLines = 0
  MaxSegs = 1
  Faults = {"accept"}
  StdinCloses = FALSE
PROPERTY PolledClientsServed
CHECK_DEADLOCK FALSE

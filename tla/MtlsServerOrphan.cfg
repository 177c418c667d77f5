SPECIFICATION Spec
CONSTANTS
  c1 = c1
  c2 = c2
  Conns = {c1, c2}
  NoFd = NoFd
  MAX_CLIENTS = 4
  TLS_RECORD_SIZE = 2
  MaxLines = 0
  MaxSegs = 0
  Faults = {}
  StdinCloses = FALSE
INVARIANT EveryClientPolled
CHECK_DEADLOCK FALSE

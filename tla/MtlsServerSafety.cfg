SPECIFICATION Spec
CONSTANTS
  c1 = c1
  c2 = c2
  c3 = c3
  Conns = {c1, c2, c3}
  NoFd = NoFd
  MAX_CLIENTS = 4
  TLS_RECORD_SIZE = 2
  MaxLines = 2
  MaxSegs = 0
  Faults = {"setup", "accept", "SSL_new", "SSL_set_fd", "SSL_read", "full"}
  StdinCloses = TRUE
SYMMETRY ConnSymmetry
INVARIANTS SlotsHoldOpenConns SslMatchesFd NfdsInBounds LinesInOrder
CHECK_DEADLOCK FALSE

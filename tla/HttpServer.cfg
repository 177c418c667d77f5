SPECIFICATION FairSpec
CONSTANTS
  c1 = c1
  c2 = c2
  Conns = {c1, c2}
  NoFd = NoFd
  SendBuffer = 1
  MaxChunks = 2
  Faults = {"create", "malloc", "accept", "pthread_create", "SIGINT", "leave"}
INVARIANT ConnsOwnedOnce
PROPERTIES HandlersFinish SigintStops
CHECK_DEADLOCK FALSE

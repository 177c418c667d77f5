SPECIFICATION FairSpec
CONSTANTS
  lo = lo
  e1 = e1
  Ifaces = {lo, e1}
  Lo = lo
  None = None
  Args <- MCArgs
  MAX_IF = 2
  MaxFrames = 2
  Faults = {"socket", "if_nameindex", "ioctl", "fopen", "recvfrom", "unplug", "strdup", "write", "SIGKILL"}
INVARIANTS FileIsPcap CapturedIsOnDisk PromiscRestored
PROPERTY StopsOnSignal
CHECK_DEADLOCK FALSE

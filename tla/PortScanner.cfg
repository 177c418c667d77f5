\* The random words make the first fold of port 1's sum carry.
CONSTANTS
  Args = {0, 1, 2, 65535, 65536}
  MaxSpan = 2
  src_addr <- Local
  dst_addr <- Target
  Rands = {0, 5500}
  Open = {1, 65535}
  MaxNoise = 1
  Patient = TRUE
  Faults = {"local_ipget", "pthread_create", "socket", "read", "syn_scan", "loss", "repeat"}
SPECIFICATION Spec
INVARIANTS OnlyOpenReported SynsValid ScanComplete
CHECK_DEADLOCK FALSE

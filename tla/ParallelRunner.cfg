SPECIFICATION FairSpec
CONSTANTS
  N = 3
  MAX = 3
  BUFFER = 2
  Capacity = 3
  MaxOut = 4
  Faults = {"fork"}
INVARIANT EveryChildPrinted
PROPERTY Terminates
CHECK_DEADLOCK FALSE

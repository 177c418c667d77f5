SPECIFICATION FairSpec
CONSTANTS
  MaxLines = 3
  MaxSegs = 5
  StdinCloses = TRUE
PROPERTIES StdinServed ServerHeard
CHECK_DEADLOCK FALSE

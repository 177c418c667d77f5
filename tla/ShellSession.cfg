SPECIFICATION FairSpec
CONSTANTS
  Lines <- MCLines
  MaxLines = 2
  BUFFER_SIZE = 2
  STRTOK_BUF = 8
  POINTER = 2
  MaxPwd = 6
  ShellFaults = {"alloc", "shell fork"}
  Capacity = 2
  MaxOut = 3
  PipelineFaults = {"pipe", "fork", "fork2"}
  RedirectFaults = {"redirect fork", "open"}
INVARIANTS LineFits PromptMeansQuiet EofMeansComplete Redirected FileKept
PROPERTIES LinesOnce PromptReturns

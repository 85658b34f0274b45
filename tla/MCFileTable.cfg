SPECIFICATION FairSpec
CONSTANTS
  p1 = p1  p2 = p2  p3 = p3
  Proc <- TwoProcs
  first = p1
  NoProc = NoProc  NoChan = NoChan  NULL = NULL
  PIPESIZE = 2  WORD = 4
  Sizes = {3}
  NOFILE = 2
  Workloads = {{"dup", "fork", "exit"}, {"fork", "kill"}}
  
PROPERTIES KilledExits ImplementsFifo
CHECK_DEADLOCK FALSE

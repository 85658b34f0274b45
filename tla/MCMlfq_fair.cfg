SPECIFICATION FairSpec
CONSTANTS
  c1 = c1  c2 = c2
  CPU <- OneCpu
  NPROC = 3
  NLAYER = 2
  QLEN = 4
  limit_total <- Total2
  limit_rr <- Rr2
  StarveFactor = 2
  NLive = 3
  MaxBoosts = 0
  Ops = {"sleep", "exit"}
  NoCpu = NoCpu  NULL = NULL
INVARIANTS QueuedOnce
PROPERTIES HighestPriorityRuns 
CHECK_DEADLOCK FALSE

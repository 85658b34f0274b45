SPECIFICATION Spec
CONSTANTS
  c1 = c1  c2 = c2
  CPU <- TwoCpus
  NPROC = 2
  NLAYER = 2
  QLEN = 4
  limit_total <- Total2s
  limit_rr <- Rr2s
  StarveFactor = 2
  NLive = 1
  MaxBoosts = 1
  Ops = {"exit", "fork", "boost"}
  NoCpu = NoCpu  NULL = NULL
SYMMETRY CpuSymmetry
INVARIANTS OnOneCpu
CHECK_DEADLOCK FALSE

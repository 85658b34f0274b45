SPECIFICATION FairSpec
CONSTANTS
  p1 = p1  p2 = p2  p3 = p3
  Proc <- TwoProcs
  NoChan = NoChan  NULL = NULL
  NBUF = 2
  Sector = {"s1", "s2", "s3"}
  Outer = {"s1"}
  Contents <- MCContents
  ReadErrors = FALSE
INVARIANTS OneCopy ValidIsOnDisk NoDeadlock
PROPERTIES IoCompletes
CHECK_DEADLOCK FALSE

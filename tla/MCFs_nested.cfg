SPECIFICATION Spec
CONSTANTS
  Proc = {p1}
  Host <- Nested
  Path <- NestedPaths
  Ops = {"open", "unlink"}
  Sizes = {3}
  MaxCalls = 3
  MaxCrashes = 0
  Heirs = {}
  NINODE = 5
  NINODES = 6
  IPB = 2
  NBLOCKS = 9
  BSIZE = 5
  NDIRECT = 1
  NINDIRECT = 2
INVARIANT NoPanic
CHECK_DEADLOCK FALSE

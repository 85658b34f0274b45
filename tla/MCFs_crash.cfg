SPECIFICATION Spec
CONSTANTS
  Proc = {p1}
  Host <- Small
  Path <- MCPaths
  Ops = {"create", "mkdir", "mknod", "open", "close", "write", "link", "unlink"}
  Sizes = {3}
  MaxCalls = 3
  MaxCrashes = 1
  Heirs = {}
  NINODE = 5
  NINODES = 6
  IPB = 2
  NBLOCKS = 9
  BSIZE = 5
  NDIRECT = 1
  NINDIRECT = 2
INVARIANTS NoDangling LinkCounts NoSharing FreeIsZero  
CHECK_DEADLOCK FALSE

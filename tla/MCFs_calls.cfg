SPECIFICATION Spec
CONSTANTS
  Proc = {p1, p2}
  Host <- Small
  Path <- UpPaths
  Ops = {"create", "mkdir", "mknod", "open", "close", "read", "write", "fstat", "link", "unlink", "chdir"}
  Sizes = {5}
  MaxCalls = 2
  MaxCrashes = 0
  Heirs = {p1}
  NINODE = 4
  NINODES = 6
  IPB = 2
  NBLOCKS = 5
  BSIZE = 4
  NDIRECT = 1
  NINDIRECT = 2
INVARIANTS  RestingRefs NoDeadlock
CHECK_DEADLOCK FALSE

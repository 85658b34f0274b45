SPECIFICATION Spec
CONSTANTS
  Frame = {1, 2, 3, 4, 5, 6, 7, 8, 9, 10, 11, 12}
  NoFrame = 0
  Proc = {p1, p2, p3}
  first = p1
  Choice <- LowestFree
  HISTORY = 14
  PGSIZE = 2
  NUSER = 3
  NTABLE = 1
  Image = {2, 6, 7}
  Sbrk <- MCSbrk
  Touched = {1}
  Ops = {"sbrk", "fork", "clone", "exec", "exit", "wait", "join", "mprotect", "munprotect"}
  MaxCalls = 3
INVARIANTS   SizeMapped 
PROPERTIES ForkInherits ImplementsKalloc
CHECK_DEADLOCK FALSE

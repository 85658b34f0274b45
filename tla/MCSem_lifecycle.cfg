SPECIFICATION Spec
CONSTANTS
  p1 = p1  p2 = p2  p3 = p3
  Proc <- TwoProcs
  NoProc = NoProc
  NoChan = NoChan
  NUM_SEMAPHORES = 2
  Created <- OneMutex
  Counts = {1}
  MaxValue = 1
  Ops = {"wait", "post", "init", "destroy", "kill"}
 
PROPERTIES InitGrantsUnused
CHECK_DEADLOCK FALSE

SPECIFICATION LBFairSpec
CONSTANTS
  p1 = p1  p2 = p2  p3 = p3
  Proc <- ThreeThreads
  NoProc = NoProc
  NoChan = NoChan
  NUM_SEMAPHORES = 1
  Created <- OneMutex
  Counts = {1}
  MaxValue = 1
  Ops = {"wait", "post"}
  NUM_ITERATIONS = 2
INVARIANTS NoLostWakeup
PROPERTIES ImplementsAbstract Termination
CHECK_DEADLOCK FALSE

SPECIFICATION FairSpec
CONSTANTS
  p1 = p1
  p2 = p2
  Proc = {p1, p2}
  NoChan = NoChan
  NoProc = NoProc
  WORD = 4
  TICKWORD = 3
  INPUT_BUF = 2
  Letter = {"a"}
  Sizes = {3}
  Naps <- MCNaps
  Workloads <- MCWorkloads
INVARIANTS SleptEnough NoLineLeft
PROPERTIES ImplementsConsole EofSeen SleepReturns

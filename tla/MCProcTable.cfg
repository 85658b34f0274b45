SPECIFICATION FairSpec
CONSTANTS
  Proc <- FourSlots
  NoChan = NoChan  NULL = NULL
  NPROC = 4
  MaxPid = 4
  MaxDir = 4
  Ops = {"fork", "clone", "exec", "wait", "join", "kill"}
INVARIANTS NoMissedZombie AddressSpaces
PROPERTIES KilledDies
CHECK_DEADLOCK FALSE

\* Four PCBs, five processes in the life of the system: blocks are reused,
\* orphans outlive their parents, init is booted again.
SPECIFICATION ProcSpec
CONSTANTS
  MAX_NUM_PROCESSES = 4
  Callers <- AllCall
  SleepTimes = {0}
  WaitArgs = {0, 2}
  MaxPid = 5
VIEW ModuloPast
INVARIANTS
  ProcTypeOK
  OnePlace
  FamilyTree
  WaitNotLost
PROPERTIES
  NoSilentFree
  PtrsLostAtExits
CHECK_DEADLOCK FALSE

\* A process waits for a pid that is none of its children's.
SPECIFICATION ProcSpec
CONSTANTS
  MAX_NUM_PROCESSES = 3
  Callers <- AllCall
  SleepTimes = {}
  WaitArgs = {0, 2}
  MaxPid = 3
VIEW ModuloPast
INVARIANT WaitsForChild
CHECK_DEADLOCK FALSE

\* An orphan exits while init waits for any child.
SPECIFICATION ProcSpec
CONSTANTS
  MAX_NUM_PROCESSES = 4
  Callers <- AllCall
  SleepTimes = {}
  WaitArgs = {0}
  MaxPid = 4
VIEW ModuloPast
INVARIANT ParentAwakened
CHECK_DEADLOCK FALSE

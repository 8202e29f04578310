\* Two usable numbers for two Semaphore blocks, three blocks for up to four
\* opens and two waits: all three pools run out.  Any process may block and
\* counts may be negative: the refusals, the leaks and the crashes.
SPECIFICATION SemSpec
CONSTANTS
  MAX_NUM_PROCESSES = 2
  Callers <- AllCall
  SleepTimes = {}
  MAX_NUM_SEMAPHORES = 2
  NUM_SEMDESCRIPTORS = 3
  NUM_SEMDESCRIPTORPTRS = 3
  MAX_NUM_SEMDESCRIPTORS_PER_PROCESS = 2
  SemNums <- AnyNums
  OpenCounts <- AnyCounts
  MaxFd = 2
  MaxCount = 1
VIEW ModuloResults
INVARIANTS
  NoDanglingSemaphore
  PoolsConserved
CHECK_DEADLOCK FALSE

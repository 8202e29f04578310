\* A semaphore opened with a negative count and nobody waiting.
SPECIFICATION SemSpec
CONSTANTS
  MAX_NUM_PROCESSES = 2
  Callers <- AllCall
  SleepTimes = {}
  MAX_NUM_SEMAPHORES = 2
  NUM_SEMDESCRIPTORS = 2
  NUM_SEMDESCRIPTORPTRS = 3
  MAX_NUM_SEMDESCRIPTORS_PER_PROCESS = 2
  SemNums <- AnyNums
  OpenCounts <- AnyCounts
  MaxFd = 2
  MaxCount = 1
VIEW ModuloResults
INVARIANT SemPostFindsWaiter
CHECK_DEADLOCK FALSE

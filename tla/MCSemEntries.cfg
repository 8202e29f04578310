\* The descriptors of a semaphore after a close by descriptor number.
SPECIFICATION SemSpec
CONSTANTS
  MAX_NUM_PROCESSES = 3
  Callers <- MCCallers
  SleepTimes = {}
  MAX_NUM_SEMAPHORES = 2
  NUM_SEMDESCRIPTORS = 4
  NUM_SEMDESCRIPTORPTRS = 6
  MAX_NUM_SEMDESCRIPTORS_PER_PROCESS = 2
  SemNums = {0, 1}
  OpenCounts = {0, 1}
  MaxFd = 2
  MaxCount = 1
VIEW ModuloResults
INVARIANT OpenersListed
CHECK_DEADLOCK FALSE

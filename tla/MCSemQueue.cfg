\* Three processes that also sleep contend for one semaphore.
SPECIFICATION SemSpec
CONSTANTS
  MAX_NUM_PROCESSES = 4
  Callers <- MCCallers
  SleepTimes = {1}
  MAX_NUM_SEMAPHORES = 2
  NUM_SEMDESCRIPTORS = 4
  NUM_SEMDESCRIPTORPTRS = 6
  MAX_NUM_SEMDESCRIPTORS_PER_PROCESS = 1
  SemNums = {0}
  OpenCounts = {0, 1}
  MaxFd = 1
  MaxCount = 1
VIEW ModuloResults
INVARIANTS
  PlacedOnce
  WaitsForOneThing
PROPERTY ReadyRuns

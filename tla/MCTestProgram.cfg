\* The producer/consumer test: every schedule of two rounds, to the end.
SPECIFICATION TestSpec
CONSTANTS
  MAX_NUM_PROCESSES = 4
  Callers <- AllCall
  SleepTimes <- NoTimes
  WaitArgs = {0}
  MaxPid = 4
  MAX_NUM_SEMAPHORES = 3
  NUM_SEMDESCRIPTORS = 4
  NUM_SEMDESCRIPTORPTRS = 6
  MAX_NUM_SEMDESCRIPTORS_PER_PROCESS = 3
  SemNums = {1, 2}
  OpenCounts = {0, 1}
  MaxFd = 2
  MaxCount = 1
  MAX_NUM_RESOURCES = 2
  NUM_DESCRIPTORS = 2
  NUM_DESCRIPTORPTRS = 2
  OpenRequests <- NoRequests
  MaxResFd = 2
  HowManyTimes = 2
  SEM_P = 1
  SEM_C = 2
  SleepOf <- MCSleepOf
INVARIANTS
  Alternate
  NobodyReturns
  NoCrash
  CleanEnd
PROPERTY Terminates
CHECK_DEADLOCK FALSE

SPECIFICATION MCSpec
CONSTANTS
  MAX_NUM_PROCESSES = 3
  Callers <- AllCall
  SleepTimes = {1}
  WaitArgs = {0}
  MaxPid = 3
  MAX_NUM_SEMAPHORES = 2
  NUM_SEMDESCRIPTORS = 2
  NUM_SEMDESCRIPTORPTRS = 3
  MAX_NUM_SEMDESCRIPTORS_PER_PROCESS = 2
  SemNums = {1}
  OpenCounts = {0}
  MaxFd = 1
  MaxCount = 1
  MAX_NUM_RESOURCES = 2
  NUM_DESCRIPTORS = 2
  NUM_DESCRIPTORPTRS = 2
  OpenRequests <- Requests
  MaxResFd = 2
VIEW ModuloPast
INVARIANTS
  StatusTruth
  OneReasonToWait
  SemPostFindsWaiter
  OpenResourceListed
  FdsDistinct
  PoolsSound
  PtrNeverMissing
PROPERTY SemRefines
CHECK_DEADLOCK FALSE

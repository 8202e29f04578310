\* Safety and starvation freedom of the scheduler: four processes, three of
\* which sleep for 0, 1 or 3 ticks.
SPECIFICATION SchedSpec
CONSTANTS
  MAX_NUM_PROCESSES = 4
  Callers <- MCCallers
  SleepTimes <- MCSleepTimes
INVARIANTS
  SchedTypeOK
  PlacedOnce
  NoOversleep
  SleepersWait
  NeverIdle
PROPERTY NoStarvation

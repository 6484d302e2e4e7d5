SPECIFICATION Spec
CONSTANTS
  MAX_GDT_TERMS = 7
  SEGMENTS = 1
  BootTasks = 3
  TIME_PIECE = 2
  COUNTER_MOD = 4
  SleepArgs = {1, 2}
  Semaphores = {s1}
  InitCount = 1
  MaxCount = 1
  MaxPages = 2
  CreateWhenFull = FALSE
INVARIANT TypeOK QueuesMatchTasks SchedulerNeverStuck SemaphoreBalance BlockedMatches
PROPERTY   ReadyRuns SleeperWakes

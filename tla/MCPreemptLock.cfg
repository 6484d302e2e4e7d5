SPECIFICATION PreemptSpec
CONSTANTS
  MAX_GDT_TERMS = 6
  SEGMENTS = 1
  BootTasks = 2
  TIME_PIECE = 2
  COUNTER_MOD = 4
  SleepArgs = {1}
  Semaphores = {s1}
  InitCount = 1
  MaxCount = 1
  MaxPages = 0
  CreateWhenFull = FALSE
  Masked = FALSE
INVARIANT MutualExclusion

SPECIFICATION PreemptSpec
CONSTANTS
  MAX_GDT_TERMS = 7
  SEGMENTS = 1
  BootTasks = 2
  TIME_PIECE = 2
  COUNTER_MOD = 4
  SleepArgs = {1}
  Semaphores = {s1}
  InitCount = 1
  MaxCount = 1
  MaxPages = 2
  CreateWhenFull = FALSE
  Masked = TRUE
INVARIANT MutualExclusion
PROPERTY ImplementsSched

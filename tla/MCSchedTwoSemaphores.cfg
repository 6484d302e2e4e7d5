SPECIFICATION Spec
CONSTANTS
  MAX_GDT_TERMS = 7
  SEGMENTS = 1
  BootTasks = 3
  TIME_PIECE = 1
  COUNTER_MOD = 4
  SleepArgs = {1}
  Semaphores = {s1, s2}
  InitCount = 1
  MaxCount = 1
  MaxPages = 0
  CreateWhenFull = FALSE
INVARIANT SignalNeverStuck

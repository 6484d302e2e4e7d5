\* The bounded calls of sys_execve may be used up and their tasks gone.
CHECK_DEADLOCK FALSE
SPECIFICATION Spec
SYMMETRY Interchangeable
CONSTANTS
  ENTRIES = 6
  NPages = 24
  RESERVED = 1
  ITSELF_END = 4
  CODE = 24
  STACK = 32
  Callers = {c1, c2}
  Programs = {p1, p2}
  MaxExec = 3
  Masked = TRUE
INVARIANT TypeOK  PagesNotShared KernelMapKept

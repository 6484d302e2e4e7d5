SPECIFICATION Spec
CONSTANTS
  MAX_GDT_TERMS = 4
  Pids = {1, 2, 3}
  Usages <- KernelUsages
  Masked = TRUE
INVARIANT TypeOK
PROPERTY ImplementsList

SPECIFICATION Spec
SYMMETRY Interchangeable
CONSTANTS
  ROWS = 3
  COLS = 2
  BYTE = 4
  Chars = {a, b}
  Blank = blank
  Tasks = {t1}
  Masked = TRUE
  Careful = TRUE
INVARIANT TypeOK CursorInStep
PROPERTY ImplementsTerminal

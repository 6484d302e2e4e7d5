SPECIFICATION Spec
SYMMETRY Interchangeable
CONSTANTS
  BLOCK = 2
  NSectors = 10
  Clients = {c1, c2}
  Names = {"a", "b"}
  Bytes = {x, y}
  Blank = blank
  Program = program
  Programs = {"usr"}
  MaxSize = 3
  SWAP_START = 10
  Careful = FALSE
INVARIANT FilesKept

SPECIFICATION Spec
SYMMETRY Interchangeable
CONSTANTS
  BLOCK = 2
  NSectors = 8
  Clients = {c1, c2}
  Names = {"a"}
  Bytes = {x, y}
  Blank = blank
  Program = program
  Programs = {"usr"}
  MaxSize = 4
  SWAP_START = 7
  Careful = TRUE
INVARIANT TypeOK FilesKept ChainsDisjoint ReadsReturnText 

SPECIFICATION Spec
SYMMETRY Interchangeable
CONSTANTS
  Names <- SomeNames
  Clients = {c1, c2}
  MaxNodes = 3
  NameSeqs <- SomePaths
  MaxSize = 1
  Zeroed = TRUE
  Careful = TRUE
INVARIANT TypeOK PathsResolve ParentHasEntry OneEntryEach

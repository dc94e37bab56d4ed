SPECIFICATION FairSpec
CONSTANTS
  MaxBlocks = 3
  MaxFiles = 2
  Pieces = 2
  Buffer = 2
  Chunks <- NoneOrTwo
  MaxStarts = 2
INVARIANTS
  IntactIfLocked
PROPERTIES
  ImplementsBlockStream
  EveryBlockImported

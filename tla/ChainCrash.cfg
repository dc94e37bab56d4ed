SPECIFICATION FairSpec
CONSTANTS
  MaxFile = 4
  MaxStarts = 2
  Bits <- TwoBits
  RescanIndices <- Never
INVARIANTS
  HeaviestChain
  IndexedOnce
  TreeMatchesDatabase

PROPERTIES
  NoNeedlessUndo
  EveryBlockIndexed
  ImplementsBlockStream


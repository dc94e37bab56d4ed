SPECIFICATION Spec
CONSTANTS
  MaxFile = 6
  MaxStarts = 0
  Bits <- TwoBits
  RescanIndices <- Never
INVARIANTS
  ChainLinked
  FlagsCoverChain

PROPERTIES
  ImplementsBestChain


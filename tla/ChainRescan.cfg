SPECIFICATION Spec
CONSTANTS
  MaxFile = 5
  MaxStarts = 4
  Bits <- OneBits
  RescanIndices <- SomeRescans
PROPERTY
  Restorable

CHECK_DEADLOCK FALSE

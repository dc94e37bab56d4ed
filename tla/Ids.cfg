SPECIFICATION Spec
CONSTANTS
  a = a
  b = b
  c = c
  NoHash = NoHash
  Hashes <- ThreeTxs
  Source <- ChainOfTxs
  GarbageIds <- LargeId
  CacheSize = 1
  MaxStarts = 1
INVARIANTS
  UniqueInFirstRun
  NamedInFirstRun
  StoredInFirstRun
PROPERTIES
  IdsAreStable

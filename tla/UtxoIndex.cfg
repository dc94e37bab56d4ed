SPECIFICATION FewBlocksSpec
CONSTANTS
  MaxFile = 7
  MaxStarts = 1
  Bits <- TwoBits
  RescanIndices <- Never
  Spenders <- OneSpender
  MaxPayments = 2
INVARIANTS
  UnspentButForMissed
  TransactionBlocks

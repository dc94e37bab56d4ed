SPECIFICATION UtxoSpec
CONSTANTS
  MaxFile = 4
  MaxStarts = 0
  Bits <- TwoBits
  RescanIndices <- Never
  Spenders <- OneSpender
  MaxPayments = 0
INVARIANTS
  UnspentOutputs

SPECIFICATION RpcSpec
CONSTANTS
  MaxFile = 4
  MaxStarts = 1
  Bits <- OneBits
  RescanIndices <- Never
  Contents <- OneOfTwo
  PageSize = 2
  MaxOps = 2
  Confirmations <- UpToThree
INVARIANTS
  ConfirmationsOfChain
  PagesCoverChain
  BalanceOfUnspent
  UnspentAsBalance

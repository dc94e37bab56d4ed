SPECIFICATION AddressSpec
CONSTANTS
  MaxFile = 4
  MaxStarts = 1
  Bits <- OneBits
  RescanIndices <- Never
  Counts <- UpToTwo
  Requests <- AllRequests
INVARIANTS
  TotalsOfBranch
  EveryOperationRecorded
  AnswerOfChain

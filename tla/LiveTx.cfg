SPECIFICATION FairSpec
CONSTANTS
  tx1 = tx1
  tx2 = tx2
  NoTx = NoTx
  Txs = {tx1, tx2}
  Source <- Chained
  Bits <- OneTwo
  MaxBlocks = 3
  MaxTroubles = 1
  LastSize = 1
INVARIANTS
  ListsAgree
  LiveUnconfirmed
  SentOnce
PROPERTIES
  EveryLiveListed

------------------------------- MODULE UtxoIndex -------------------------------
(***************************************************************************)
(* The transactions of the blocks that ChainIndex imports, and the index   *)
(* of unspent outputs that the import loop keeps for the main chain        *)
(* (src/src/main.cpp).  Each step of ChainIndex is taken together with     *)
(* what it does to the transactions.                                       *)
(*                                                                         *)
(* A transaction has one output, whose address is known, and spends at     *)
(* most one.  It is named by how its coins came about: <<b>> is the reward *)
(* of block b, and Append(t, x) spends the output of t, x telling apart    *)
(* transactions that spend the same output.  So an output is named by its  *)
(* transaction, and the ids of transactions are left out (see TxIds).      *)
(*                                                                         *)
(* The batch is modelled by what the database will be once it is written.  *)
(* The option --rescan-index is not used here: the two actions of          *)
(* ChainIndex that only a rescan enables are left out.                     *)
(***************************************************************************)
EXTENDS ChainIndex, Functions

CONSTANTS
  Spenders,      \* what tells apart transactions that spend the same output
  MaxPayments    \* bound: how many transactions a block has besides the reward

ASSUME UtxoAssumption ==
  /\ RescanIndices = {}
  /\ Spenders \subseteq Nat
  /\ MaxPayments \in Nat

VARIABLES
  txs             \* the transactions of each block of the files

\* LevelDB.
VARIABLES
  dbTransactions, \* DbBlock::transactions, by block index
  dbTxBlocks,     \* the indices of the blocks each stored transaction is in
  utxo            \* DbAddressUTXO: the height of each unspent output

\* Locals of the import loop.
VARIABLES
  batchTxBlocks, batchUtxo,   \* the batch
  processUTXO,                \* the new block extends the tip
  next,                       \* how many of its transactions are processed
  missed                      \* history: the blocks that joined the main chain
                              \* without their transactions reaching utxo

dbTxVars  == <<dbTransactions, dbTxBlocks, utxo>>
batchVars == <<batchTxBlocks, batchUtxo, processUTXO, next>>
txVars    == <<txs, dbTxVars, batchVars, missed>>
allVars   == <<vars, txVars>>

Tx == Seq(Nat)

IsReward(t) == Len(t) = 1
Source(t)   == AllButLast(t)

\* std::map and LevelDB keys: Put is InsertOrAssign of ChainIndex.
Delete(map, key) == [k \in DOMAIN map \ {key} |-> map[k]]

\* ProcessUTXO: what a transaction of a block at height h changes.
ProcessUTXO(u, t, h) ==
  LET added == InsertOrAssign(u, t, h)
  IN IF IsReward(t) THEN added ELSE Delete(added, Source(t))

\* UndoUTXO: the reverse; h is the height of the block of the spent output.
UndoUTXO(u, t, h) ==
  LET removed == Delete(u, t)
  IN IF IsReward(t) THEN removed ELSE InsertOrAssign(removed, Source(t), h)

\* The first k transactions of a block are processed, in order.
ProcessFirst(u, list, h, k) ==
  LET after[i \in 0..Len(list)] ==
        IF i = 0 THEN u ELSE ProcessUTXO(after[i - 1], list[i], h)
  IN after[k]
ProcessBlock(u, list, h) == ProcessFirst(u, list, h, Len(list))

\* The last transaction is undone first.
UndoBlockInOrder(u, list, heightOf) ==
  LET after[i \in 0..Len(list)] ==
        IF i = 0 THEN u ELSE UndoUTXO(after[i - 1], list[i], heightOf[list[i]])
  IN after[Len(list)]
UndoDownTo(u, list, heightOf, k) ==
  LET after[i \in 0..Len(list)] ==
        IF i = 0 THEN u
        ELSE LET t == list[Len(list) + 1 - i]
             IN UndoUTXO(after[i - 1], t, heightOf[t])
  IN after[Len(list) - k]
UndoBlockTxs(u, list, heightOf) == UndoDownTo(u, list, heightOf, 0)

NoTxs == [t \in {} |-> 0]

UtxoInit ==
  /\ Init
  /\ txs = <<>>
  /\ dbTransactions = <<>> /\ dbTxBlocks = NoTxs /\ utxo = NoTxs
  /\ batchTxBlocks = NoTxs /\ batchUtxo = NoTxs
  /\ processUTXO = FALSE /\ next = 0
  /\ missed = {}

-----------------------------------------------------------------------------
(* bitcoind: the blocks of its files are valid.                            *)

\* The blocks from the first one to block h, and the transactions in them.
BranchTo[h \in 0..Len(file)] ==
  IF h = Null THEN <<>> ELSE Append(BranchTo[file[h].previous], h)
TxsTo(h) == UNION {Range(txs[b]) : b \in Range(BranchTo[h])}

\* The outputs that are unspent after block h: a reference for utxo.
Unspent[h \in 0..Len(file)] ==
  IF h = Null THEN NoTxs
  ELSE ProcessBlock(Unspent[file[h].previous], txs[h], Len(BranchTo[h]) - 1)

\* Transaction t spends output s, and others follow it.
Spending(unspent, s, t, others) ==
  {<<t>> \o list : list \in others[(unspent \ {s}) \cup {t}]}
Paying(unspent, others) ==
  UNION {Spending(unspent, s, Append(s, x), others) : s \in unspent, x \in Spenders}

\* The lists of at most n transactions that may follow a set of unspent ones.
Payments[n \in 0..MaxPayments] ==
  [unspent \in SUBSET Tx |->
     {<<>>} \cup IF n = 0 THEN {} ELSE Paying(unspent, Payments[n - 1])]

ValidBlockArrives ==
  /\ BlockArrives
  /\ LET new == Len(file) + 1
         parent == file'[new].previous
     IN \E list \in Payments[MaxPayments][DOMAIN Unspent[parent]] :
          txs' = Append(txs, <<(<<new>>)>> \o list)
  /\ UNCHANGED <<dbTxVars, batchVars, missed>>

-----------------------------------------------------------------------------
(* The process stops and starts: the batch is lost.                        *)

CrashWithBatch ==
  /\ Crash
  /\ batchTxBlocks' = NoTxs /\ batchUtxo' = NoTxs
  /\ processUTXO' = FALSE /\ next' = 0
  /\ UNCHANGED <<txs, dbTxVars, missed>>

-----------------------------------------------------------------------------
(* The import loop.                                                        *)

\* Only a block on top of the tip is processed along the way.
ExtendsTip(info)  == info.longestChain /\ info.previous = longestBlock

ReadTransactions ==
  /\ ReadBlock
  /\ batchTxBlocks' = dbTxBlocks
  /\ batchUtxo' = utxo
  /\ processUTXO' = ExtendsTip(blockInfo')
  /\ next' = 0
  /\ UNCHANGED <<txs, dbTxVars, missed>>

\* The blocks of a transaction, once the new block is among them.
LastBlockOnly(t) == {blockInfo.index}
WithThisBlock(t) ==
  {blockInfo.index} \cup IF t \in DOMAIN batchTxBlocks THEN batchTxBlocks[t] ELSE {}

\* The transactions of the new block, one by one: the transaction and its
\* block are put in the batch.
ProcessTransaction ==
  /\ pc = "process"
  /\ next < Len(txs[hash])
  /\ next' = next + 1
  /\ LET t == txs[hash][next + 1]
     IN /\ batchTxBlocks' = InsertOrAssign(batchTxBlocks, t, WithThisBlock(t))
        /\ batchUtxo' = IF processUTXO
                        THEN ProcessUTXO(batchUtxo, t, blockInfo.height)
                        ELSE batchUtxo
  /\ UNCHANGED <<vars, txs, dbTxVars, processUTXO, missed>>

CommitProcessed ==
  /\ BeginCommit
  /\ next = Len(txs[hash])
  /\ UNCHANGED txVars

TransactionsOf(b) == dbTransactions[blocks[b].index + 1]

\* The blocks of t, among which UndoUTXO looks for one on the main chain by
\* comparing currentChain[height] with it.  The order of the search is that
\* of the bytes of their indices, and an element beyond the end of
\* currentChain may hold any hash.
BlocksFound(t) ==
  {b \in {blockIds[i + 1] : i \in dbTxBlocks[t]} :
     blocks[b].height < Len(currentChain)
       => currentChain[blocks[b].height + 1] = b}

\* The heights UndoUTXO may restore the output that t spends with.
HeightOfSpender(t) == {Len(currentChain) - 1}
HeightsOfSource(t) ==
  IF IsReward(t) THEN {0} ELSE {blocks[b].height : b \in BlocksFound(Source(t))}

\* A block leaves the main chain, and its transactions are undone.
UndoTransactions ==
  /\ UndoBlock
  /\ LET list == TransactionsOf(currentChain[Len(currentChain)])
     IN \E heightOf \in [Range(list) ->
                         UNION {HeightsOfSource(t) : t \in Range(list)}] :
          /\ \A t \in Range(list) : heightOf[t] \in HeightsOfSource(t)
          /\ batchUtxo' = UndoBlockTxs(batchUtxo, list, heightOf)
  /\ UNCHANGED <<txs, dbTxVars, batchTxBlocks, processUTXO, next, missed>>

\* An ancestor of the new block joins the main chain with its transactions.
RedoTransactions ==
  /\ RedoBlock
  /\ LET b == toAppend[Len(toAppend)]
     IN batchUtxo' = ProcessBlock(batchUtxo, TransactionsOf(b), blocks[b].height)
  /\ UNCHANGED <<txs, dbTxVars, batchTxBlocks, processUTXO, next, missed>>

\* The batch is written.
WriteBatch ==
  /\ Finish
  /\ dbTransactions' = Append(dbTransactions, txs[hash])
  /\ dbTxBlocks' = batchTxBlocks
  /\ utxo' = batchUtxo
  /\ missed' = (missed \cap Range(currentChain'))
                \cup {b \in {hash} : blockInfo.longestChain /\ ~processUTXO}
  /\ batchTxBlocks' = NoTxs /\ batchUtxo' = NoTxs
  /\ processUTXO' = FALSE /\ next' = 0
  /\ UNCHANGED txs

\* The steps that do not touch transactions.
NoTransactions ==
  /\ \/ Start \/ Restore \/ ReadFails
     \/ WalkBack \/ WalkEnds \/ UndoEnds
  /\ UNCHANGED txVars

UtxoNext ==
  \/ ValidBlockArrives \/ CrashWithBatch
  \/ ReadTransactions \/ ProcessTransaction \/ CommitProcessed
  \/ UndoTransactions \/ RedoTransactions \/ WriteBatch
  \/ NoTransactions

UtxoSpec == UtxoInit /\ [][UtxoNext]_allVars
-----------------------------------------------------------------------------
UtxoTypeOK ==
  /\ txs \in Seq(Seq(Tx)) /\ Len(txs) = Len(file)
  /\ dbTransactions \in Seq(Seq(Tx))
  /\ DOMAIN dbTxBlocks \subseteq Tx /\ DOMAIN batchTxBlocks \subseteq Tx
  /\ \A t \in DOMAIN dbTxBlocks : dbTxBlocks[t] \subseteq Nat
  /\ \A t \in DOMAIN batchTxBlocks : batchTxBlocks[t] \subseteq Nat
  /\ DOMAIN utxo \subseteq Tx /\ DOMAIN batchUtxo \subseteq Tx
  /\ \A t \in DOMAIN utxo : utxo[t] \in Nat
  /\ \A t \in DOMAIN batchUtxo : batchUtxo[t] \in Nat
  /\ processUTXO \in BOOLEAN
  /\ next \in Nat
  /\ missed \subseteq Hash

\* The tip of the main chain in memory.
ChainTip == IF currentChain = <<>> THEN Null ELSE currentChain[Len(currentChain)]

\* The outputs that missed blocks of the main chain make or spend.
MissedTxs == UNION {Range(txs[b]) : b \in missed \cap Range(currentChain)}
MissedOutputs == MissedTxs \cup {Source(t) : t \in {u \in MissedTxs : ~IsReward(u)}}

\* The heights of the indexed blocks that have transaction t.
HeightsWith(t) ==
  {Len(BranchTo[h]) - 1 : h \in {b \in 1..Len(dbBlocks) : t \in Range(txs[b])}}

\* The index of unspent outputs is that of the main chain but for the outputs
\* that blocks make or spend that joined the chain as the tip of a
\* reorganisation; undoing and redoing other blocks on the way, in any number
\* of reorganisations, loses and adds no other output.  The height of an output
\* is that of its block on the main chain or, when UndoUTXO found another block
\* beyond the end of currentChain, that of a higher block with the same
\* transaction.  A second restart may restore another chain than the one that
\* utxo follows (main.cpp:74-148, 318-398, 703-729 and 879-925).
UnspentButForMissed ==
  pc = "idle" /\ starts < 2 =>
    LET reference == Unspent[ChainTip] IN
    \A t \in (DOMAIN utxo \cup DOMAIN reference) \ MissedOutputs :
      /\ t \in DOMAIN utxo /\ t \in DOMAIN reference
      /\ \/ utxo[t] = reference[t]
         \/ utxo[t] > reference[t] /\ utxo[t] \in HeightsWith(t)

\* LevelDB knows all blocks of a transaction, those of other branches and
\* those imported before a crash included (main.cpp:656-673).
TransactionBlocks ==
  LET n == Len(dbBlocks) IN
  /\ dbTransactions = SubSeq(txs, 1, n)
  /\ DOMAIN dbTxBlocks = UNION {Range(txs[h]) : h \in 1..n}
  /\ \A t \in DOMAIN dbTxBlocks :
       dbTxBlocks[t] = {h - 1 : h \in {b \in 1..n : t \in Range(txs[b])}}

\* README.md:7 "unspent outputs", main.cpp:74 "Update UTXO DB with this TX",
\* main.cpp:904 "Process UTXO for newly added blocks": after a block, utxo is
\* the set of the unspent outputs of the main chain.
UnspentOutputs == pc = "idle" => utxo = Unspent[ChainTip]
=============================================================================

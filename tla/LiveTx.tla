-------------------------------- MODULE LiveTx --------------------------------
(***************************************************************************)
(* Live transactions (src/src/BitcoinLiveTX.cpp): a thread that polls the  *)
(* memory pool of bitcoind, stores its transactions, keeps lists of them   *)
(* for the RPC threads and broadcasts them, while the import loop commits  *)
(* blocks.                                                                 *)
(*                                                                         *)
(* The import loop is taken as BestChain, which ChainIndex implements,     *)
(* with what it does besides to the lists and to the records.  Each part   *)
(* of the thread that holds a mutex or talks to bitcoind is one step.      *)
(***************************************************************************)
EXTENDS Integers, Sequences, FiniteSets

CONSTANTS
  Txs,           \* transactions, of one address
  NoTx,
  Source,        \* the transaction that each one spends of, or NoTx
  Bits,          \* what a block may weigh
  MaxBlocks,     \* bound: how many blocks bitcoind finds
  MaxTroubles,   \* bound: how often a call of bitcoind or a send fails, or the
                 \* daemon is started again
  LastSize       \* lastPendingTransactionsSize

ASSUME LiveAssumption ==
  /\ NoTx \notin Txs /\ Source \in [Txs -> Txs \cup {NoTx}]
  /\ Bits \subseteq Nat \ {0}
  /\ MaxTroubles \in Nat
  /\ {MaxBlocks, LastSize} \subseteq Nat \ {0}

\* Block 1 is the genesis block, which bitcoind always has.
Null  == 0
Block == 1..MaxBlocks

\* bitcoind: the blocks it wrote, its tip, and the transactions it knows.
VARIABLES
  found, theirTip, known

\* The import loop: BestChain, and whether a block is being imported.
VARIABLES
  tree, tip, importing

\* LevelDB: the transactions that have a record.
VARIABLES
  stored

\* Globals under pendingTransactionsMutex, and the tip that was announced.
VARIABLES
  pendingTransactionIndices,     \* the place of each in pendingTransactions
  pendingTransactions,
  pendingTransactionsByAddress,  \* places in pendingTransactions
  lastPendingTransactions,
  pendingPreviousBlock

\* Other globals: the end of the block files was reached, and the transactions
\* whose outputs may be in unspentCache.
VARIABLES
  txCheck, cached

\* The thread.
VARIABLES
  pc, polled, tx,
  needBroadcast,
  troubles

VARIABLES
  sent,          \* history: how often each transaction was broadcast
  behind,        \* history: the memory pool is of another chain than the tip
  listsBehind    \* history: the lists are from such a poll, at least in part

theirVars   == <<found, theirTip, known>>
chainVars   == <<tree, tip, importing>>
listVars    == <<pendingTransactionIndices, pendingTransactions,
                 pendingTransactionsByAddress, lastPendingTransactions>>
threadVars  == <<pc, polled, tx, needBroadcast>>
historyVars == <<sent, behind, listsBehind>>
vars == <<theirVars, chainVars, stored, listVars, pendingPreviousBlock, txCheck,
          cached, threadVars, troubles, historyVars>>

Chain == INSTANCE BestChain

Listed == DOMAIN pendingTransactionIndices

\* The transactions of a block and its ancestors.
ConfirmedAt[b \in Block \cup {Null}] ==
  IF b = Null \/ b > Len(found) THEN {}
  ELSE found[b].txs \cup ConfirmedAt[found[b].parent]

\* The chain up to a block has the tip of the main chain.
Leads[b \in Block \cup {Null}] ==
  IF b = Null \/ b > Len(found) THEN FALSE ELSE b = tip \/ Leads[found[b].parent]

MemoryPool == known \ ConfirmedAt[theirTip]

NoLists ==
  /\ pendingTransactionIndices' = [t \in {} |-> 0]
  /\ pendingTransactions' = <<>>
  /\ pendingTransactionsByAddress' = {}

Init ==
  /\ found = <<[parent |-> Null, txs |-> {}, bits |-> 1, total |-> 1]>>
  /\ theirTip = 1 /\ known = {}
  /\ Chain!Init /\ importing = FALSE
  /\ stored = {}
  /\ pendingTransactionIndices = [t \in {} |-> 0] /\ pendingTransactions = <<>>
  /\ pendingTransactionsByAddress = {} /\ lastPendingTransactions = <<>>
  /\ pendingPreviousBlock = Null
  /\ txCheck = FALSE /\ cached = {}
  /\ pc = "sleep" /\ polled = {} /\ tx = NoTx /\ needBroadcast = FALSE
  /\ troubles = 0
  /\ sent = [t \in Txs |-> 0] /\ behind = FALSE /\ listsBehind = FALSE

-----------------------------------------------------------------------------
(* bitcoind.                                                               *)

TxArrives ==
  /\ \E t \in Txs \ known :
       /\ Source[t] \in known \cup {NoTx}
       /\ known' = known \cup {t}
  /\ UNCHANGED <<found, theirTip, chainVars, stored, listVars, pendingPreviousBlock,
                 txCheck, cached, threadVars, troubles, historyVars>>

\* A block with some transactions that were not on its branch; the tip is the
\* first one of most bits, and a switch brings transactions back to the pool.
BlockFound ==
  /\ Len(found) < MaxBlocks
  /\ \E parent \in 1..Len(found), bits \in Bits :
     \E txs \in SUBSET (known \ ConfirmedAt[parent]) :
       /\ \A t \in txs : Source[t] \in txs \cup ConfirmedAt[parent] \cup {NoTx}
       /\ LET total == found[parent].total + bits IN
          /\ found' = Append(found, [parent |-> parent, txs |-> txs, bits |-> bits,
                                     total |-> total])
          /\ theirTip' = IF total > found[theirTip].total THEN Len(found') ELSE theirTip
  /\ UNCHANGED <<known, chainVars, stored, listVars, pendingPreviousBlock, txCheck,
                 cached, threadVars, troubles, historyVars>>

-----------------------------------------------------------------------------
(* The import loop.                                                        *)

Imported == Cardinality(DOMAIN tree)

\* The outputs of the transactions of the block are put in unspentCache.
BeginImport ==
  /\ ~importing /\ Imported < Len(found)
  /\ importing' = TRUE
  /\ cached' = cached \cup found[Imported + 1].txs
  /\ UNCHANGED <<theirVars, tree, tip, stored, listVars, pendingPreviousBlock,
                 txCheck, threadVars, troubles, historyVars>>

\* Of the three lists that main() clears two are its own.
CommitBlock ==
  /\ importing /\ importing' = FALSE
  /\ LET b == Imported + 1 IN
     /\ Chain!Learn(b, found[b].parent, found[b].bits)
     /\ stored' = stored \cup found[b].txs
  /\ pendingTransactionsByAddress' = {}
  /\ behind' = (behind \/ (pc = "tip" /\ tip' # tip))
  /\ UNCHANGED <<theirVars, pendingTransactionIndices, pendingTransactions,
                 lastPendingTransactions, pendingPreviousBlock, txCheck, cached,
                 threadVars, troubles, sent, listsBehind>>

EndOfFiles ==
  /\ ~importing /\ Imported = Len(found) /\ ~txCheck
  /\ txCheck' = TRUE
  /\ UNCHANGED <<theirVars, chainVars, stored, listVars, pendingPreviousBlock,
                 cached, threadVars, troubles, historyVars>>

Import == BeginImport \/ CommitBlock \/ EndOfFiles

-----------------------------------------------------------------------------
(* The thread.                                                             *)

\* A call fails: the handler around the poll clears the lists.
PollFails ==
  /\ pc \in {"sleep", "announce", "fetch", "send"}
  /\ pc = "sleep" => txCheck
  /\ troubles < MaxTroubles
  /\ troubles' = troubles + 1
  /\ pc' = "sleep" /\ polled' = {} /\ tx' = NoTx /\ needBroadcast' = FALSE
  /\ NoLists
  /\ listsBehind' = FALSE
  /\ UNCHANGED <<theirVars, chainVars, stored, lastPendingTransactions,
                 pendingPreviousBlock, txCheck, cached, sent, behind>>

\* getrawmempool.
Poll ==
  /\ pc = "sleep" /\ txCheck
  /\ pc' = "tip"
  /\ polled' = MemoryPool
  /\ behind' = ~Leads[theirTip]
  /\ UNCHANGED <<theirVars, chainVars, stored, listVars, pendingPreviousBlock, txCheck,
                 cached, tx, needBroadcast, troubles, sent, listsBehind>>

\* currentChain.back(), under chainMutex.
NotNew == FALSE
IsNew  == pendingPreviousBlock # tip
TakeTip ==
  /\ pc = "tip"
  /\ pc' = IF IsNew THEN "announce" ELSE "list"
  /\ pendingPreviousBlock' = tip
  /\ listsBehind' = (listsBehind \/ behind)
  /\ UNCHANGED <<theirVars, chainVars, stored, listVars, txCheck, cached, polled, tx,
                 needBroadcast, troubles, sent, behind>>

Announce ==
  /\ pc = "announce"
  /\ pc' = "clear"
  /\ UNCHANGED <<theirVars, chainVars, stored, listVars, pendingPreviousBlock, txCheck,
                 cached, polled, tx, needBroadcast, troubles, historyVars>>

ClearLists ==
  /\ pc = "clear"
  /\ pc' = "list"
  /\ NoLists
  /\ listsBehind' = behind
  /\ UNCHANGED <<theirVars, chainVars, stored, lastPendingTransactions,
                 pendingPreviousBlock, txCheck, cached, polled, tx, needBroadcast,
                 troubles, sent, behind>>

\* One that is listed is skipped.
NeverListed(t)     == FALSE
ListedOrStored(t)  == t \in Listed \cup stored
ListedAlready(t)   == t \in Listed
NextTx ==
  /\ pc = "list" /\ polled # {}
  /\ \E t \in polled :
       /\ polled' = polled \ {t}
       /\ IF ListedAlready(t) THEN UNCHANGED <<pc, tx>>
          ELSE pc' = "fetch" /\ tx' = t
  /\ UNCHANGED <<theirVars, chainVars, stored, listVars, pendingPreviousBlock, txCheck,
                 cached, needBroadcast, troubles, historyVars>>

PollEnds ==
  /\ pc = "list" /\ polled = {}
  /\ pc' = "sleep"
  /\ UNCHANGED <<theirVars, chainVars, stored, listVars, pendingPreviousBlock, txCheck,
                 cached, polled, tx, needBroadcast, troubles, historyVars>>

\* getrawtransaction, and then txLoad.
Fetch ==
  /\ pc = "fetch"
  /\ IF tx \in stored THEN pc' = "add" /\ needBroadcast' = FALSE
     ELSE pc' = "process" /\ needBroadcast' = TRUE
  /\ UNCHANGED <<theirVars, chainVars, stored, listVars, pendingPreviousBlock, txCheck,
                 cached, polled, tx, troubles, historyVars>>

\* processTransaction, under pendingTransactionsMutex.  The source of an input
\* is looked for in the list, in unspentCache, which may have lost it, and in
\* LevelDB; if it is in none the transaction is skipped.
SourceFound == Source[tx] \in Listed \cup stored \cup {NoTx}
SkipTx      == pc' = "list" /\ tx' = NoTx /\ needBroadcast' = FALSE
Process ==
  /\ pc = "process"
  /\ cached' = cached \cup {tx}
  /\ \/ /\ SourceFound \/ Source[tx] \in cached
        /\ pc' = "save" /\ UNCHANGED <<tx, needBroadcast>>
     \/ ~SourceFound /\ SkipTx
  /\ UNCHANGED <<theirVars, chainVars, stored, listVars, pendingPreviousBlock, txCheck,
                 polled, troubles, historyVars>>

\* txSave, and the batch is written.
NotYet == stored
WithTx == stored \cup {tx}
Save ==
  /\ pc = "save"
  /\ pc' = "add"
  /\ stored' = WithTx
  /\ UNCHANGED <<theirVars, chainVars, listVars, pendingPreviousBlock, txCheck, cached,
                 polled, tx, needBroadcast, troubles, historyVars>>

LastOf(s) == SubSeq(s, Len(s) - LastSize + 1, Len(s))
Add ==
  /\ pc = "add"
  /\ pc' = "send"
  /\ LET place == Len(pendingTransactions) + 1 IN
     /\ pendingTransactionIndices' =
          [t \in Listed \cup {tx} |-> IF t = tx THEN place ELSE pendingTransactionIndices[t]]
     /\ pendingTransactions' = Append(pendingTransactions, tx)
     /\ pendingTransactionsByAddress' = pendingTransactionsByAddress \cup {place}
  /\ LET last == Append(lastPendingTransactions, tx) IN
     lastPendingTransactions' = IF Len(last) <= LastSize THEN last ELSE LastOf(last)
  /\ UNCHANGED <<theirVars, chainVars, stored, pendingPreviousBlock, txCheck, cached,
                 polled, tx, needBroadcast, troubles, historyVars>>

Send ==
  /\ pc = "send"
  /\ SkipTx
  /\ sent' = IF needBroadcast THEN [sent EXCEPT ![tx] = @ + 1] ELSE sent
  /\ UNCHANGED <<theirVars, chainVars, stored, listVars, pendingPreviousBlock, txCheck,
                 cached, polled, troubles, behind, listsBehind>>

Live == \/ Poll \/ TakeTip \/ Announce \/ ClearLists \/ NextTx \/ PollEnds
        \/ Fetch \/ Process \/ Save \/ Add \/ Send

\* The process stops and is started again: the tree is restored, and the
\* import loop comes to the end of the files before the thread polls.
Crash ==
  /\ troubles < MaxTroubles
  /\ troubles' = troubles + 1
  /\ importing' = FALSE
  /\ NoLists /\ lastPendingTransactions' = <<>>
  /\ pendingPreviousBlock' = Null
  /\ txCheck' = FALSE /\ cached' = {}
  /\ pc' = "sleep" /\ polled' = {} /\ tx' = NoTx /\ needBroadcast' = FALSE
  /\ behind' = FALSE /\ listsBehind' = FALSE
  /\ UNCHANGED <<theirVars, tree, tip, stored, sent>>

Next == TxArrives \/ BlockFound \/ Import \/ Live \/ PollFails \/ Crash

Spec == Init /\ [][Next]_vars

\* The two threads run on.
FairSpec == Spec /\ WF_vars(Import) /\ WF_vars(Live)

-----------------------------------------------------------------------------
TypeOK ==
  /\ Len(found) \in 1..MaxBlocks
  /\ theirTip \in 1..Len(found) /\ known \subseteq Txs
  /\ DOMAIN tree = 1..Imported /\ Imported <= Len(found)
  /\ tip \in DOMAIN tree \cup {Null}
  /\ {importing, txCheck, needBroadcast, behind, listsBehind} \subseteq BOOLEAN
  /\ stored \subseteq known /\ cached \subseteq known /\ polled \subseteq known
  /\ pendingTransactions \in Seq(known) /\ lastPendingTransactions \in Seq(known)
  /\ Len(lastPendingTransactions) <= LastSize
  /\ pendingPreviousBlock \in DOMAIN tree \cup {Null}
  /\ pc \in {"sleep", "tip", "announce", "clear", "list", "fetch", "process", "save",
             "add", "send"}
  /\ tx \in known \cup {NoTx}
  /\ pc \in {"fetch", "process", "save", "add", "send"} <=> tx # NoTx
  /\ sent \in [Txs -> Nat]

\* What the RPC threads find by an address is in the list, and the list has each
\* transaction once, where its index says (BitcoinLiveTX.cpp:94-96 and 144-172,
\* CacherServer.cpp:274-290, BitcoinTX.cpp:130-134).
ListsAgree ==
  /\ pendingTransactionsByAddress \subseteq 1..Len(pendingTransactions)
  /\ Cardinality(Listed) = Len(pendingTransactions)
  /\ \A t \in Listed : /\ pendingTransactionIndices[t] \in 1..Len(pendingTransactions)
                       /\ pendingTransactions[pendingTransactionIndices[t]] = t

\* Once the thread has seen the tip, no transaction of the main chain is listed
\* as live, unless the chain changed between the poll and the look at the tip,
\* or bitcoind had left the chain (BitcoinLiveTX.cpp:54-88).
LiveUnconfirmed ==
  /\ pendingPreviousBlock = tip /\ pc \notin {"announce", "clear"}
  /\ ~listsBehind
  => Listed \cap ConfirmedAt[tip] = {}

\* A transaction is broadcast at most once, however often it is listed again
\* after blocks, failures and restarts (BitcoinLiveTX.cpp:120-142 and 174).
SentOnce == \A t \in Txs : sent[t] <= 1

\* A transaction that stays in the memory pool stays listed from some time on,
\* in whatever order it is polled with the one it spends of, and whatever
\* failed before (BitcoinLiveTX.cpp:90-200).
EveryLiveListed ==
  \A t \in Txs : <>[](t \in MemoryPool) => <>[](t \in Listed)
=============================================================================

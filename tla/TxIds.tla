-------------------------------- MODULE TxIds ---------------------------------
(***************************************************************************)
(* The ids of transactions (src/src/Database.cpp).  A transaction is       *)
(* stored under an id; the id of a hash is written to LevelDB at once,     *)
(* while the record of the transaction waits in a WriteBatch.  The import  *)
(* loop and the thread for live transactions make ids, the RPC threads     *)
(* look them up; each call of DatabaseHelper holds cacheMutex.             *)
(***************************************************************************)
EXTENDS Integers, FiniteSets

CONSTANTS
  Hashes,       \* the hashes of transactions
  NoHash,       \* the zero hash
  Source,       \* the transaction each one spends an output of, or NoHash
  GarbageIds,   \* what uninitialised bytes of a key may say
  CacheSize,    \* the capacity of txCache and of txCache2
  MaxStarts     \* bound: how often the daemon is started again

ASSUME TxIdsAssumption ==
  /\ NoHash \notin Hashes
  /\ Source \in [Hashes -> Hashes \cup {NoHash}]
  /\ GarbageIds \subseteq Nat
  /\ CacheSize \in Nat
  /\ MaxStarts \in Nat

\* LevelDB.
VARIABLES
  dbIds,          \* DbTxHashToId: the id of a hash
  dbTx,           \* DbTransaction::txHash, by id
  dbLinks         \* <<id, spender>>: the output of tx id that a spender spends

\* Globals under cacheMutex.
VARIABLES
  txLatestIndex, txCache, txCache2

\* unspentCache: the transactions whose outputs were put into it, in this run.
VARIABLE unspent

\* The import loop, and the thread for live transactions.
VARIABLES
  pc,                   \* of the import loop
  todo,                 \* the transactions of the new block to process
  tx,                   \* the one that is processed
  batchTx, batchLinks,  \* the batch
  txCheck,              \* the end of the block files was reached
  livePc, liveTx,       \* the live transaction that is stored
  liveLinks,            \* its batch
  starts,               \* how often the process was started again
  imported              \* history: the transactions of the blocks in LevelDB

dbVars    == <<dbIds, dbTx, dbLinks>>
cacheVars == <<txLatestIndex, txCache, txCache2>>
batchVars == <<batchTx, batchLinks>>
mainVars  == <<pc, todo, tx, batchVars, txCheck, imported>>
liveVars  == <<livePc, liveTx, liveLinks>>
vars      == <<dbVars, cacheVars, mainVars, liveVars, starts, unspent>>

Empty == [x \in {} |-> NoHash]

WithKey(map, key, value) ==
  [k \in DOMAIN map \cup {key} |-> IF k = key THEN value ELSE map[k]]

Merge(map, over) ==
  [k \in DOMAIN map \cup DOMAIN over |-> IF k \in DOMAIN over THEN over[k] ELSE map[k]]

Keep(map, keys) == [k \in keys |-> map[k]]

\* txLoad returns 0 when there is no transaction.
Id == Nat \ {0}

TypeOK ==
  /\ DOMAIN dbIds \subseteq Hashes /\ \A h \in DOMAIN dbIds : dbIds[h] \in Id
  /\ DOMAIN dbTx \subseteq Id /\ \A i \in DOMAIN dbTx : dbTx[i] \in Hashes
  /\ dbLinks \subseteq Nat \X Hashes
  /\ txLatestIndex \in Nat
  /\ DOMAIN txCache \subseteq Hashes /\ \A h \in DOMAIN txCache : txCache[h] \in Id
  /\ DOMAIN txCache2 \subseteq Id /\ \A i \in DOMAIN txCache2 : txCache2[i] \in Hashes
  /\ pc \in {"down", "idle", "block", "link", "save", "purge"}
  /\ todo \subseteq Hashes
  /\ tx \in Hashes \cup {NoHash} /\ (pc \in {"link", "save"} => tx \in Hashes)
  /\ DOMAIN batchTx \subseteq Id /\ \A i \in DOMAIN batchTx : batchTx[i] \in Hashes
  /\ batchLinks \subseteq Nat \X Hashes
  /\ txCheck \in BOOLEAN
  /\ livePc \in {"idle", "make", "link", "save"}
  /\ liveTx \in Hashes \cup {NoHash} /\ (livePc # "idle" => liveTx \in Hashes)
  /\ liveLinks \subseteq Nat \X Hashes
  /\ starts \in 0..MaxStarts
  /\ imported \subseteq Hashes
  /\ unspent \subseteq Hashes

\* The first start, on an empty database: ids start at 1.
Init ==
  /\ dbIds = Empty /\ dbTx = Empty /\ dbLinks = {}
  /\ txLatestIndex = 1 /\ txCache = Empty /\ txCache2 = Empty
  /\ pc = "idle" /\ todo = {} /\ tx = NoHash
  /\ batchTx = Empty /\ batchLinks = {} /\ txCheck = FALSE
  /\ livePc = "idle" /\ liveTx = NoHash /\ liveLinks = {}
  /\ starts = 0
  /\ imported = {} /\ unspent = {}

-----------------------------------------------------------------------------
(* DatabaseHelper.                                                         *)

\* txGetId with allowInvalid: the cache, then LevelDB.
HasIdInCache(h) == h \in DOMAIN txCache
HasId(h)        == h \in DOMAIN txCache \/ h \in DOMAIN dbIds
IdOf(h)         == IF h \in DOMAIN txCache THEN txCache[h] ELSE dbIds[h]

\* What a successful txGetId caches.
CacheId(h) ==
  IF h \in DOMAIN txCache THEN UNCHANGED <<txCache, txCache2>>
  ELSE /\ txCache' = WithKey(txCache, h, dbIds[h])
       /\ txCache2' = WithKey(txCache2, dbIds[h], h)

\* txGetOrCreateId of a new hash: the id is in LevelDB at once.
NewId     == txLatestIndex
SameIndex == txLatestIndex
NextIndex == txLatestIndex + 1

CreateId(h) ==
  /\ dbIds' = WithKey(dbIds, h, NewId)
  /\ txCache' = WithKey(txCache, h, NewId)
  /\ txCache2' = WithKey(txCache2, NewId, h)
  /\ txLatestIndex' = NextIndex

GetOrCreateId(h) ==
  IF HasId(h) THEN CacheId(h) /\ UNCHANGED <<dbIds, txLatestIndex>>
  ELSE CreateId(h)

\* The id GetOrCreateId(h) returns.
SavedId(h) == IF HasId(h) THEN IdOf(h) ELSE NewId

\* txLoad of a hash finds a record.
Stored(h) == HasId(h) /\ IdOf(h) \in DOMAIN dbTx

\* txLoad of a hash caches its id, if it has one.
Load(h) == IF HasId(h) THEN CacheId(h) ELSE UNCHANGED <<txCache, txCache2>>

\* The key of a spent output has room for a 64-bit id and gets the lower half
\* of the id in reversed byte order: zeroes, followed by what was in memory.
LinkIds(h) == GarbageIds
FullIds(h) == {IdOf(Source[h])}

-----------------------------------------------------------------------------
(* The import loop.                                                        *)

\* A block is read; its transactions spend outputs of its own or of blocks
\* that are imported.
ReadBlock ==
  /\ pc = "idle"
  /\ pc' = "block"
  /\ todo' \in SUBSET Hashes \ {{}}
  /\ \A h \in todo' : Source[h] \in todo' \cup imported \cup {NoHash}
  /\ batchTx' = Empty /\ batchLinks' = {}
  /\ UNCHANGED <<dbVars, cacheVars, tx, txCheck, imported, liveVars, starts, unspent>>

\* readBlock() fails: from now on there are live transactions, and imported
\* ones may be stored.
EndOfFiles ==
  /\ pc = "idle"
  /\ ~txCheck
  /\ txCheck' = TRUE
  /\ UNCHANGED <<dbVars, cacheVars, pc, todo, tx, batchVars, imported,
                 liveVars, starts, unspent>>

\* processTransaction: a transaction after the one it spends of.  With txCheck
\* a stored one is taken as it is.
MakeId ==
  /\ pc = "block"
  /\ \E h \in todo :
       /\ Source[h] \notin todo
       /\ tx' = h
       /\ GetOrCreateId(h)
       /\ pc' = IF (txCheck /\ Stored(h)) \/ Source[h] = NoHash
                THEN "save" ELSE "link"
       /\ unspent' = IF txCheck /\ Stored(h) THEN unspent ELSE unspent \cup {h}
  /\ UNCHANGED <<dbTx, dbLinks, todo, batchVars, txCheck, imported,
                 liveVars, starts>>

\* Still processTransaction: the spent output.
LinkSource ==
  /\ pc = "link"
  /\ pc' = "save"
  /\ Load(Source[tx])
  /\ \E i \in LinkIds(tx) : batchLinks' = batchLinks \cup {<<i, tx>>}
  /\ UNCHANGED <<dbVars, txLatestIndex, todo, tx, batchTx, txCheck, imported,
                 liveVars, starts, unspent>>

\* txSave.
SaveTx ==
  /\ pc = "save"
  /\ pc' = "block"
  /\ GetOrCreateId(tx)
  /\ batchTx' = WithKey(batchTx, SavedId(tx), tx)
  /\ todo' = todo \ {tx}
  /\ tx' = NoHash
  /\ UNCHANGED <<dbTx, dbLinks, batchLinks, txCheck, imported, liveVars, starts, unspent>>

Commit ==
  /\ pc = "block"
  /\ todo = {}
  /\ pc' = "purge"
  /\ dbTx' = Merge(dbTx, batchTx)
  /\ dbLinks' = dbLinks \cup batchLinks
  /\ imported' = imported \cup {batchTx[i] : i \in DOMAIN batchTx}
  /\ batchTx' = Empty /\ batchLinks' = {}
  /\ UNCHANGED <<dbIds, cacheVars, todo, tx, txCheck, liveVars, starts, unspent>>

\* A cache is cut to its capacity; which keys are kept is left open.
SizeAfter(map) ==
  LET size == Cardinality(DOMAIN map) IN IF size > CacheSize THEN CacheSize ELSE size

PurgeCaches ==
  /\ pc = "purge"
  /\ pc' = "idle"
  /\ \E ids \in SUBSET DOMAIN txCache, hashes \in SUBSET DOMAIN txCache2 :
       /\ Cardinality(ids) = SizeAfter(txCache)
       /\ Cardinality(hashes) = SizeAfter(txCache2)
       /\ txCache' = Keep(txCache, ids)
       /\ txCache2' = Keep(txCache2, hashes)
  /\ UNCHANGED <<dbVars, txLatestIndex, todo, tx, batchVars, txCheck, imported,
                 liveVars, starts, unspent>>

-----------------------------------------------------------------------------
(* The thread for live transactions.                                       *)

\* A transaction of the memory pool that has no record.
LiveFound ==
  /\ pc # "down" /\ txCheck
  /\ livePc = "idle"
  /\ \E h \in Hashes : Load(h) /\ ~Stored(h) /\ liveTx' = h
  /\ livePc' = "make"
  /\ UNCHANGED <<dbVars, txLatestIndex, mainVars, liveLinks, starts, unspent>>

\* processTransaction.
LiveMakeId ==
  /\ livePc = "make"
  /\ GetOrCreateId(liveTx)
  /\ unspent' = unspent \cup {liveTx}
  /\ livePc' = IF Source[liveTx] = NoHash THEN "save" ELSE "link"
  /\ UNCHANGED <<dbTx, dbLinks, mainVars, liveTx, liveLinks, starts>>

\* The spent output is one of a transaction that is listed, and so has a record,
\* of the unspent cache, or of a record.
LiveLinkSource ==
  /\ livePc = "link"
  /\ Source[liveTx] \in unspent \/ Stored(Source[liveTx])
  /\ livePc' = "save"
  /\ Load(Source[liveTx])
  /\ \E i \in LinkIds(liveTx) : liveLinks' = {<<i, liveTx>>}
  /\ UNCHANGED <<dbVars, txLatestIndex, mainVars, liveTx, starts, unspent>>

\* "Could not find source transaction": the transaction has got an id.  The cache
\* may have forgotten any output, to have room or because it was spent.
LiveNoSource ==
  /\ livePc = "link"
  /\ ~Stored(Source[liveTx])
  /\ livePc' = "idle" /\ liveTx' = NoHash
  /\ Load(Source[liveTx])
  /\ UNCHANGED <<dbVars, txLatestIndex, mainVars, liveLinks, starts, unspent>>

\* txSave and Write.
LiveWrite ==
  /\ livePc = "save"
  /\ GetOrCreateId(liveTx)
  /\ dbTx' = WithKey(dbTx, SavedId(liveTx), liveTx)
  /\ dbLinks' = dbLinks \cup liveLinks
  /\ livePc' = "idle" /\ liveTx' = NoHash /\ liveLinks' = {}
  /\ UNCHANGED <<mainVars, starts, unspent>>

-----------------------------------------------------------------------------
(* The RPC threads.                                                        *)

\* txGetId.
LookUpId ==
  /\ pc # "down"
  /\ \E h \in Hashes : HasId(h) /\ CacheId(h)
  /\ UNCHANGED <<dbVars, txLatestIndex, mainVars, liveVars, starts, unspent>>

\* txGetHash of an id that is not cached; one without record is not found.
LookUpHash ==
  /\ pc # "down"
  /\ \E i \in DOMAIN dbTx \ DOMAIN txCache2 : txCache2' = WithKey(txCache2, i, dbTx[i])
  /\ UNCHANGED <<dbVars, txLatestIndex, txCache, mainVars, liveVars, starts, unspent>>

-----------------------------------------------------------------------------
(* The process stops and is started again.                                 *)

Crash ==
  /\ pc # "down"
  /\ starts < MaxStarts
  /\ txLatestIndex' = 0 /\ txCache' = Empty /\ txCache2' = Empty
  /\ pc' = "down" /\ todo' = {} /\ tx' = NoHash
  /\ batchTx' = Empty /\ batchLinks' = {} /\ txCheck' = FALSE
  /\ livePc' = "idle" /\ liveTx' = NoHash /\ liveLinks' = {}
  /\ unspent' = {}
  /\ UNCHANGED <<dbVars, imported, starts>>

\* The ids of the keys with the prefix of transactions.
KeyIds == DOMAIN dbTx \cup {link[1] : link \in dbLinks}

\* The restore: the id after that of the last key.
Start ==
  /\ pc = "down"
  /\ pc' = "idle"
  /\ starts' = starts + 1
  /\ txLatestIndex' = IF KeyIds = {} THEN 1
                      ELSE 1 + CHOOSE i \in KeyIds : \A j \in KeyIds : j <= i
  /\ UNCHANGED <<dbVars, txCache, txCache2, todo, tx, batchVars, txCheck,
                 imported, liveVars, unspent>>

-----------------------------------------------------------------------------
Import == ReadBlock \/ EndOfFiles \/ MakeId \/ LinkSource \/ SaveTx \/ Commit
            \/ PurgeCaches
Live   == LiveFound \/ LiveMakeId \/ LiveLinkSource \/ LiveNoSource \/ LiveWrite
LookUp == LookUpId \/ LookUpHash

Next == Import \/ Live \/ LookUp \/ Crash \/ Start

Spec == Init /\ [][Next]_vars

-----------------------------------------------------------------------------
UniqueIds == \A g, h \in DOMAIN dbIds : dbIds[g] = dbIds[h] => g = h

NamedById ==
  /\ \A i \in DOMAIN dbTx    : dbTx[i] \in DOMAIN dbIds /\ dbIds[dbTx[i]] = i
  /\ \A i \in DOMAIN batchTx : batchTx[i] \in DOMAIN dbIds /\ dbIds[batchTx[i]] = i
  /\ \A i \in DOMAIN txCache2 :
       txCache2[i] \in DOMAIN dbIds /\ dbIds[txCache2[i]] = i
  /\ \A h \in DOMAIN txCache : h \in DOMAIN dbIds /\ txCache[h] = dbIds[h]

ImportedStored ==
  \A h \in imported :
    h \in DOMAIN dbIds /\ dbIds[h] \in DOMAIN dbTx /\ dbTx[dbIds[h]] = h

\* The daemon was never stopped.
FirstRun == starts = 0 /\ pc # "down"

\* Until the daemon is stopped no two transactions have the same id, whichever
\* threads make ids at the same time and whatever the caches forget
\* (Database.cpp:143-159).
UniqueInFirstRun == FirstRun => UniqueIds

\* Until the daemon is stopped, what is written under an id, waits for it in a
\* batch or is cached for it is the transaction that has the id
\* (Database.cpp:173-176, 190-211, 222-246).
NamedInFirstRun == FirstRun => NamedById

\* Until the daemon is stopped, no later block and no live transaction
\* overwrites the record of a transaction of a block (main.cpp:661 and
\* BitcoinLiveTX.cpp:141 write to the same keys).
StoredInFirstRun == FirstRun => ImportedStored

\* An id is for ever, across crashes and whatever the caches forget: the keys
\* of the unspent outputs and of the address operations contain it.
IdsAreStable ==
  [][\A h \in DOMAIN dbIds : h \in DOMAIN dbIds' /\ dbIds'[h] = dbIds[h]]_vars
=============================================================================

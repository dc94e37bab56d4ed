------------------------------ MODULE TxIdsProofs ------------------------------
(***************************************************************************)
(* Proofs about TxIds: ids are stable for any set of transactions and any  *)
(* number of crashes, and unique as long as the daemon is not started      *)
(* again.  Proofs about LruCache, the cache DatabaseHelper keeps them in:  *)
(* it holds what was used last, for any keys and any size.  Proofs about   *)
(* SmallVector, which its records are made of: the vectors keep their      *)
(* elements, for any elements and any numbers of vectors and slots.        *)
(***************************************************************************)
EXTENDS TxIds, LruCache, SmallVector, FiniteSetTheorems, SequenceTheorems,
        WellFoundedInduction, TLAPS

-----------------------------------------------------------------------------
(* Ids are stable: the cache never forgets what LevelDB knows.             *)

\* The cache of ids agrees with LevelDB.
CacheAgrees == \A h \in DOMAIN txCache : h \in DOMAIN dbIds /\ txCache[h] = dbIds[h]

\* No id changes.
IdsExtend == \A h \in DOMAIN dbIds : h \in DOMAIN dbIds' /\ dbIds'[h] = dbIds[h]

\* The cache learns what LevelDB knows.
LEMMA CacheIdAgrees ==
  ASSUME CacheAgrees, NEW h, HasId(h), CacheId(h), UNCHANGED dbIds
  PROVE  CacheAgrees'
  BY DEF CacheAgrees, HasId, CacheId, WithKey

\* An id is made for a hash without one, and stored and cached alike.
LEMMA GetOrCreateIdAgrees ==
  ASSUME CacheAgrees, NEW h, GetOrCreateId(h)
  PROVE  CacheAgrees' /\ IdsExtend
<1>1. CASE HasId(h)
  BY <1>1, CacheIdAgrees DEF GetOrCreateId, IdsExtend
<1>2. CASE ~HasId(h)
  <2>1. dbIds' = WithKey(dbIds, h, NewId) /\ txCache' = WithKey(txCache, h, NewId)
    BY <1>2 DEF GetOrCreateId, CreateId
  <2>2. h \notin DOMAIN dbIds
    BY <1>2 DEF HasId
  <2> QED
    BY <2>1, <2>2 DEF CacheAgrees, IdsExtend, WithKey
<1> QED
  BY <1>1, <1>2

\* A load caches an id or nothing.
LEMMA LoadAgrees ==
  ASSUME CacheAgrees, NEW h, Load(h), UNCHANGED dbIds
  PROVE  CacheAgrees'
  BY CacheIdAgrees DEF Load, CacheAgrees

\* Every step keeps the cache in agreement and the ids as they are, crashes
\* and restarts included.
LEMMA StepAgrees == CacheAgrees /\ [Next]_vars => CacheAgrees' /\ IdsExtend
<1> SUFFICES ASSUME CacheAgrees, [Next]_vars PROVE CacheAgrees' /\ IdsExtend
  OBVIOUS
<1> USE DEF dbVars, cacheVars, mainVars, liveVars
<1>1. CASE ReadBlock \/ EndOfFiles \/ Commit
  BY <1>1 DEF ReadBlock, EndOfFiles, Commit, CacheAgrees, IdsExtend
<1>2. CASE MakeId
  BY <1>2, GetOrCreateIdAgrees DEF MakeId
<1>3. CASE LinkSource
  BY <1>3, LoadAgrees DEF LinkSource, IdsExtend
<1>4. CASE SaveTx
  BY <1>4, GetOrCreateIdAgrees DEF SaveTx
<1>5. CASE PurgeCaches
  BY <1>5 DEF PurgeCaches, Keep, CacheAgrees, IdsExtend
<1>6. CASE LiveFound
  BY <1>6, LoadAgrees DEF LiveFound, IdsExtend
<1>7. CASE LiveMakeId
  BY <1>7, GetOrCreateIdAgrees DEF LiveMakeId
<1>8. CASE LiveLinkSource \/ LiveNoSource
  BY <1>8, LoadAgrees DEF LiveLinkSource, LiveNoSource, IdsExtend
<1>9. CASE LiveWrite
  BY <1>9, GetOrCreateIdAgrees DEF LiveWrite
<1>10. CASE LookUpId
  BY <1>10, CacheIdAgrees DEF LookUpId, IdsExtend
<1>11. CASE LookUpHash
  BY <1>11 DEF LookUpHash, CacheAgrees, IdsExtend
<1>12. CASE Crash
  BY <1>12 DEF Crash, Empty, CacheAgrees, IdsExtend
<1>13. CASE Start
  BY <1>13 DEF Start, CacheAgrees, IdsExtend
<1>14. CASE UNCHANGED vars
  BY <1>14 DEF vars, CacheAgrees, IdsExtend
<1> QED
  BY <1>1, <1>2, <1>3, <1>4, <1>5, <1>6, <1>7, <1>8, <1>9, <1>10, <1>11,
     <1>12, <1>13, <1>14
  DEF Next, Import, Live, LookUp

\* A transaction keeps its id for ever, whatever the crashes and whatever the
\* caches forget: the keys of unspent outputs and of address operations
\* contain it (Database.cpp:143-159 and 217-250).
THEOREM IdsStable == Spec => IdsAreStable
<1>1. Init => CacheAgrees
  BY DEF Init, CacheAgrees, Empty
<1>2. CacheAgrees /\ [Next]_vars => CacheAgrees'
  BY StepAgrees
<1>3. CacheAgrees /\ [Next]_vars =>
        [\A h \in DOMAIN dbIds : h \in DOMAIN dbIds' /\ dbIds'[h] = dbIds[h]]_vars
  BY StepAgrees DEF IdsExtend
<1> QED
  BY <1>1, <1>2, <1>3, PTL DEF Spec, IdsAreStable

-----------------------------------------------------------------------------
(* Ids are unique: the inductive invariant.                                *)

\* The hashes under the ids of map are those that have these ids.
Named(map) == \A i \in DOMAIN map : map[i] \in DOMAIN dbIds /\ dbIds[map[i]] = i

\* Every id is below the next one, so that a new id is a fresh one.
IdsOK ==
  /\ DOMAIN dbIds \subseteq Hashes
  /\ txLatestIndex \in Id
  /\ \A h \in DOMAIN dbIds : dbIds[h] \in Id /\ dbIds[h] < txLatestIndex
  /\ UniqueIds
  /\ CacheAgrees
  /\ Named(txCache2)

\* The types of all other variables.
OthersOK ==
  /\ dbLinks \subseteq Nat \X Hashes
  /\ pc \in {"idle", "block", "link", "save", "purge"}
  /\ todo \subseteq Hashes
  /\ tx \in Hashes \cup {NoHash} /\ (pc \in {"link", "save"} => tx \in Hashes)
  /\ batchLinks \subseteq Nat \X Hashes
  /\ txCheck \in BOOLEAN
  /\ livePc \in {"idle", "make", "link", "save"}
  /\ liveTx \in Hashes \cup {NoHash} /\ (livePc # "idle" => liveTx \in Hashes)
  /\ liveLinks \subseteq Nat \X Hashes
  /\ starts \in 0..MaxStarts
  /\ imported \subseteq Hashes /\ unspent \subseteq Hashes

IdsInv ==
  /\ IdsOK
  /\ Named(dbTx) /\ Named(batchTx)
  /\ ImportedStored
  /\ OthersOK

\* The invariant holds of the first start.
LEMMA IdsInit == Init => IdsInv
<1> SUFFICES ASSUME Init PROVE IdsInv
  OBVIOUS
<1>1. IdsOK
  BY DEF Init, IdsOK, Named, CacheAgrees, UniqueIds, Empty, Id
<1>2. Named(dbTx) /\ Named(batchTx) /\ ImportedStored
  BY DEF Init, Named, ImportedStored, Empty
<1>3. starts \in 0..MaxStarts
  BY TxIdsAssumption, SMT DEF Init
<1>4. dbLinks \subseteq Nat \X Hashes /\ batchLinks \subseteq Nat \X Hashes
        /\ liveLinks \subseteq Nat \X Hashes
  BY DEF Init
<1>5. pc = "idle" /\ livePc = "idle" /\ tx = NoHash /\ liveTx = NoHash /\ todo = {}
        /\ imported = {} /\ unspent = {} /\ txCheck = FALSE
  BY DEF Init
<1>6. OthersOK
  BY <1>3, <1>4, <1>5, Zenon DEF OthersOK
<1> QED
  BY <1>1, <1>2, <1>6 DEF IdsInv

\* The invariant gives the types.
LEMMA IdsTypes == IdsInv => TypeOK
  BY DEF IdsInv, IdsOK, OthersOK, Named, CacheAgrees, TypeOK, Id

\* What is named stays named when ids are added.
LEMMA NamedExtends ==
  ASSUME NEW map, Named(map), IdsExtend
  PROVE  \A i \in DOMAIN map : map[i] \in DOMAIN dbIds' /\ dbIds'[map[i]] = i
  BY DEF Named, IdsExtend

\* Looking up an id leaves the ids in order.
LEMMA CacheIdOK ==
  ASSUME IdsOK, NEW h, HasId(h), CacheId(h), UNCHANGED <<dbIds, txLatestIndex>>
  PROVE  IdsOK'
<1>1. CacheAgrees'
  BY CacheIdAgrees DEF IdsOK
<1>2. Named(txCache2)'
  <2>1. CASE h \in DOMAIN txCache
    BY <2>1 DEF CacheId, IdsOK, Named
  <2>2. CASE h \notin DOMAIN txCache
    <3>1. h \in DOMAIN dbIds /\ txCache2' = WithKey(txCache2, dbIds[h], h)
      BY <2>2 DEF CacheId, HasId
    <3> QED
      BY <3>1 DEF IdsOK, Named, WithKey
  <2> QED
    BY <2>1, <2>2
<1> QED
  BY <1>1, <1>2 DEF IdsOK, UniqueIds

\* So does making one, and the id that is returned is that of the hash.
LEMMA GetOrCreateIdOK ==
  ASSUME IdsOK, NEW h \in Hashes, GetOrCreateId(h)
  PROVE  /\ IdsOK' /\ IdsExtend
         /\ h \in DOMAIN dbIds' /\ dbIds'[h] = SavedId(h)
<1>1. IdsExtend
  BY GetOrCreateIdAgrees DEF IdsOK
<1>2. CASE HasId(h)
  <2>1. IdsOK' /\ UNCHANGED dbIds
    BY <1>2, CacheIdOK DEF GetOrCreateId
  <2>2. h \in DOMAIN dbIds /\ dbIds[h] = IdOf(h)
    BY <1>2 DEF IdsOK, CacheAgrees, HasId, IdOf
  <2> QED
    BY <1>1, <1>2, <2>1, <2>2 DEF SavedId
<1>3. CASE ~HasId(h)
  <2>1. /\ dbIds' = WithKey(dbIds, h, txLatestIndex)
        /\ txCache' = WithKey(txCache, h, txLatestIndex)
        /\ txCache2' = WithKey(txCache2, txLatestIndex, h)
        /\ txLatestIndex' = txLatestIndex + 1
    BY <1>3 DEF GetOrCreateId, CreateId, NewId, NextIndex
  <2>2. h \notin DOMAIN dbIds
    BY <1>3 DEF HasId
  <2>3. /\ DOMAIN dbIds' = DOMAIN dbIds \cup {h}
        /\ \A g \in DOMAIN dbIds : dbIds'[g] = dbIds[g]
        /\ dbIds'[h] = txLatestIndex
    BY <2>1, <2>2 DEF WithKey
  <2>4. txLatestIndex \in Nat /\ txLatestIndex # 0 /\ txLatestIndex' \in Id
    BY <2>1 DEF IdsOK, Id
  <2>5. \A g \in DOMAIN dbIds' : dbIds'[g] \in Id /\ dbIds'[g] < txLatestIndex'
    <3> SUFFICES ASSUME NEW g \in DOMAIN dbIds'
                 PROVE  dbIds'[g] \in Id /\ dbIds'[g] < txLatestIndex'
      OBVIOUS
    <3>1. CASE g = h
      BY <2>1, <2>3, <2>4, <3>1 DEF Id
    <3>2. CASE g # h
      <4>1. dbIds'[g] \in Id /\ dbIds'[g] < txLatestIndex
        BY <2>3, <3>2 DEF IdsOK
      <4> QED
        BY <2>1, <2>4, <4>1 DEF Id
    <3> QED
      BY <3>1, <3>2
  <2>6. UniqueIds'
    <3>1. \A g \in DOMAIN dbIds : dbIds'[g] # dbIds'[h]
      <4> SUFFICES ASSUME NEW g \in DOMAIN dbIds PROVE dbIds'[g] # dbIds'[h]
        OBVIOUS
      <4>1. dbIds[g] \in Nat /\ dbIds[g] < txLatestIndex
        BY DEF IdsOK, Id
      <4> QED
        BY <2>3, <2>4, <4>1
    <3> QED
      BY <2>3, <3>1 DEF IdsOK, UniqueIds
  <2>7. CacheAgrees'
    BY GetOrCreateIdAgrees DEF IdsOK
  <2>8. Named(txCache2)'
    BY <2>1, <2>3 DEF IdsOK, Named, WithKey
  <2>9. DOMAIN dbIds' \subseteq Hashes
    BY <2>3 DEF IdsOK
  <2> QED
    BY <1>1, <1>3, <2>3, <2>4, <2>5, <2>6, <2>7, <2>8, <2>9
    DEF IdsOK, SavedId, NewId
<1> QED
  BY <1>2, <1>3

\* A load keeps the ids in order.
LEMMA LoadOK ==
  ASSUME IdsOK, NEW h, Load(h), UNCHANGED <<dbIds, txLatestIndex>>
  PROVE  IdsOK'
<1>1. CASE HasId(h)
  BY <1>1, CacheIdOK DEF Load
<1>2. CASE ~HasId(h)
  BY <1>2 DEF Load, IdsOK, UniqueIds, CacheAgrees, Named
<1> QED
  BY <1>1, <1>2

\* Records and history stay in order when only ids are added.
LEMMA StoredOK ==
  ASSUME IdsInv, IdsExtend, UNCHANGED <<dbTx, imported>>
  PROVE  Named(dbTx)' /\ ImportedStored'
  BY DEF IdsInv, Named, IdsExtend, ImportedStored

-----------------------------------------------------------------------------
(* The steps of the import loop.                                           *)

\* A new batch is empty.
LEMMA IdsReadBlock == IdsInv /\ (ReadBlock \/ EndOfFiles) => IdsInv'
<1> SUFFICES ASSUME IdsInv, ReadBlock \/ EndOfFiles PROVE IdsInv'
  OBVIOUS
<1> USE DEF IdsInv, dbVars, cacheVars, batchVars, liveVars
<1>1. UNCHANGED <<dbIds, dbTx, dbLinks, txLatestIndex, txCache, txCache2,
                  imported, livePc, liveTx, liveLinks, starts, unspent, tx>>
  BY DEF ReadBlock, EndOfFiles
<1>2. IdsOK' /\ Named(dbTx)' /\ ImportedStored'
  BY <1>1 DEF IdsOK, UniqueIds, CacheAgrees, Named, ImportedStored
<1>3. Named(batchTx)'
  BY <1>1 DEF ReadBlock, EndOfFiles, Named, Empty
<1>4. OthersOK'
  BY <1>1 DEF ReadBlock, EndOfFiles, OthersOK
<1> QED
  BY <1>2, <1>3, <1>4

\* A transaction of the new block gets an id.
LEMMA IdsMakeId == IdsInv /\ MakeId => IdsInv'
<1> SUFFICES ASSUME IdsInv, MakeId PROVE IdsInv'
  OBVIOUS
<1> USE DEF IdsInv, batchVars, liveVars
<1>1. PICK h \in todo :
        /\ tx' = h /\ GetOrCreateId(h) /\ pc' \in {"save", "link"}
        /\ unspent' \in {unspent, unspent \cup {h}}
  BY DEF MakeId
<1>2. h \in Hashes
  BY DEF OthersOK
<1>3. UNCHANGED <<dbTx, dbLinks, todo, batchTx, batchLinks, txCheck, imported,
                  livePc, liveTx, liveLinks, starts>>
  BY DEF MakeId
<1>4. IdsOK' /\ IdsExtend
  BY <1>1, <1>2, GetOrCreateIdOK
<1>5. Named(dbTx)' /\ ImportedStored'
  BY <1>3, <1>4, StoredOK
<1>6. Named(batchTx)'
  BY <1>3, <1>4 DEF Named, IdsExtend
<1>7. OthersOK'
  BY <1>1, <1>2, <1>3 DEF OthersOK
<1> QED
  BY <1>4, <1>5, <1>6, <1>7

\* A spent output is linked, under some id.
LEMMA IdsLinkSource == IdsInv /\ LinkSource => IdsInv'
<1> SUFFICES ASSUME IdsInv, LinkSource PROVE IdsInv'
  OBVIOUS
<1> USE DEF IdsInv, dbVars, liveVars
<1>1. /\ UNCHANGED <<dbIds, dbTx, dbLinks, txLatestIndex, todo, tx, batchTx,
                     txCheck, imported, livePc, liveTx, liveLinks, starts, unspent>>
      /\ pc = "link" /\ pc' = "save" /\ Load(Source[tx])
  BY DEF LinkSource
<1>2. PICK i \in GarbageIds : batchLinks' = batchLinks \cup {<<i, tx>>}
  BY DEF LinkSource, LinkIds
<1>3. IdsOK'
  BY <1>1, LoadOK
<1>4. Named(dbTx)' /\ Named(batchTx)' /\ ImportedStored'
  BY <1>1 DEF Named, ImportedStored
<1>5. OthersOK'
  <2>1. i \in Nat /\ tx \in Hashes
    BY <1>1, TxIdsAssumption DEF OthersOK
  <2> QED
    BY <1>1, <1>2, <2>1 DEF OthersOK
<1> QED
  BY <1>3, <1>4, <1>5

\* The record waits in the batch under the id of its transaction.
LEMMA IdsSaveTx == IdsInv /\ SaveTx => IdsInv'
<1> SUFFICES ASSUME IdsInv, SaveTx PROVE IdsInv'
  OBVIOUS
<1> USE DEF IdsInv, liveVars
<1>1. /\ UNCHANGED <<dbTx, dbLinks, batchLinks, txCheck, imported, livePc,
                     liveTx, liveLinks, starts, unspent>>
      /\ pc' = "block" /\ todo' = todo \ {tx} /\ tx' = NoHash
      /\ batchTx' = WithKey(batchTx, SavedId(tx), tx)
  BY DEF SaveTx
<1>2. GetOrCreateId(tx) /\ tx \in Hashes
  BY DEF SaveTx, OthersOK
<1>3. IdsOK' /\ IdsExtend /\ tx \in DOMAIN dbIds' /\ dbIds'[tx] = SavedId(tx)
  BY <1>2, GetOrCreateIdOK
<1>4. Named(dbTx)' /\ ImportedStored'
  BY <1>1, <1>3, StoredOK
<1>5. Named(batchTx)'
  BY <1>1, <1>3 DEF Named, IdsExtend, WithKey
<1>6. OthersOK'
  BY <1>1 DEF OthersOK
<1> QED
  BY <1>3, <1>4, <1>5, <1>6

\* As ids are unique, the batch overwrites a record only with the same one.
LEMMA IdsCommit == IdsInv /\ Commit => IdsInv'
<1> SUFFICES ASSUME IdsInv, Commit PROVE IdsInv'
  OBVIOUS
<1> USE DEF IdsInv, cacheVars, liveVars
<1>1. /\ UNCHANGED <<dbIds, txLatestIndex, txCache, txCache2, todo, tx,
                     txCheck, livePc, liveTx, liveLinks, starts, unspent>>
      /\ pc' = "purge"
      /\ dbTx' = Merge(dbTx, batchTx)
      /\ dbLinks' = dbLinks \cup batchLinks
      /\ imported' = imported \cup {batchTx[i] : i \in DOMAIN batchTx}
      /\ batchTx' = Empty /\ batchLinks' = {}
  BY DEF Commit
<1>2. IdsOK'
  BY <1>1 DEF IdsOK, UniqueIds, CacheAgrees, Named
<1>3. Named(dbTx)' /\ Named(batchTx)'
  BY <1>1 DEF Named, Merge, Empty
<1>4. ImportedStored'
  <2> SUFFICES ASSUME NEW h \in imported'
               PROVE  /\ h \in DOMAIN dbIds /\ dbIds[h] \in DOMAIN dbTx'
                      /\ dbTx'[dbIds[h]] = h
    BY <1>1 DEF ImportedStored
  <2>1. ASSUME NEW i \in DOMAIN batchTx PROVE dbTx'[i] = batchTx[i]
    BY <1>1, <2>1 DEF Merge
  <2>2. CASE \E i \in DOMAIN batchTx : batchTx[i] = h
    BY <1>1, <2>1, <2>2 DEF Named, Merge
  <2>3. CASE h \in imported
    <3>1. /\ h \in DOMAIN dbIds /\ dbIds[h] \in DOMAIN dbTx
          /\ dbTx[dbIds[h]] = h
      BY <2>3 DEF ImportedStored
    <3>2. CASE dbIds[h] \in DOMAIN batchTx
      <4>1. batchTx[dbIds[h]] = h
        BY <3>1, <3>2 DEF Named, IdsOK, UniqueIds
      <4> QED
        BY <1>1, <2>1, <3>1, <3>2, <4>1 DEF Merge
    <3>3. CASE dbIds[h] \notin DOMAIN batchTx
      BY <1>1, <3>1, <3>3 DEF Merge
    <3> QED
      BY <3>2, <3>3
  <2> QED
    BY <1>1, <2>2, <2>3
<1>5. OthersOK'
  BY <1>1 DEF OthersOK, Named, IdsOK
<1> QED
  BY <1>2, <1>3, <1>4, <1>5

\* Purging forgets, and changes nothing.
LEMMA IdsPurge == IdsInv /\ PurgeCaches => IdsInv'
<1> SUFFICES ASSUME IdsInv, PurgeCaches PROVE IdsInv'
  OBVIOUS
<1> USE DEF IdsInv, dbVars, batchVars, liveVars
<1>1. UNCHANGED <<dbIds, dbTx, dbLinks, txLatestIndex, todo, tx, batchTx,
                  batchLinks, txCheck, imported, livePc, liveTx, liveLinks,
                  starts, unspent>> /\ pc' = "idle"
  BY DEF PurgeCaches
<1>2. PICK ids \in SUBSET DOMAIN txCache, hashes \in SUBSET DOMAIN txCache2 :
        txCache' = Keep(txCache, ids) /\ txCache2' = Keep(txCache2, hashes)
  BY DEF PurgeCaches
<1>3. IdsOK'
  BY <1>1, <1>2 DEF IdsOK, UniqueIds, CacheAgrees, Named, Keep
<1>4. Named(dbTx)' /\ Named(batchTx)' /\ ImportedStored'
  BY <1>1 DEF Named, ImportedStored
<1>5. OthersOK'
  BY <1>1 DEF OthersOK
<1> QED
  BY <1>3, <1>4, <1>5

-----------------------------------------------------------------------------
(* The steps of the other threads.                                         *)

\* A live transaction gets an id.
LEMMA IdsLiveMakeId == IdsInv /\ LiveMakeId => IdsInv'
<1> SUFFICES ASSUME IdsInv, LiveMakeId PROVE IdsInv'
  OBVIOUS
<1> USE DEF IdsInv, mainVars, batchVars
<1>1. /\ UNCHANGED <<dbTx, dbLinks, pc, todo, tx, batchTx, batchLinks, txCheck,
                     imported, liveTx, liveLinks, starts>>
      /\ unspent' = unspent \cup {liveTx}
      /\ livePc' \in {"save", "link"}
      /\ GetOrCreateId(liveTx) /\ liveTx \in Hashes
  BY DEF LiveMakeId, OthersOK
<1>2. IdsOK' /\ IdsExtend
  BY <1>1, GetOrCreateIdOK
<1>3. Named(dbTx)' /\ ImportedStored'
  BY <1>1, <1>2, StoredOK
<1>4. Named(batchTx)'
  BY <1>1, <1>2 DEF Named, IdsExtend
<1>5. OthersOK'
  BY <1>1 DEF OthersOK
<1> QED
  BY <1>2, <1>3, <1>4, <1>5

\* Loads of the live thread only fill the caches.
LEMMA IdsLiveLoads ==
  IdsInv /\ (LiveFound \/ LiveLinkSource \/ LiveNoSource) => IdsInv'
<1> SUFFICES ASSUME IdsInv, LiveFound \/ LiveLinkSource \/ LiveNoSource
             PROVE  IdsInv'
  OBVIOUS
<1> USE DEF IdsInv, dbVars, mainVars, batchVars
<1>1. UNCHANGED <<dbIds, dbTx, dbLinks, txLatestIndex, pc, todo, tx, batchTx,
                  batchLinks, txCheck, imported, starts, unspent>>
  BY DEF LiveFound, LiveLinkSource, LiveNoSource
<1>2. \E h : Load(h)
  BY DEF LiveFound, LiveLinkSource, LiveNoSource
<1>3. IdsOK'
  BY <1>1, <1>2, LoadOK
<1>4. Named(dbTx)' /\ Named(batchTx)' /\ ImportedStored'
  BY <1>1 DEF Named, ImportedStored
<1>5. OthersOK'
  <2>1. CASE LiveFound \/ LiveNoSource
    BY <1>1, <2>1 DEF LiveFound, LiveNoSource, OthersOK
  <2>2. CASE LiveLinkSource
    <3>1. PICK i \in GarbageIds : liveLinks' = {<<i, liveTx>>}
      BY <2>2 DEF LiveLinkSource, LinkIds
    <3>2. i \in Nat /\ liveTx \in Hashes
      BY <2>2, TxIdsAssumption DEF LiveLinkSource, OthersOK
    <3> QED
      BY <1>1, <2>2, <3>1, <3>2 DEF LiveLinkSource, OthersOK
  <2> QED
    BY <2>1, <2>2
<1> QED
  BY <1>3, <1>4, <1>5

\* The record of a live transaction is written under its id.
LEMMA IdsLiveWrite == IdsInv /\ LiveWrite => IdsInv'
<1> SUFFICES ASSUME IdsInv, LiveWrite PROVE IdsInv'
  OBVIOUS
<1> USE DEF IdsInv, mainVars, batchVars
<1>1. /\ UNCHANGED <<pc, todo, tx, batchTx, batchLinks, txCheck, imported, starts, unspent>>
      /\ dbTx' = WithKey(dbTx, SavedId(liveTx), liveTx)
      /\ dbLinks' = dbLinks \cup liveLinks
      /\ livePc' = "idle" /\ liveTx' = NoHash /\ liveLinks' = {}
  BY DEF LiveWrite
<1>2. GetOrCreateId(liveTx) /\ liveTx \in Hashes
  BY DEF LiveWrite, OthersOK
<1>3. /\ IdsOK' /\ IdsExtend
      /\ liveTx \in DOMAIN dbIds' /\ dbIds'[liveTx] = SavedId(liveTx)
  BY <1>2, GetOrCreateIdOK
<1>4. Named(dbTx)' /\ Named(batchTx)'
  BY <1>1, <1>3 DEF Named, IdsExtend, WithKey
<1>5. ImportedStored'
  <2> SUFFICES ASSUME NEW h \in imported
               PROVE  /\ h \in DOMAIN dbIds' /\ dbIds'[h] \in DOMAIN dbTx'
                      /\ dbTx'[dbIds'[h]] = h
    BY <1>1 DEF ImportedStored
  <2>1. /\ h \in DOMAIN dbIds' /\ dbIds'[h] \in DOMAIN dbTx
        /\ dbTx[dbIds'[h]] = h
    BY <1>3 DEF ImportedStored, IdsExtend
  <2>2. dbIds'[h] = SavedId(liveTx) => h = liveTx
    BY <1>3, <2>1 DEF IdsOK, UniqueIds
  <2> QED
    BY <1>1, <2>1, <2>2 DEF WithKey
<1>6. OthersOK'
  BY <1>1 DEF OthersOK
<1> QED
  BY <1>3, <1>4, <1>5, <1>6

\* Lookups only fill the caches.
LEMMA IdsLookUp == IdsInv /\ LookUp => IdsInv'
<1> SUFFICES ASSUME IdsInv, LookUp PROVE IdsInv'
  OBVIOUS
<1> USE DEF IdsInv, dbVars, mainVars, batchVars, liveVars
<1>1. UNCHANGED <<dbIds, dbTx, dbLinks, txLatestIndex, pc, todo, tx, batchTx,
                  batchLinks, txCheck, imported, livePc, liveTx, liveLinks,
                  starts, unspent>>
  BY DEF LookUp, LookUpId, LookUpHash
<1>2. IdsOK'
  <2>1. CASE LookUpId
    <3>1. \E h : HasId(h) /\ CacheId(h)
      BY <2>1 DEF LookUpId
    <3> QED
      BY <1>1, <3>1, CacheIdOK
  <2>2. CASE LookUpHash
    <3>1. PICK i \in DOMAIN dbTx : txCache2' = WithKey(txCache2, i, dbTx[i])
      BY <2>2 DEF LookUpHash
    <3>2. txCache' = txCache
      BY <2>2 DEF LookUpHash
    <3> QED
      BY <1>1, <3>1, <3>2 DEF IdsOK, UniqueIds, CacheAgrees, Named, WithKey
  <2> QED
    BY <2>1, <2>2 DEF LookUp
<1>3. Named(dbTx)' /\ Named(batchTx)' /\ ImportedStored' /\ OthersOK'
  BY <1>1 DEF Named, ImportedStored, OthersOK
<1> QED
  BY <1>2, <1>3

-----------------------------------------------------------------------------
(* The theorems.                                                           *)

FirstInv == starts \in Nat /\ (FirstRun => IdsInv)

\* Only a daemon that was never stopped has been in its first run before a
\* step and is in it afterwards.
LEMMA FirstRunStep ==
  ASSUME starts \in Nat, [Next]_vars
  PROVE  /\ starts' \in Nat
         /\ FirstRun' => FirstRun /\ ~Crash /\ ~Start
<1> USE DEF FirstRun, dbVars, cacheVars, mainVars, batchVars, liveVars
<1>1. CASE Import
  BY <1>1 DEF Import, ReadBlock, EndOfFiles, MakeId, LinkSource, SaveTx,
    Commit, PurgeCaches, Crash, Start
<1>2. CASE Live
  BY <1>2 DEF Live, LiveFound, LiveMakeId, LiveLinkSource, LiveNoSource,
    LiveWrite, Crash, Start
<1>3. CASE LookUp
  BY <1>3 DEF LookUp, LookUpId, LookUpHash, Crash, Start
<1>4. CASE Crash
  BY <1>4 DEF Crash
<1>5. CASE Start
  BY <1>5 DEF Start
<1>6. CASE UNCHANGED vars
  BY <1>6 DEF vars, Crash, Start
<1> QED
  BY <1>1, <1>2, <1>3, <1>4, <1>5, <1>6 DEF Next

\* Every step keeps the invariant of the first run.
LEMMA IdsNext == FirstInv /\ [Next]_vars => FirstInv'
<1> SUFFICES ASSUME FirstInv, [Next]_vars, FirstRun' PROVE IdsInv'
  BY FirstRunStep DEF FirstInv
<1>1. IdsInv /\ ~Crash /\ ~Start
  BY FirstRunStep DEF FirstInv
<1>2. CASE Import
  BY <1>1, <1>2, IdsReadBlock, IdsMakeId, IdsLinkSource, IdsSaveTx, IdsCommit,
     IdsPurge DEF Import
<1>3. CASE Live
  BY <1>1, <1>3, IdsLiveMakeId, IdsLiveLoads, IdsLiveWrite DEF Live
<1>4. CASE LookUp
  BY <1>1, <1>4, IdsLookUp
<1>5. CASE UNCHANGED vars
  BY <1>1, <1>5 DEF vars, dbVars, cacheVars, mainVars, batchVars, liveVars,
    IdsInv, IdsOK, UniqueIds, CacheAgrees, Named, ImportedStored, OthersOK
<1> QED
  BY <1>1, <1>2, <1>3, <1>4, <1>5 DEF Next

\* The invariant holds of every state of the first run.
LEMMA IdsAlways == Spec => [](FirstRun => IdsInv)
<1>1. Init => FirstInv
  BY IdsInit DEF FirstInv, Init
<1>2. FirstInv /\ [Next]_vars => FirstInv'
  BY IdsNext
<1>3. FirstInv => (FirstRun => IdsInv)
  BY DEF FirstInv
<1> QED
  BY <1>1, <1>2, <1>3, PTL DEF Spec

\* Until the daemon is stopped, every id that is stored, cached or waiting in
\* a batch is a number other than the 0 that stands for a missing transaction.
THEOREM IdTypes == Spec => [](FirstRun => TypeOK)
  BY IdsAlways, IdsTypes, PTL

\* Until the daemon is stopped, no two transactions get the same id, whichever
\* threads make ids and whatever the caches forget (Database.cpp:143-159).
THEOREM IdsAreUnique == Spec => []UniqueInFirstRun
<1>1. (FirstRun => IdsInv) => UniqueInFirstRun
  BY DEF IdsInv, IdsOK, UniqueInFirstRun
<1> QED
  BY <1>1, IdsAlways, PTL

\* Until the daemon is stopped, records, pending records and cached hashes are
\* those of the transactions that have their ids.
THEOREM RecordsNamedById == Spec => []NamedInFirstRun
<1>1. (FirstRun => IdsInv) => NamedInFirstRun
  BY DEF IdsInv, IdsOK, Named, CacheAgrees, NamedById, NamedInFirstRun
<1> QED
  BY <1>1, IdsAlways, PTL

\* Until the daemon is stopped, no later block and no live transaction
\* overwrites the record of an imported transaction with another one.
THEOREM ImportedStayStored == Spec => []StoredInFirstRun
<1>1. (FirstRun => IdsInv) => StoredInFirstRun
  BY DEF IdsInv, StoredInFirstRun
<1> QED
  BY <1>1, IdsAlways, PTL

-----------------------------------------------------------------------------
(* The cache in memory: the list and the map of lrucache.hpp.              *)

\* What a list is when the element at a place is erased.
IsErased(S, s, p, t) ==
  /\ t \in Seq(S) /\ Len(s) \in Nat /\ Len(t) = Len(s) - 1
  /\ \A i \in 1..Len(t) : t[i] = s[IF i < p THEN i ELSE i + 1]

LEMMA ErasedIs ==
  ASSUME NEW S, NEW s, NEW p, s \in Seq(S), p \in 1..Len(s)
  PROVE  IsErased(S, s, p, Erased(s, p))
<1>0. PICK t : t = Erased(s, p)
  OBVIOUS
<1>1. PICK a, b : a = SubSeq(s, 1, p - 1) /\ b = SubSeq(s, p + 1, Len(s))
  OBVIOUS
<1>2. Len(s) \in Nat /\ p \in Nat /\ p >= 1 /\ p <= Len(s)
  OBVIOUS
<1>3. a \in Seq(S) /\ Len(a) = p - 1 /\ \A i \in 1..(p - 1) : a[i] = s[i]
  BY <1>1, <1>2
<1>4. b \in Seq(S) /\ Len(b) = Len(s) - p /\ \A i \in 1..(Len(s) - p) : b[i] = s[i + p]
  BY <1>1, <1>2
<1>5. t = a \o b
  BY <1>0, <1>1 DEF Erased
<1>6. /\ t \in Seq(S) /\ Len(t) = Len(s) - 1
      /\ \A i \in 1..Len(t) : t[i] = IF i <= p - 1 THEN a[i] ELSE b[i - (p - 1)]
  <2>3. a \in Seq(S) /\ b \in Seq(S)
    BY <1>3, <1>4
  <2>1. /\ t \in Seq(S) /\ Len(t) = Len(a) + Len(b)
        /\ \A i \in 1..Len(a) + Len(b) : t[i] = IF i <= Len(a) THEN a[i] ELSE b[i - Len(a)]
    BY <1>5, <2>3, ConcatProperties
  <2>2. Len(a) + Len(b) = Len(s) - 1
    BY <1>2, <1>3, <1>4
  <2> QED
    BY <1>3, <2>1, <2>2
<1>7. ASSUME NEW i \in 1..Len(t) PROVE t[i] = s[IF i < p THEN i ELSE i + 1]
  <2>1. CASE i < p
    <3>1. i <= p - 1 /\ i \in 1..(p - 1)
      BY <1>2, <1>6, <2>1
    <3>2. t[i] = a[i]
      BY <1>6, <3>1
    <3> QED
      BY <1>3, <2>1, <3>1, <3>2
  <2>2. CASE ~(i < p)
    <3>1. i - (p - 1) \in 1..(Len(s) - p) /\ i - (p - 1) + p = i + 1 /\ ~(i <= p - 1)
      BY <1>2, <1>6, <2>2
    <3> QED
      BY <1>4, <1>6, <2>2, <3>1
  <2> QED
    BY <2>1, <2>2
<1> QED
  BY <1>0, <1>2, <1>6, <1>7 DEF IsErased

LEMMA InFrontIs ==
  ASSUME NEW S, NEW s \in Seq(S), NEW x \in S, NEW t, t = <<x>> \o s
  PROVE  /\ t \in Seq(S) /\ Len(s) \in Nat /\ Len(t) = Len(s) + 1 /\ t[1] = x
         /\ \A i \in 2..Len(t) : i - 1 \in 1..Len(s) /\ t[i] = s[i - 1]
<1>1. <<x>> \in Seq(S) /\ Len(<<x>>) = 1 /\ <<x>>[1] = x
  OBVIOUS
<1>2. /\ t \in Seq(S) /\ Len(s) \in Nat /\ Len(t) = Len(s) + 1
      /\ \A i \in 1..Len(t) : t[i] = IF i <= 1 THEN <<x>>[i] ELSE s[i - 1]
  BY <1>1, ConcatProperties
<1>3. 1 \in 1..Len(t) /\ \A i \in 2..Len(t) : i \in 1..Len(t) /\ ~(i <= 1) /\ i - 1 \in 1..Len(s)
  BY <1>2
<1> QED
  BY <1>1, <1>2, <1>3

\* One element moves to the front, or a new one is put there: which of the list is
\* behind it.
Behind(s, p) == [i \in 2..(IF p = 0 THEN Len(s) + 1 ELSE Len(s)) |->
                   IF p = 0 \/ i <= p THEN i - 1 ELSE i]
InFront(s, p, x) == <<x>> \o (IF p = 0 THEN s ELSE Erased(s, p))

LEMMA BehindIs ==
  ASSUME NEW n \in Nat, NEW s, Len(s) = n, NEW p \in 0..n
  PROVE  /\ \A i \in DOMAIN Behind(s, p) : Behind(s, p)[i] \in 1..n /\ Behind(s, p)[i] # p
         /\ \A i, j \in DOMAIN Behind(s, p) : Behind(s, p)[i] = Behind(s, p)[j] => i = j
         /\ \A j \in 1..n : j = p \/ \E i \in DOMAIN Behind(s, p) : Behind(s, p)[i] = j
<1>1. DOMAIN Behind(s, p) = 2..(IF p = 0 THEN n + 1 ELSE n)
  BY DEF Behind
<1>2. \A i \in DOMAIN Behind(s, p) : Behind(s, p)[i] = IF p = 0 \/ i <= p THEN i - 1 ELSE i
  BY DEF Behind
<1>3. ASSUME NEW j \in 1..n, j # p PROVE \E i \in DOMAIN Behind(s, p) : Behind(s, p)[i] = j
  <2>1. PICK i : i = IF p = 0 \/ j < p THEN j + 1 ELSE j
    OBVIOUS
  <2>2. i \in DOMAIN Behind(s, p)
    BY <1>1, <1>3, <2>1
  <2>3. Behind(s, p)[i] = j
    BY <1>2, <1>3, <2>1, <2>2
  <2> QED
    BY <2>2, <2>3
<1>4. \A i \in DOMAIN Behind(s, p) : Behind(s, p)[i] \in 1..n /\ Behind(s, p)[i] # p
  BY <1>1, <1>2
<1>5. \A i, j \in DOMAIN Behind(s, p) : Behind(s, p)[i] = Behind(s, p)[j] => i = j
  BY <1>1, <1>2
<1> QED
  BY <1>3, <1>4, <1>5

IsInFront(S, s, p, x) ==
  /\ InFront(s, p, x) \in Seq(S) /\ InFront(s, p, x)[1] = x
  /\ Len(InFront(s, p, x)) = (IF p = 0 THEN Len(s) + 1 ELSE Len(s))
  /\ Len(InFront(s, p, x)) \in Nat \ {0}
  /\ DOMAIN Behind(s, p) = 2..Len(InFront(s, p, x))
  /\ \A i \in 2..Len(InFront(s, p, x)) : InFront(s, p, x)[i] = s[Behind(s, p)[i]]

LEMMA InFrontBehind ==
  ASSUME NEW S, NEW s, NEW p, NEW x, s \in Seq(S), p \in 0..Len(s), x \in S
  PROVE  IsInFront(S, s, p, x)
<1>1. PICK r, t, B : /\ r = IF p = 0 THEN s ELSE Erased(s, p)
                     /\ t = InFront(s, p, x) /\ B = Behind(s, p)
  OBVIOUS
<1>2. Len(s) \in Nat
  OBVIOUS
<1>3. /\ r \in Seq(S) /\ Len(r) = IF p = 0 THEN Len(s) ELSE Len(s) - 1
      /\ \A i \in 1..Len(r) : r[i] = s[IF p = 0 \/ i < p THEN i ELSE i + 1]
  <2>1. CASE p = 0
    BY <1>1, <2>1
  <2>2. CASE p # 0
    <3>1. p \in 1..Len(s) /\ r = Erased(s, p)
      BY <1>1, <1>2, <2>2
    <3>2. IsErased(S, s, p, Erased(s, p))
      BY <3>1, ErasedIs
    <3> QED
      BY <2>2, <3>1, <3>2 DEF IsErased
  <2> QED
    BY <2>1, <2>2
<1>4. /\ t \in Seq(S) /\ Len(r) \in Nat /\ Len(t) = Len(r) + 1 /\ t[1] = x
      /\ \A i \in 2..Len(t) : i - 1 \in 1..Len(r) /\ t[i] = r[i - 1]
  <2>1. t = <<x>> \o r
    BY <1>1 DEF InFront
  <2> QED
    BY <1>3, <2>1, InFrontIs
<1>5. Len(t) = (IF p = 0 THEN Len(s) + 1 ELSE Len(s)) /\ Len(t) \in Nat \ {0}
  BY <1>2, <1>3, <1>4
<1>6. DOMAIN B = 2..Len(t)
  BY <1>1, <1>5 DEF Behind
<1>7. ASSUME NEW i \in 2..Len(t) PROVE t[i] = s[B[i]]
  <2>1. B[i] = IF p = 0 \/ i <= p THEN i - 1 ELSE i
    BY <1>1, <1>6, <1>7 DEF Behind
  <2>2. t[i] = s[IF p = 0 \/ i - 1 < p THEN i - 1 ELSE i - 1 + 1]
    BY <1>3, <1>4, <1>7
  <2>3. (IF p = 0 \/ i - 1 < p THEN i - 1 ELSE i - 1 + 1) = (IF p = 0 \/ i <= p THEN i - 1 ELSE i)
    BY <1>2, <1>5
  <2> QED
    BY <2>1, <2>2, <2>3
<1> QED
  BY <1>1, <1>2, <1>4, <1>5, <1>6, <1>7 DEF IsInFront

\* The pairs of the list, the nodes of the list and the map are of the same keys.
Pair == [key : Key, value : CacheValue]
CacheAt(N) ==
  /\ Len(items) = N /\ Len(cached) = N
  /\ items \in Seq(Nat) /\ cached \in Seq(Pair)
  /\ \A i \in 1..N : /\ items[i] \in DOMAIN node /\ node[items[i]] = cached[i]
                     /\ cached[i].key \in DOMAIN places
                     /\ places[cached[i].key] = items[i]
  /\ \A n \in DOMAIN node : \E i \in 1..N : items[i] = n
  /\ \A k \in DOMAIN places : \E i \in 1..N : cached[i].key = k
  /\ \A i, j \in 1..N : items[i] = items[j] => i = j
  /\ \A i, j \in 1..N : cached[i].key = cached[j].key => i = j
CacheOK == CacheAt(Len(items))

\* There is a node that is not in the list.
LEMMA FreeIs ==
  ASSUME CacheOK
  PROVE  Free \in Nat /\ \A i \in 1..Len(items) : items[i] # Free
<1>1. PICK n \in Nat : n = Len(items)
  BY DEF CacheOK, CacheAt
<1>2. PICK S, T : S = 1..n + 1 /\ T = 1..n
  OBVIOUS
<1>3. IsFiniteSet(S) /\ IsFiniteSet(T) /\ Cardinality(S) = n + 1 /\ Cardinality(T) = n
  BY <1>2, FS_Interval
<1>4. \E m \in S : \A i \in T : items[i] # m
  <2> SUFFICES ASSUME \A m \in S : \E i \in T : items[i] = m PROVE FALSE
    OBVIOUS
  <2>1. PICK f : f = [m \in S |-> CHOOSE i \in T : items[i] = m]
    OBVIOUS
  <2>2. \A m \in S : f[m] \in T /\ items[f[m]] = m
    BY <2>1
  <2>3. f \in [S -> T]
    BY <2>1, <2>2
  <2>4. Cardinality(T) < Cardinality(S)
    BY <1>3
  <2>5. \E x, y \in S : x # y /\ f[x] = f[y]
    BY <1>3, <2>3, <2>4, FS_PigeonHole
  <2> QED
    BY <2>2, <2>5
<1>5. Free \in S /\ \A i \in T : items[i] # Free
  BY <1>1, <1>2, <1>4 DEF Free
<1> QED
  BY <1>1, <1>2, <1>5

\* The map has as many keys as the list has nodes.
LEMMA SizeIs ==
  ASSUME CacheOK
  PROVE  Cardinality(DOMAIN places) = Len(items)
<1>1. PICK n, D : n = Len(items) /\ D = DOMAIN places /\ n \in Nat
  BY DEF CacheOK, CacheAt
<1>2. PICK f, g : /\ f = [k \in D |-> CHOOSE i \in 1..n : cached[i].key = k]
                  /\ g = [i \in 1..n |-> cached[i].key]
  OBVIOUS
<1>3. /\ f \in [D -> 1..n] /\ \A k \in D : cached[f[k]].key = k
      /\ g \in [1..n -> D] /\ \A i \in 1..n : f[g[i]] = i
  <2>1. \A k \in D : f[k] \in 1..n /\ cached[f[k]].key = k
    BY <1>1, <1>2 DEF CacheOK, CacheAt
  <2>2. \A i \in 1..n : g[i] \in D /\ cached[i].key = g[i]
    BY <1>1, <1>2 DEF CacheOK, CacheAt
  <2>3. \A i \in 1..n : f[g[i]] = i
    <3>1. \A i, j \in 1..n : cached[i].key = cached[j].key => i = j
      BY <1>1 DEF CacheOK, CacheAt
    <3> QED
      BY <2>1, <2>2, <3>1
  <2> QED
    BY <1>2, <2>1, <2>2, <2>3
<1>4. PICK T : T = 1..n /\ IsFiniteSet(T) /\ Cardinality(T) = n
  <2>1. 1 \in Int /\ n \in Int /\ n \in Nat
    BY <1>1
  <2>2. IsFiniteSet(1..n) /\ Cardinality(1..n) = n
    BY <2>1, FS_Interval
  <2> QED
    BY <2>2
<1>5. \A k \in D : \E i \in 1..n : g[i] = k
  BY <1>3, <1>2
<1>6. IsFiniteSet(D)
  <2>1. g \in Seq(D) /\ Len(g) = n
    BY <1>1, <1>3
  <2> QED
    BY <1>5, <2>1 DEF IsFiniteSet
<1>7. Cardinality(D) \in Nat
  BY <1>6, FS_CardinalityType
<1>8. ~(n < Cardinality(D))
  <2> SUFFICES ASSUME n < Cardinality(D) PROVE FALSE
    OBVIOUS
  <2>1. f \in [D -> T] /\ Cardinality(T) < Cardinality(D)
    BY <1>3, <1>4
  <2>2. \E x, y \in D : x # y /\ f[x] = f[y]
    BY <1>4, <1>6, <2>1, FS_PigeonHole
  <2> QED
    BY <1>3, <2>2
<1>9. ~(Cardinality(D) < n)
  <2> SUFFICES ASSUME Cardinality(D) < n PROVE FALSE
    OBVIOUS
  <2>1. g \in [T -> D] /\ Cardinality(D) < Cardinality(T)
    BY <1>3, <1>4
  <2>2. \E x, y \in T : x # y /\ g[x] = g[y]
    BY <1>4, <1>6, <2>1, FS_PigeonHole
  <2> QED
    BY <1>3, <1>4, <2>2
<1> QED
  BY <1>1, <1>7, <1>8, <1>9

\* Where a key is in the list, or 0.
PlaceOf(k, p) ==
  /\ p \in 0..Len(items)
  /\ p = 0 => k \notin DOMAIN places /\ \A i \in 1..Len(items) : cached[i].key # k
  /\ p # 0 => /\ k \in DOMAIN places /\ cached[p].key = k
              /\ places[k] = items[p] /\ Place(places[k]) = p

LEMMA PlaceIs ==
  ASSUME CacheOK, NEW k
  PROVE  \E p : PlaceOf(k, p)
<1>1. Len(items) \in Nat
  BY DEF CacheOK, CacheAt
<1>2. CASE k \notin DOMAIN places
  <2>1. \A i \in 1..Len(items) : cached[i].key # k
    <3>1. \A i \in 1..Len(items) : cached[i].key \in DOMAIN places
      BY DEF CacheOK, CacheAt
    <3> QED
      BY <1>2, <3>1
  <2>2. PlaceOf(k, 0)
    BY <1>1, <1>2, <2>1 DEF PlaceOf
  <2> QED
    BY <2>2
<1>3. CASE k \in DOMAIN places
  <2>1. PICK p \in 1..Len(items) : cached[p].key = k
    BY <1>3 DEF CacheOK, CacheAt
  <2>2. places[k] = items[p]
    BY <2>1 DEF CacheOK, CacheAt
  <2>3. \A i \in 1..Len(items) : items[i] = items[p] <=> i = p
    BY <2>1 DEF CacheOK, CacheAt
  <2>4. Place(places[k]) = p
    BY <2>2, <2>3 DEF Place
  <2>5. p \in 0..Len(items) /\ p # 0
    BY <1>1
  <2>6. PlaceOf(k, p)
    BY <1>3, <2>1, <2>2, <2>4, <2>5 DEF PlaceOf
  <2> QED
    BY <2>6
<1> QED
  BY <1>2, <1>3

LEMMA UsedIs ==
  ASSUME CacheOK, NEW k, NEW v, NEW p, PlaceOf(k, p)
  PROVE  Used(cached, k, v) = InFront(cached, p, [key |-> k, value |-> v])
<1>1. PICK of : of = {i \in 1..Len(cached) : cached[i].key = k}
  OBVIOUS
<1>2. Used(cached, k, v) = <<[key |-> k, value |-> v]>> \o
                             (IF of = {} THEN cached ELSE Erased(cached, CHOOSE i \in of : TRUE))
  BY <1>1 DEF Used
<1>3. Len(cached) = Len(items) /\ Len(items) \in Nat
  BY DEF CacheOK, CacheAt
<1>4. CASE p = 0
  <2>1. of = {}
    BY <1>1, <1>3, <1>4 DEF PlaceOf
  <2> QED
    BY <1>2, <1>4, <2>1 DEF InFront
<1>5. CASE p # 0
  <2>1. p \in 1..Len(items) /\ cached[p].key = k
    BY <1>3, <1>5 DEF PlaceOf
  <2>2. \A i \in 1..Len(items) : cached[i].key = k <=> i = p
    BY <2>1 DEF CacheOK, CacheAt
  <2>3. of = {p}
    BY <1>1, <1>3, <2>1, <2>2
  <2>4. of # {} /\ (CHOOSE i \in of : TRUE) = p
    BY <2>3
  <2> QED
    BY <1>2, <1>5, <2>4 DEF InFront
<1> QED
  BY <1>4, <1>5

\* The pairs and the nodes after a step, up to the new length of the list.
LEMMA CacheOKAt ==
  ASSUME NEW M, CacheAt(M)'
  PROVE  CacheOK'
<1>0. /\ Len(items') = M /\ Len(cached') = M
      /\ items' \in Seq(Nat) /\ cached' \in Seq(Pair)
      /\ \A i \in 1..M :
             /\ items'[i] \in DOMAIN node' /\ node'[items'[i]] = cached'[i]
             /\ cached'[i].key \in DOMAIN places' /\ places'[cached'[i].key] = items'[i]
      /\ \A m \in DOMAIN node' : \E i \in 1..M : items'[i] = m
      /\ \A j \in DOMAIN places' : \E i \in 1..M : cached'[i].key = j
      /\ \A i, j \in 1..M : items'[i] = items'[j] => i = j
      /\ \A i, j \in 1..M : cached'[i].key = cached'[j].key => i = j
  BY DEF CacheAt, Pair
<1>1. CacheOK' <=>
        /\ items' \in Seq(Nat) /\ cached' \in Seq(Pair) /\ Len(cached') = Len(items')
        /\ \A i \in 1..Len(items') :
             /\ items'[i] \in DOMAIN node' /\ node'[items'[i]] = cached'[i]
             /\ cached'[i].key \in DOMAIN places' /\ places'[cached'[i].key] = items'[i]
        /\ \A m \in DOMAIN node' : \E i \in 1..Len(items') : items'[i] = m
        /\ \A j \in DOMAIN places' : \E i \in 1..Len(items') : cached'[i].key = j
        /\ \A i, j \in 1..Len(items') : items'[i] = items'[j] => i = j
        /\ \A i, j \in 1..Len(items') : cached'[i].key = cached'[j].key => i = j
  BY DEF CacheOK, CacheAt, Pair
<1>2. 1..Len(items') = 1..M
  BY <1>0
<1>3. \A i \in 1..Len(items') :
        /\ items'[i] \in DOMAIN node' /\ node'[items'[i]] = cached'[i]
        /\ cached'[i].key \in DOMAIN places' /\ places'[cached'[i].key] = items'[i]
  BY <1>0, <1>2, Zenon
<1>4. ASSUME NEW m \in DOMAIN node' PROVE \E i \in 1..Len(items') : items'[i] = m
  BY <1>0, <1>2
<1>5. ASSUME NEW j \in DOMAIN places' PROVE \E i \in 1..Len(items') : cached'[i].key = j
  BY <1>0, <1>2
<1>6. ASSUME NEW i \in 1..Len(items'), NEW j \in 1..Len(items'), items'[i] = items'[j] PROVE i = j
  BY <1>0, <1>2, <1>6
<1>7. \A i, j \in 1..Len(items') : cached'[i].key = cached'[j].key => i = j
  BY <1>0, <1>2, Zenon
<1> QED
  BY <1>0, <1>1, <1>3, <1>4, <1>5, <1>6, <1>7, Zenon

\* A key is used: its pair is in front, in a new node or in the one it had.
UsedInFront(k, v, n, p) ==
  /\ items' = InFront(items, p, n)
  /\ cached' = InFront(cached, p, [key |-> k, value |-> v])
  /\ \A i \in 1..Len(items) : i # p => items[i] # n
  /\ DOMAIN places' = DOMAIN places \cup {k} /\ places'[k] = n
  /\ \A j \in DOMAIN places : j # k => places'[j] = places[j]
  /\ DOMAIN node' = {items'[i] : i \in 1..Len(items')}
  /\ node'[n] = [key |-> k, value |-> v]
  /\ \A m \in DOMAIN node' : m # n => node'[m] = node[m]

LEMMA UseKeeps ==
  ASSUME CacheOK, NEW k, NEW v, NEW n, NEW p, k \in Key, v \in CacheValue, n \in Nat,
         PlaceOf(k, p), UsedInFront(k, v, n, p)
  PROVE  CacheOK'
<1>0. /\ items' = InFront(items, p, n)
      /\ cached' = InFront(cached, p, [key |-> k, value |-> v])
      /\ \A i \in 1..Len(items) : i # p => items[i] # n
      /\ DOMAIN places' = DOMAIN places \cup {k} /\ places'[k] = n
      /\ \A j \in DOMAIN places : j # k => places'[j] = places[j]
      /\ DOMAIN node' = {items'[i] : i \in 1..Len(items')}
      /\ node'[n] = [key |-> k, value |-> v]
      /\ \A m \in DOMAIN node' : m # n => node'[m] = node[m]
  BY DEF UsedInFront
<1>1. PICK L, Q, I, C, N, M, B, c :
        /\ L = items /\ Q = cached /\ I = items' /\ C = cached'
        /\ N = Len(items) /\ M = Len(items')
        /\ B = Behind(L, p) /\ c = [key |-> k, value |-> v]
  OBVIOUS
<1>2. /\ L \in Seq(Nat) /\ Q \in Seq(Pair) /\ Len(L) = N /\ Len(Q) = N /\ N \in Nat
      /\ p \in 0..N /\ c \in Pair /\ c.key = k
      /\ I = InFront(L, p, n) /\ C = InFront(Q, p, c)
  BY <1>0, <1>1 DEF CacheOK, CacheAt, PlaceOf, Pair
<1>3. /\ I \in Seq(Nat) /\ M = Len(I) /\ I[1] = n /\ M \in Nat \ {0}
      /\ M = (IF p = 0 THEN N + 1 ELSE N)
      /\ DOMAIN B = 2..M /\ \A i \in 2..M : I[i] = L[B[i]]
  <2>1. M = Len(I)
    BY <1>0, <1>1
  <2>2. /\ I \in Seq(Nat) /\ I[1] = n /\ Len(I) \in Nat \ {0}
        /\ Len(I) = (IF p = 0 THEN N + 1 ELSE N)
        /\ DOMAIN B = 2..Len(I) /\ \A i \in 2..Len(I) : I[i] = L[B[i]]
    <3>1. L \in Seq(Nat) /\ p \in 0..Len(L) /\ n \in Nat
      BY <1>2
    <3>2. IsInFront(Nat, L, p, n)
      BY <3>1, InFrontBehind
    <3>3. I = InFront(L, p, n) /\ B = Behind(L, p) /\ Len(L) = N
      BY <1>0, <1>1, <1>2
    <3> QED
      BY <3>2, <3>3 DEF IsInFront
  <2> QED
    BY <1>0, <1>1, <2>1, <2>2
<1>4. /\ C \in Seq(Pair) /\ C[1] = c /\ Len(C) = M
      /\ \A i \in 2..M : C[i] = Q[B[i]]
  <2>1. Behind(Q, p) = B
    BY <1>0, <1>1, <1>2 DEF Behind
  <2>2. /\ C \in Seq(Pair) /\ C[1] = c /\ Len(C) = (IF p = 0 THEN N + 1 ELSE N)
        /\ \A i \in 2..Len(C) : C[i] = Q[B[i]]
    <3>1. Q \in Seq(Pair) /\ p \in 0..Len(Q) /\ c \in Pair
      BY <1>2
    <3>2. IsInFront(Pair, Q, p, c)
      BY <3>1, InFrontBehind
    <3>3. C = InFront(Q, p, c) /\ Len(Q) = N
      BY <1>2
    <3> QED
      BY <2>1, <3>2, <3>3 DEF IsInFront
  <2> QED
    BY <1>3, <2>2
<1>5. /\ \A i \in 2..M : B[i] \in 1..N /\ B[i] # p
      /\ \A i, j \in 2..M : B[i] = B[j] => i = j
      /\ \A j \in 1..N : j = p \/ \E i \in 2..M : B[i] = j
  <2>1. /\ \A i \in DOMAIN Behind(L, p) : Behind(L, p)[i] \in 1..N /\ Behind(L, p)[i] # p
        /\ \A i, j \in DOMAIN Behind(L, p) : Behind(L, p)[i] = Behind(L, p)[j] => i = j
        /\ \A j \in 1..N : j = p \/ \E i \in DOMAIN Behind(L, p) : Behind(L, p)[i] = j
    BY <1>2, BehindIs
  <2>2. B = Behind(L, p) /\ DOMAIN B = 2..M
    BY <1>0, <1>1, <1>3
  <2> QED
    BY <2>1, <2>2
<1>6. \A i \in 1..M : i = 1 \/ i \in 2..M
  BY <1>3
<1>7. 1 \in 1..M /\ \A i \in 2..M : i \in 1..M
  BY <1>3
<1>8. \A j \in 1..N : Q[j].key = k <=> j = p
  <2>1. /\ p = 0 => \A i \in 1..N : Q[i].key # k
        /\ p # 0 => Q[p].key = k
    BY <1>0, <1>1 DEF PlaceOf
  <2>2. \A i, j \in 1..N : Q[i].key = Q[j].key => i = j
    BY <1>0, <1>1 DEF CacheOK, CacheAt
  <2> QED
    BY <1>2, <2>1, <2>2
<1>9. ASSUME NEW i \in 2..M
      PROVE  /\ C[i] = Q[B[i]] /\ I[i] = L[B[i]] /\ B[i] \in 1..N
             /\ I[i] # n /\ C[i].key # k
             /\ I[i] \in DOMAIN node /\ node[I[i]] = C[i]
             /\ C[i].key \in DOMAIN places /\ places[C[i].key] = I[i]
  <2>1. PICK j \in 1..N : j = B[i] /\ j # p /\ C[i] = Q[j] /\ I[i] = L[j]
    BY <1>3, <1>4, <1>5
  <2>2. /\ L[j] \in DOMAIN node /\ node[L[j]] = Q[j]
        /\ Q[j].key \in DOMAIN places /\ places[Q[j].key] = L[j]
    BY <1>0, <1>1, <2>1 DEF CacheOK, CacheAt
  <2> QED
    BY <1>0, <1>1, <1>8, <2>1, <2>2
<1>10. DOMAIN node' = {I[i] : i \in 1..M}
  BY <1>0, <1>1
<1>11. ASSUME NEW i \in 1..M
       PROVE  /\ I[i] \in DOMAIN node' /\ node'[I[i]] = C[i]
              /\ C[i].key \in DOMAIN places' /\ places'[C[i].key] = I[i]
  <2>1. I[i] \in DOMAIN node'
    BY <1>0, <1>10
  <2>2. CASE i = 1
    BY <1>0, <1>1, <1>2, <1>3, <1>4, <2>1, <2>2
  <2>3. CASE i # 1
    <3>1. i \in 2..M
      BY <1>6, <2>3
    <3>2. /\ I[i] # n /\ C[i].key # k
          /\ I[i] \in DOMAIN node /\ node[I[i]] = C[i]
          /\ C[i].key \in DOMAIN places /\ places[C[i].key] = I[i]
      BY <1>9, <3>1
    <3>3. node'[I[i]] = node[I[i]]
      BY <1>0, <2>1, <3>2
    <3>4. C[i].key \in DOMAIN places' /\ places'[C[i].key] = places[C[i].key]
      BY <1>0, <3>2
    <3> QED
      BY <2>1, <3>2, <3>3, <3>4
  <2> QED
    BY <2>2, <2>3
<1>12. ASSUME NEW j \in DOMAIN places' PROVE \E i \in 1..M : C[i].key = j
  <2>1. CASE j = k
    BY <1>2, <1>4, <1>7, <2>1
  <2>2. CASE j # k
    <3>1. PICK x \in 1..N : Q[x].key = j
      BY <1>0, <1>1, <1>12, <2>2 DEF CacheOK, CacheAt
    <3>2. x # p
      BY <1>8, <2>2, <3>1
    <3>3. PICK i \in 2..M : B[i] = x
      BY <1>5, <3>2
    <3> QED
      BY <1>7, <1>9, <3>1, <3>3
  <2> QED
    BY <2>1, <2>2
<1>13. /\ \A i, j \in 1..N : L[i] = L[j] => i = j
       /\ \A i, j \in 1..N : Q[i].key = Q[j].key => i = j
  BY <1>0, <1>1 DEF CacheOK, CacheAt
<1>14. ASSUME NEW i \in 1..M, NEW j \in 1..M, I[i] = I[j] \/ C[i].key = C[j].key
       PROVE  i = j
  <2>1. CASE i = 1 \/ j = 1
    <3>1. I[1] = n /\ C[1].key = k
      BY <1>2, <1>3, <1>4
    <3>2. \A x \in 2..M : I[x] # n /\ C[x].key # k
      BY <1>9
    <3> QED
      BY <1>6, <1>14, <2>1, <3>1, <3>2
  <2>2. CASE i \in 2..M /\ j \in 2..M
    <3>1. B[i] = B[j]
      BY <1>9, <1>13, <1>14, <2>2
    <3> QED
      BY <1>5, <2>2, <3>1
  <2> QED
    BY <1>6, <2>1, <2>2
<1>15. \A m \in DOMAIN node' : \E i \in 1..M : I[i] = m
  BY <1>0, <1>10
<1>16. /\ items' \in Seq(Nat) /\ cached' \in Seq(Pair) /\ Len(cached') = Len(items')
       /\ Len(items') = M
  BY <1>0, <1>1, <1>3, <1>4
<1>17. \A i \in 1..M : /\ items'[i] \in DOMAIN node' /\ node'[items'[i]] = cached'[i]
                       /\ cached'[i].key \in DOMAIN places'
                       /\ places'[cached'[i].key] = items'[i]
  BY <1>0, <1>1, <1>11
<1>18. \A m \in DOMAIN node' : \E i \in 1..M : items'[i] = m
  BY <1>0, <1>1, <1>15
<1>19. \A j \in DOMAIN places' : \E i \in 1..M : cached'[i].key = j
  BY <1>0, <1>1, <1>12
<1>20. \A i, j \in 1..M : items'[i] = items'[j] => i = j
  BY <1>0, <1>1, <1>14
<1>21. \A i, j \in 1..M : cached'[i].key = cached'[j].key => i = j
  BY <1>0, <1>1, <1>14
<1>22. items' \in Seq(Nat) /\ cached' \in Seq(Pair) /\ Len(cached') = M /\ Len(items') = M
  BY <1>0, <1>16
<1> QED
  <2>1. CacheAt(M)'
    BY <1>17, <1>18, <1>19, <1>20, <1>21, <1>22 DEF CacheAt, Pair
  <2> QED
    BY <2>1, CacheOKAt

\* The nodes of a list with one in front.
LEMMA FrontNodes ==
  ASSUME NEW s, NEW n, s \in Seq(Nat), n \in Nat
  PROVE  {(<<n>> \o s)[i] : i \in 1..Len(<<n>> \o s)} = {n} \cup {s[i] : i \in 1..Len(s)}
<1>1. PICK t : t = <<n>> \o s
  OBVIOUS
<1>2. /\ t \in Seq(Nat) /\ Len(s) \in Nat /\ Len(t) = Len(s) + 1 /\ t[1] = n
      /\ \A i \in 2..Len(t) : i - 1 \in 1..Len(s) /\ t[i] = s[i - 1]
  BY <1>1, InFrontIs
<1>3. ASSUME NEW i \in 1..Len(t) PROVE t[i] \in {n} \cup {s[j] : j \in 1..Len(s)}
  <2>1. CASE i = 1
    BY <1>2, <2>1
  <2>2. CASE i # 1
    <3>1. i \in 2..Len(t)
      BY <1>2, <2>2
    <3> QED
      BY <1>2, <3>1
  <2> QED
    BY <2>1, <2>2
<1>4. ASSUME NEW j \in 1..Len(s) PROVE \E i \in 1..Len(t) : t[i] = s[j]
  <2>1. PICK i \in 2..Len(t) : i \in 1..Len(t) /\ i - 1 = j
    BY <1>2
  <2> QED
    BY <1>2, <2>1
<1>5. \E i \in 1..Len(t) : t[i] = n
  BY <1>2
<1>6. {t[i] : i \in 1..Len(t)} = {n} \cup {s[i] : i \in 1..Len(s)}
  <2>1. \A m \in {t[i] : i \in 1..Len(t)} : m \in {n} \cup {s[i] : i \in 1..Len(s)}
    BY <1>3
  <2>2. n \in {t[i] : i \in 1..Len(t)}
    BY <1>5
  <2>3. \A j \in 1..Len(s) : s[j] \in {t[i] : i \in 1..Len(t)}
    BY <1>4
  <2> QED
    BY <2>1, <2>2, <2>3
<1> QED
  BY <1>1, <1>6

\* A new node in front.
LEMMA PutKeeps ==
  ASSUME CacheOK, NEW k \in Key, NEW v \in CacheValue, Put(k, v)
  PROVE  CacheOK'
<1>1. PICK p : PlaceOf(k, p)
  BY PlaceIs
<1>2. PICK n, rest : /\ n = Free
                     /\ rest = IF Exists(k) THEN Erased(items, Place(places[k])) ELSE items
  OBVIOUS
<1>3. n \in Nat /\ \A i \in 1..Len(items) : items[i] # n
  BY <1>2, FreeIs
<1>4. rest = IF p = 0 THEN items ELSE Erased(items, p)
  BY <1>1, <1>2 DEF PlaceOf, Exists
<1>5. items \in Seq(Nat) /\ p \in 0..Len(items)
  BY <1>1 DEF CacheOK, CacheAt, PlaceOf
<1>6. rest \in Seq(Nat)
  <2>1. CASE p = 0
    BY <1>4, <1>5, <2>1
  <2>2. CASE p # 0
    <3>1. p \in 1..Len(items)
      BY <1>5, <2>2
    <3>2. IsErased(Nat, items, p, Erased(items, p))
      BY <1>5, <3>1, ErasedIs
    <3> QED
      BY <1>4, <1>5, <2>2, <3>1, <3>2 DEF IsErased
  <2> QED
    BY <2>1, <2>2
<1>7. /\ items' = <<n>> \o rest
      /\ places' = [j \in DOMAIN places \cup {k} |-> IF j = k THEN n ELSE places[j]]
      /\ node' = [m \in {n} \cup {rest[i] : i \in 1..Len(rest)} |->
                    IF m = n THEN [key |-> k, value |-> v] ELSE node[m]]
      /\ cached' = Used(cached, k, v)
  BY <1>2 DEF Put
<1>8. items' = InFront(items, p, n)
  BY <1>4, <1>7 DEF InFront
<1>9. cached' = InFront(cached, p, [key |-> k, value |-> v])
  BY <1>1, <1>7, UsedIs
<1>10. /\ DOMAIN places' = DOMAIN places \cup {k} /\ places'[k] = n
       /\ \A j \in DOMAIN places : j # k => places'[j] = places[j]
  BY <1>7
<1>11. DOMAIN node' = {items'[i] : i \in 1..Len(items')}
  <2>1. DOMAIN node' = {n} \cup {rest[i] : i \in 1..Len(rest)}
    BY <1>7
  <2>2. {(<<n>> \o rest)[i] : i \in 1..Len(<<n>> \o rest)} = {n} \cup {rest[i] : i \in 1..Len(rest)}
    BY <1>3, <1>6, FrontNodes
  <2> QED
    BY <1>7, <2>1, <2>2
<1>12. /\ node'[n] = [key |-> k, value |-> v]
       /\ \A m \in DOMAIN node' : m # n => node'[m] = node[m]
  BY <1>7
<1> QED
  <2>1. UsedInFront(k, v, n, p)
    BY <1>3, <1>8, <1>9, <1>10, <1>11, <1>12 DEF UsedInFront
  <2> QED
    BY <1>1, <1>3, <2>1, UseKeeps

\* The node of the key moves to the front.
LEMMA GetKeeps ==
  ASSUME CacheOK, NEW k \in Key, NEW v \in CacheValue, Get(k, v)
  PROVE  CacheOK'
<1>1. PICK p : PlaceOf(k, p)
  BY PlaceIs
<1>2. p # 0 /\ p \in 1..Len(items)
  <2>1. Len(items) \in Nat
    BY DEF CacheOK, CacheAt
  <2> QED
    BY <1>1, <2>1 DEF PlaceOf, Get, Exists
<1>3. PICK n, rest : n = places[k] /\ rest = Erased(items, p)
  OBVIOUS
<1>4. /\ k \in DOMAIN places /\ cached[p].key = k /\ n = items[p] /\ Place(n) = p
      /\ items \in Seq(Nat) /\ n \in Nat /\ n \in DOMAIN node /\ node[n] = cached[p]
      /\ cached[p] \in Pair
  <2>1. k \in DOMAIN places /\ cached[p].key = k /\ n = items[p] /\ Place(n) = p
    BY <1>1, <1>2, <1>3 DEF PlaceOf
  <2>2. items \in Seq(Nat) /\ cached \in Seq(Pair) /\ Len(cached) = Len(items)
    BY DEF CacheOK, CacheAt
  <2>3. items[p] \in DOMAIN node /\ node[items[p]] = cached[p]
    BY <1>2 DEF CacheOK, CacheAt
  <2>4. items[p] \in Nat /\ cached[p] \in Pair
    BY <1>2, <2>2
  <2> QED
    BY <2>1, <2>2, <2>3, <2>4
<1>5. /\ items' = <<n>> \o rest /\ node' = [node EXCEPT ![n].value = v]
      /\ cached' = Used(cached, k, v) /\ places' = places
  BY <1>3, <1>4 DEF Get
<1>6. items' = InFront(items, p, n)
  BY <1>2, <1>3, <1>5 DEF InFront
<1>7. cached' = InFront(cached, p, [key |-> k, value |-> v])
  BY <1>1, <1>5, UsedIs
<1>8. \A i \in 1..Len(items) : i # p => items[i] # n
  BY <1>2, <1>4 DEF CacheOK, CacheAt
<1>9. /\ DOMAIN places' = DOMAIN places \cup {k} /\ places'[k] = n
      /\ \A j \in DOMAIN places : j # k => places'[j] = places[j]
  BY <1>3, <1>4, <1>5
<1>10. /\ node'[n] = [key |-> k, value |-> v] /\ DOMAIN node' = DOMAIN node
       /\ \A m \in DOMAIN node' : m # n => node'[m] = node[m]
  <2>1. cached[p] = [key |-> k, value |-> cached[p].value]
    BY <1>4 DEF Pair
  <2>2. [cached[p] EXCEPT !.value = v] = [key |-> k, value |-> v]
    BY <2>1
  <2>3. node'[n] = [cached[p] EXCEPT !.value = v]
    BY <1>4, <1>5
  <2> QED
    BY <1>5, <2>2, <2>3
<1>11. DOMAIN node = {items'[i] : i \in 1..Len(items')}
  <2>1. /\ rest \in Seq(Nat) /\ Len(items) \in Nat /\ Len(rest) = Len(items) - 1
        /\ \A i \in 1..Len(rest) : rest[i] = items[IF i < p THEN i ELSE i + 1]
    <3>1. IsErased(Nat, items, p, Erased(items, p))
      BY <1>2, <1>4, ErasedIs
    <3> QED
      BY <1>3, <3>1 DEF IsErased
  <2>2. \A i \in 1..Len(rest) : rest[i] \in DOMAIN node
    <3>1. \A i \in 1..Len(rest) : (IF i < p THEN i ELSE i + 1) \in 1..Len(items)
      BY <1>2, <2>1
    <3>2. \A i \in 1..Len(items) : items[i] \in DOMAIN node
      BY DEF CacheOK, CacheAt
    <3> QED
      BY <2>1, <3>1, <3>2
  <2>3. ASSUME NEW m \in DOMAIN node, m # n PROVE \E i \in 1..Len(rest) : rest[i] = m
    <3>1. PICK j \in 1..Len(items) : items[j] = m
      BY DEF CacheOK, CacheAt
    <3>2. j # p
      BY <1>4, <2>3, <3>1
    <3>3. PICK i : i = IF j < p THEN j ELSE j - 1
      OBVIOUS
    <3>4. i \in 1..Len(rest) /\ (IF i < p THEN i ELSE i + 1) = j
      BY <1>2, <2>1, <3>2, <3>3
    <3> QED
      BY <2>1, <3>1, <3>4
  <2>4. DOMAIN node = {n} \cup {rest[i] : i \in 1..Len(rest)}
    BY <1>4, <2>2, <2>3
  <2>5. {(<<n>> \o rest)[i] : i \in 1..Len(<<n>> \o rest)} = {n} \cup {rest[i] : i \in 1..Len(rest)}
    BY <1>4, <2>1, FrontNodes
  <2> QED
    BY <1>5, <2>4, <2>5
<1> QED
  <2>1. DOMAIN node' = {items'[i] : i \in 1..Len(items')}
    BY <1>10, <1>11
  <2>2. UsedInFront(k, v, n, p)
    BY <1>6, <1>7, <1>8, <1>9, <1>10, <2>1 DEF UsedInFront
  <2> QED
    BY <1>1, <1>4, <2>2, UseKeeps

\* The front of the list stays.
LEMMA PurgeKeeps ==
  ASSUME CacheOK, Purge
  PROVE  CacheOK'
<1>1. PICK N, L, Q : N = Len(items) /\ L = items /\ Q = cached
  OBVIOUS
<1>2. /\ L \in Seq(Nat) /\ Q \in Seq(Pair) /\ Len(L) = N /\ Len(Q) = N /\ N \in Nat
  BY <1>1 DEF CacheOK, CacheAt
<1>3. PICK K : K = IF N < MaxSize THEN N ELSE MaxSize
  OBVIOUS
<1>4. K \in Nat /\ K <= N
  BY <1>2, <1>3, CacheAssumption
<1>5. PICK kept : kept = IF N > MaxSize THEN SubSeq(L, 1, MaxSize) ELSE L
  OBVIOUS
<1>6. kept \in Seq(Nat) /\ Len(kept) = K /\ \A i \in 1..K : kept[i] = L[i]
  <2>1. CASE N > MaxSize
    BY <1>2, <1>3, <1>5, <2>1, CacheAssumption
  <2>2. CASE ~(N > MaxSize)
    BY <1>2, <1>3, <1>5, <2>2, CacheAssumption
  <2> QED
    BY <2>1, <2>2
<1>7. PICK D : D = DOMAIN places \ {node[items[i]].key : i \in Len(kept)+1..Len(items)}
  OBVIOUS
<1>8. /\ items' = kept /\ places' = [k \in D |-> places[k]]
      /\ node' = [m \in {kept[i] : i \in 1..Len(kept)} |-> node[m]]
      /\ cached' = SubSeq(Q, 1, K)
  <2>1. Cardinality(DOMAIN places) = N
    BY <1>1, SizeIs
  <2> QED
    BY <1>1, <1>2, <1>3, <1>5, <1>7, <2>1 DEF Purge, Restricted
<1>9. cached' \in Seq(Pair) /\ Len(cached') = K /\ \A i \in 1..K : cached'[i] = Q[i]
  BY <1>2, <1>4, <1>8
<1>10. \A i \in 1..K : i \in 1..N
  BY <1>2, <1>4
<1>11. /\ \A i \in 1..N : /\ L[i] \in DOMAIN node /\ node[L[i]] = Q[i]
                          /\ Q[i].key \in DOMAIN places /\ places[Q[i].key] = L[i]
       /\ \A k \in DOMAIN places : \E i \in 1..N : Q[i].key = k
       /\ \A i, j \in 1..N : L[i] = L[j] => i = j
       /\ \A i, j \in 1..N : Q[i].key = Q[j].key => i = j
  BY <1>1 DEF CacheOK, CacheAt
<1>12. D = DOMAIN places \ {Q[i].key : i \in K + 1..N}
  <2>1. \A i \in K + 1..N : i \in 1..N
    BY <1>2, <1>4
  <2>2. \A i \in K + 1..N : node[items[i]].key = Q[i].key
    BY <1>1, <1>11, <2>1
  <2> QED
    BY <1>1, <1>6, <1>7, <2>2
<1>13. \A i \in 1..K : Q[i].key \in D
  <2>1. \A i \in 1..K : \A j \in K + 1..N : j \in 1..N /\ i # j
    BY <1>2, <1>4
  <2> QED
    BY <1>10, <1>11, <1>12, <2>1
<1>14. ASSUME NEW k \in D PROVE \E i \in 1..K : Q[i].key = k
  <2>1. PICK i \in 1..N : Q[i].key = k
    BY <1>11, <1>12
  <2>2. i \notin K + 1..N
    BY <1>12, <2>1
  <2>3. i \in 1..K
    BY <1>2, <1>4, <2>2
  <2> QED
    BY <2>1, <2>3
<1>15. \A i \in 1..K : /\ items'[i] = L[i] /\ cached'[i] = Q[i]
  BY <1>6, <1>8, <1>9
<1>16. Len(items') = K /\ items' \in Seq(Nat)
  BY <1>6, <1>8
<1>17. \A i \in 1..K : /\ items'[i] \in DOMAIN node' /\ node'[items'[i]] = cached'[i]
                       /\ cached'[i].key \in DOMAIN places'
                       /\ places'[cached'[i].key] = items'[i]
  <2>1. ASSUME NEW i \in 1..K
        PROVE  /\ items'[i] \in DOMAIN node' /\ node'[items'[i]] = cached'[i]
               /\ cached'[i].key \in DOMAIN places' /\ places'[cached'[i].key] = items'[i]
    <3>1. i \in 1..N /\ items'[i] = L[i] /\ cached'[i] = Q[i] /\ kept[i] = L[i]
      BY <1>6, <1>10, <1>15
    <3>2. L[i] \in DOMAIN node' /\ node'[L[i]] = node[L[i]]
      BY <1>6, <1>8, <3>1
    <3>3. Q[i].key \in DOMAIN places' /\ places'[Q[i].key] = places[Q[i].key]
      BY <1>8, <1>13
    <3> QED
      BY <1>11, <3>1, <3>2, <3>3
  <2> QED
    BY <2>1
<1>18. ASSUME NEW m \in DOMAIN node' PROVE \E i \in 1..K : items'[i] = m
  BY <1>6, <1>8
<1>19. ASSUME NEW k \in DOMAIN places' PROVE \E i \in 1..K : cached'[i].key = k
  <2>1. k \in D
    BY <1>8
  <2> QED
    BY <1>14, <1>15, <2>1
<1>20. ASSUME NEW i \in 1..K, NEW j \in 1..K, items'[i] = items'[j] PROVE i = j
  BY <1>10, <1>11, <1>15, <1>20
<1>21. ASSUME NEW i \in 1..K, NEW j \in 1..K, cached'[i].key = cached'[j].key PROVE i = j
  BY <1>10, <1>11, <1>15, <1>21
<1> QED
  <2>1. CacheAt(K)'
    BY <1>9, <1>16, <1>17, <1>18, <1>19, <1>20, <1>21 DEF CacheAt, Pair
  <2> QED
    BY <2>1, CacheOKAt
LEMMA ClearKeeps ==
  ASSUME CacheOK, ClearAll
  PROVE  CacheOK'
<1>1. items' = <<>> /\ places' = <<>> /\ node' = <<>> /\ cached' = <<>>
  BY DEF ClearAll
<1> QED
  BY <1>1 DEF CacheOK, CacheAt

LEMMA CacheNextKeeps ==
  CacheOK /\ [CacheNext]_lruVars => CacheOK'
<1> SUFFICES ASSUME CacheOK, [CacheNext]_lruVars PROVE CacheOK'
  OBVIOUS
<1>1. CASE \E k \in Key, v \in CacheValue : Put(k, v) \/ Get(k, v)
  BY <1>1, PutKeeps, GetKeeps
<1>2. CASE Purge
  BY <1>2, PurgeKeeps
<1>3. CASE ClearAll
  BY <1>3, ClearKeeps
<1>4. CASE UNCHANGED lruVars
  BY <1>4 DEF lruVars, CacheOK, CacheAt, Pair
<1> QED
  BY <1>1, <1>2, <1>3, <1>4 DEF CacheNext

LEMMA CacheKeepsUsed == CacheOK => KeepsLastUsed
<1> SUFFICES ASSUME CacheOK PROVE KeepsLastUsed
  OBVIOUS
<1>1. /\ DOMAIN items = 1..Len(items) /\ DOMAIN cached = 1..Len(items)
      /\ cached = [i \in 1..Len(items) |-> cached[i]]
  BY DEF CacheOK, CacheAt
<1>2. [i \in DOMAIN items |-> node[items[i]]] = cached
  BY <1>1 DEF CacheOK, CacheAt
<1>3. DOMAIN places = {cached[i].key : i \in DOMAIN cached}
  <2>1. \A i \in DOMAIN cached : cached[i].key \in DOMAIN places
    BY <1>1 DEF CacheOK, CacheAt
  <2>2. \A k \in DOMAIN places : \E i \in DOMAIN cached : cached[i].key = k
    BY <1>1 DEF CacheOK, CacheAt
  <2> QED
    BY <2>1, <2>2
<1>4. ASSUME NEW k \in DOMAIN places PROVE node[places[k]].key = k
  <2>1. PICK i \in 1..Len(items) : cached[i].key = k
    BY DEF CacheOK, CacheAt
  <2>2. node[items[i]] = cached[i] /\ places[cached[i].key] = items[i]
    BY DEF CacheOK, CacheAt
  <2> QED
    BY <2>1, <2>2
<1>5. ASSUME NEW i \in DOMAIN items, NEW j \in DOMAIN items, items[i] = items[j] PROVE i = j
  BY <1>1, <1>5 DEF CacheOK, CacheAt
<1> QED
  BY <1>2, <1>3, <1>4, <1>5 DEF KeepsLastUsed

\* Whatever was put, looked up, changed in place and purged, the list and the map of
\* the cache in memory hold the keys that were used last, each with the value it had
\* then, for any number of keys and any size (lrucache.hpp:20-57).
THEOREM AlwaysKeepsLastUsed == CacheSpec => []KeepsLastUsed
<1>1. CacheInit => CacheOK
  BY DEF CacheInit, CacheOK, CacheAt
<1> QED
  BY <1>1, CacheNextKeeps, CacheKeepsUsed, PTL DEF CacheSpec

-----------------------------------------------------------------------------
(* SmallVector: the operations on one object.                              *)

\* What a slot holds, and an object.
Slot == Elem \cup {Raw, Gone}
Object == [buf : Seq(Slot), size : Nat, small : BOOLEAN, blocks : Int, faults : Int]

\* A slot to read from, and one to construct in; plain elements have no calls.
Usable(s, k) == podLike \/ s.buf[k] # Raw
Unused(s, k) == podLike \/ s.buf[k] = Raw

\* One object has the slots and the fields of another, but for what it holds.
SameObject(r, s) ==
  /\ r \in Object /\ Len(r.buf) = Len(s.buf)
  /\ r.size = s.size /\ r.small = s.small /\ r.blocks = s.blocks /\ r.faults = s.faults

\* The slots of an object.
LEMMA ObjectFacts ==
  ASSUME NEW s, s \in Object
  PROVE  /\ s.buf \in Seq(Slot) /\ Len(s.buf) \in Nat /\ DOMAIN s.buf = 1..Len(s.buf)
         /\ \A k \in 1..Len(s.buf) : s.buf[k] \in Slot
         /\ s.size \in Nat /\ s.small \in BOOLEAN /\ s.blocks \in Int /\ s.faults \in Int
<1>1. s.buf \in Seq(Slot)
  BY DEF Object
<1>2. \A k \in 1..Len(s.buf) : s.buf[k] \in Slot
  BY <1>1, ElementOfSeq
<1> QED
  BY <1>1, <1>2, LenProperties DEF Object

\* What a step on the slots behind i does to an object s that becomes r.
Constructed(r, s, i, xs) ==
  /\ SameObject(r, s)
  /\ \A k \in 1..Len(s.buf) :
       r.buf[k] = IF k \in (i + 1)..(i + Len(xs)) THEN xs[k - i] ELSE s.buf[k]
Destroyed(r, s, i, j) ==
  /\ SameObject(r, s)
  /\ \A k \in 1..Len(s.buf) : r.buf[k] = IF k \in (i + 1)..j THEN Raw ELSE s.buf[k]
Vacated(r, s, i, j) ==
  /\ SameObject(r, s)
  /\ \A k \in 1..Len(s.buf) :
       r.buf[k] = IF ~podLike /\ k \in (i + 1)..j THEN Gone ELSE s.buf[k]

\* A step on the slots: others, and the same fields.
LEMMA WithSlots ==
  ASSUME NEW s, s \in Object, NEW f, NEW n, n = 0,
         f \in [DOMAIN s.buf -> Slot]
  PROVE  SameObject([s EXCEPT !.buf = f, !.faults = @ + n], s)
<1>1. f \in Seq(Slot) /\ Len(f) = Len(s.buf)
  <2>1. DOMAIN f = 1..Len(s.buf) /\ Len(s.buf) \in Nat
    BY ObjectFacts
  <2>2. f \in [1..Len(s.buf) -> Slot]
    BY <2>1
  <2> QED
    BY <2>1, <2>2, LenProperties DEF Seq
<1>2. s.faults \in Int /\ s.faults + n = s.faults
  BY ObjectFacts
<1> QED
  BY <1>1, <1>2 DEF SameObject, Object

\* No slot of a set is one to complain about.
LEMMA NoFaults ==
  ASSUME NEW S, S = {}
  PROVE  (IF podLike THEN 0 ELSE Cardinality(S)) = 0
<1>1. Cardinality({}) = 0
  BY FS_EmptySet
<1>2. Cardinality(S) = 0
  BY <1>1, Zenon
<1> QED
  BY <1>2

\* Placement new of some elements, in slots without one.
LEMMA ConstructFacts ==
  ASSUME NEW s, s \in Object, NEW i, i \in Nat, NEW xs, xs \in Seq(Slot),
         i + Len(xs) <= Len(s.buf),
         \A k \in (i + 1)..(i + Len(xs)) : Unused(s, k)
  PROVE  Constructed(Construct(s, i, xs), s, i, xs)
<1> DEFINE f == [k \in DOMAIN s.buf |-> IF k \in (i + 1)..(i + Len(xs)) THEN xs[k - i]
                                        ELSE s.buf[k]]
           S == {k \in (i + 1)..(i + Len(xs)) : s.buf[k] # Raw}
           n == IF podLike THEN 0 ELSE Cardinality(S)
<1>1. Construct(s, i, xs) = [s EXCEPT !.buf = f, !.faults = @ + n]
  BY DEF Construct, Slots
<1>2. n = 0
  <2>1. CASE podLike
    BY <2>1
  <2>2. CASE ~podLike
    <3>1. S = {}
      BY <2>2 DEF Unused
    <3> HIDE DEF S
    <3> QED
      BY <3>1, NoFaults
  <2> QED
    BY <2>1, <2>2
<1>3. \A k \in 1..Len(s.buf) : f[k] \in Slot
  <2> SUFFICES ASSUME NEW k \in 1..Len(s.buf) PROVE f[k] \in Slot
    OBVIOUS
  <2>1. Len(xs) \in Nat /\ DOMAIN s.buf = 1..Len(s.buf)
    BY ObjectFacts, LenProperties
  <2>2. CASE k \in (i + 1)..(i + Len(xs))
    <3>1. k - i \in 1..Len(xs)
      BY <2>1, <2>2
    <3>2. xs[k - i] \in Slot
      BY <3>1, ElementOfSeq
    <3> QED
      BY <2>1, <2>2, <3>2
  <2>3. CASE k \notin (i + 1)..(i + Len(xs))
    BY <2>1, <2>3, ObjectFacts
  <2> QED
    BY <2>2, <2>3
<1>4. f \in [DOMAIN s.buf -> Slot]
  <2>1. DOMAIN s.buf = 1..Len(s.buf)
    BY ObjectFacts
  <2> QED
    BY <1>3, <2>1
<1>5. SameObject([s EXCEPT !.buf = f, !.faults = @ + n], s)
  <2> HIDE DEF f, n
  <2> QED
    BY <1>2, <1>4, WithSlots
<1>6. [s EXCEPT !.buf = f, !.faults = @ + n].buf = f
  <2> HIDE DEF f, n
  <2> QED
    BY DEF Object
<1>7. \A k \in 1..Len(s.buf) : f[k] = IF k \in (i + 1)..(i + Len(xs)) THEN xs[k - i] ELSE s.buf[k]
  BY ObjectFacts
<1> HIDE DEF f, n
<1> QED
  BY <1>1, <1>5, <1>6, <1>7 DEF Constructed

\* Assignment of some elements, to slots with one.
LEMMA AssignFacts ==
  ASSUME NEW s, s \in Object, NEW i, i \in Nat, NEW xs, xs \in Seq(Slot),
         i + Len(xs) <= Len(s.buf),
         \A k \in (i + 1)..(i + Len(xs)) : Usable(s, k)
  PROVE  Constructed(Assign(s, i, xs), s, i, xs)
<1> DEFINE f == [k \in DOMAIN s.buf |-> IF k \in (i + 1)..(i + Len(xs)) THEN xs[k - i]
                                        ELSE s.buf[k]]
           S == {k \in (i + 1)..(i + Len(xs)) : s.buf[k] = Raw}
           n == IF podLike THEN 0 ELSE Cardinality(S)
<1>1. Assign(s, i, xs) = [s EXCEPT !.buf = f, !.faults = @ + n]
  BY DEF Assign, Slots
<1>2. n = 0
  <2>1. CASE podLike
    BY <2>1
  <2>2. CASE ~podLike
    <3>1. S = {}
      BY <2>2 DEF Usable
    <3> HIDE DEF S
    <3> QED
      BY <3>1, NoFaults
  <2> QED
    BY <2>1, <2>2
<1>3. \A k \in 1..Len(s.buf) : f[k] \in Slot
  <2> SUFFICES ASSUME NEW k \in 1..Len(s.buf) PROVE f[k] \in Slot
    OBVIOUS
  <2>1. Len(xs) \in Nat /\ DOMAIN s.buf = 1..Len(s.buf)
    BY ObjectFacts, LenProperties
  <2>2. CASE k \in (i + 1)..(i + Len(xs))
    <3>1. k - i \in 1..Len(xs)
      BY <2>1, <2>2
    <3>2. xs[k - i] \in Slot
      BY <3>1, ElementOfSeq
    <3> QED
      BY <2>1, <2>2, <3>2
  <2>3. CASE k \notin (i + 1)..(i + Len(xs))
    BY <2>1, <2>3, ObjectFacts
  <2> QED
    BY <2>2, <2>3
<1>4. f \in [DOMAIN s.buf -> Slot]
  <2>1. DOMAIN s.buf = 1..Len(s.buf)
    BY ObjectFacts
  <2> QED
    BY <1>3, <2>1
<1>5. SameObject([s EXCEPT !.buf = f, !.faults = @ + n], s)
  <2> HIDE DEF f, n
  <2> QED
    BY <1>2, <1>4, WithSlots
<1>6. [s EXCEPT !.buf = f, !.faults = @ + n].buf = f
  <2> HIDE DEF f, n
  <2> QED
    BY DEF Object
<1>7. \A k \in 1..Len(s.buf) : f[k] = IF k \in (i + 1)..(i + Len(xs)) THEN xs[k - i] ELSE s.buf[k]
  BY ObjectFacts
<1> HIDE DEF f, n
<1> QED
  BY <1>1, <1>5, <1>6, <1>7 DEF Constructed

\* The end of some elements, in slots with one.
LEMMA DestroyFacts ==
  ASSUME NEW s, s \in Object, NEW i, i \in Nat, NEW j, j \in Nat, j <= Len(s.buf),
         \A k \in (i + 1)..j : Usable(s, k)
  PROVE  Destroyed(Destroy(s, i, j), s, i, j)
<1> DEFINE f == [k \in DOMAIN s.buf |-> IF k \in (i + 1)..j THEN Raw ELSE s.buf[k]]
           S == {k \in (i + 1)..j : s.buf[k] = Raw}
           n == IF podLike THEN 0 ELSE Cardinality(S)
<1>1. Destroy(s, i, j) = [s EXCEPT !.buf = f, !.faults = @ + n]
  BY DEF Destroy, Slots
<1>2. n = 0
  <2>1. CASE podLike
    BY <2>1
  <2>2. CASE ~podLike
    <3>1. S = {}
      BY <2>2 DEF Usable
    <3> HIDE DEF S
    <3> QED
      BY <3>1, NoFaults
  <2> QED
    BY <2>1, <2>2
<1>3. f \in [DOMAIN s.buf -> Slot]
  BY ObjectFacts DEF Slot
<1>4. SameObject([s EXCEPT !.buf = f, !.faults = @ + n], s)
  <2> HIDE DEF f, n
  <2> QED
    BY <1>2, <1>3, WithSlots
<1>5. [s EXCEPT !.buf = f, !.faults = @ + n].buf = f
  <2> HIDE DEF f, n
  <2> QED
    BY DEF Object
<1>6. \A k \in 1..Len(s.buf) : f[k] = IF k \in (i + 1)..j THEN Raw ELSE s.buf[k]
  BY ObjectFacts
<1> HIDE DEF f, n
<1> QED
  BY <1>1, <1>4, <1>5, <1>6 DEF Destroyed

\* What std::move leaves.
LEMMA VacateFacts ==
  ASSUME NEW s, s \in Object, NEW i, i \in Nat, NEW j, j \in Nat
  PROVE  Vacated(Vacate(s, i, j), s, i, j)
<1>1. CASE podLike
  BY <1>1, ObjectFacts DEF Vacate, Vacated, SameObject
<1>2. CASE ~podLike
  <2> DEFINE f == [k \in DOMAIN s.buf |-> IF k \in (i + 1)..j THEN Gone ELSE s.buf[k]]
  <2>1. Vacate(s, i, j) = [s EXCEPT !.buf = f]
    BY <1>2 DEF Vacate, Slots
  <2>2. f \in [DOMAIN s.buf -> Slot]
    BY ObjectFacts DEF Slot
  <2>3. f \in Seq(Slot) /\ Len(f) = Len(s.buf)
    <3>1. f \in [1..Len(s.buf) -> Slot] /\ Len(s.buf) \in Nat
      BY <2>2, ObjectFacts
    <3> HIDE DEF f
    <3> QED
      BY <3>1, LenProperties DEF Seq
  <2>4. SameObject([s EXCEPT !.buf = f], s)
    <3> HIDE DEF f
    <3> QED
      BY <2>3 DEF Object, SameObject
  <2>5. [s EXCEPT !.buf = f].buf = f
    <3> HIDE DEF f
    <3> QED
      BY DEF Object
  <2>6. \A k \in 1..Len(s.buf) : f[k] = IF k \in (i + 1)..j THEN Gone ELSE s.buf[k]
    BY ObjectFacts
  <2> HIDE DEF f
  <2> QED
    BY <1>2, <2>1, <2>4, <2>5, <2>6 DEF Vacated
<1> QED
  BY <1>1, <1>2

\* A buffer without elements is given up.
LEMMA ReleaseFacts ==
  ASSUME NEW s, s \in Object, \A k \in 1..Len(s.buf) : Unused(s, k)
  PROVE  /\ Release(s) \in Object
         /\ Release(s).buf = s.buf /\ Release(s).size = s.size /\ Release(s).small = s.small
         /\ Release(s).blocks = s.blocks - (IF s.small THEN 0 ELSE 1)
         /\ Release(s).faults = s.faults
<1> DEFINE S == {k \in DOMAIN s.buf : s.buf[k] # Raw}
           n == IF podLike THEN 0 ELSE Cardinality(S)
           b == IF s.small THEN 0 ELSE 1
<1>1. n = 0
  <2>1. CASE podLike
    BY <2>1
  <2>2. CASE ~podLike
    <3>1. S = {}
      BY <2>2, ObjectFacts DEF Unused
    <3> HIDE DEF S
    <3> QED
      BY <3>1, NoFaults
  <2> QED
    BY <2>1, <2>2
<1>2. Release(s) = [s EXCEPT !.blocks = @ - b, !.faults = @ + n]
  BY DEF Release
<1>3. b \in Int /\ s.faults + 0 = s.faults
  BY ObjectFacts
<1> HIDE DEF n, b
<1>4. PICK m \in Int : m = s.blocks - b
  BY <1>3, ObjectFacts
<1>5. PICK r : r = [s EXCEPT !.blocks = m, !.faults = s.faults]
  OBVIOUS
<1>6. Release(s) = r
  BY <1>1, <1>2, <1>3, <1>4, <1>5
<1>7. /\ r \in Object /\ r.buf = s.buf /\ r.size = s.size /\ r.small = s.small
      /\ r.blocks = m /\ r.faults = s.faults
  BY <1>5 DEF Object
<1> QED
  BY <1>4, <1>6, <1>7 DEF b

-----------------------------------------------------------------------------
(* What the elements of an object are.                                     *)

\* The object has the elements c, and nothing else was constructed or lost.
Keeps(s, c) ==
  /\ s \in Object /\ c \in Seq(Elem)
  /\ s.size = Len(c) /\ Len(c) <= Len(s.buf) /\ s.faults = 0
  /\ s.blocks = (IF s.small THEN 0 ELSE 1)
  /\ \A k \in 1..Len(c) : s.buf[k] = c[k]
  /\ \A k \in (Len(c) + 1)..Len(s.buf) : Unused(s, k)

\* The elements of a sequence of them can be used.
LEMMA KeepsFacts ==
  ASSUME NEW s, NEW c, Keeps(s, c)
  PROVE  /\ s \in Object /\ c \in Seq(Elem) /\ c \in Seq(Slot)
         /\ Len(c) \in Nat /\ Len(s.buf) \in Nat /\ s.size = Len(c) /\ Len(c) <= Len(s.buf)
         /\ \A k \in 1..Len(c) : /\ c[k] \in Elem /\ s.buf[k] = c[k] /\ Usable(s, k)
         /\ \A k \in (Len(c) + 1)..Len(s.buf) : Unused(s, k)
         /\ s.faults = 0 /\ s.blocks = (IF s.small THEN 0 ELSE 1)
<1>1. s \in Object /\ c \in Seq(Elem)
  BY DEF Keeps
<1>2. c \in Seq(Slot)
  BY <1>1 DEF Slot
<1>3. \A k \in 1..Len(c) : c[k] \in Elem
  BY <1>1, ElementOfSeq
<1>4. Len(c) \in Nat /\ Len(s.buf) \in Nat
  BY <1>1, ObjectFacts, LenProperties
<1> QED
  BY <1>1, <1>2, <1>3, <1>4, SlotAssumption DEF Keeps, Usable

-----------------------------------------------------------------------------
(* SmallVector: growth.                                                    *)

\* A nonempty set of natural numbers has a least element.
LEMMA LeastNumber ==
  ASSUME NEW S, S \subseteq Nat, S # {}
  PROVE  \E m \in S : \A k \in S : m <= k
<1>1. PICK R : R = OpToRel(<, Nat)
  OBVIOUS
<1>2. IsWellFoundedOn(R, Nat)
  BY <1>1, NatLessThanWellFounded
<1>3. PICK x \in S : \A y \in S : ~ (<<y, x>> \in R)
  BY <1>2, WFMin
<1>4. \A y, z \in Nat : <<y, z>> \in R <=> y < z
  BY <1>1 DEF OpToRel
<1>5. ASSUME NEW y \in S PROVE x <= y
  <2>1. x \in Nat /\ y \in Nat
    OBVIOUS
  <2>2. ~(y < x)
    BY <1>3, <1>4, <2>1
  <2> QED
    BY <2>1, <2>2
<1> QED
  BY <1>5

\* There is a power of two above every number, and NextPowerOf2 is above it.
LEMMA PowerAbove ==
  ASSUME NEW n, n \in Nat
  PROVE  NextPowerOf2(n) \in Nat /\ NextPowerOf2(n) > n
<1> DEFINE IsPower(f, m) == f = [e \in 0..m |-> IF e = 0 THEN 1 ELSE 2 * f[e - 1]]
           power == CHOOSE f : IsPower(f, n)
           Top(e) == power[e] > n /\ \A d \in 0..e-1 : power[d] <= n
           Bad == {m \in 0..n : ~ \E f : IsPower(f, m) /\ \A e \in 0..m : f[e] \in Nat /\ f[e] > e}
<1>1. Bad = {}
  <2> SUFFICES ASSUME Bad # {} PROVE FALSE
    OBVIOUS
  <2>1. PICK m \in Bad : \A k \in Bad : m <= k
    <3>1. Bad \subseteq Nat
      OBVIOUS
    <3> HIDE DEF Bad
    <3> QED
      BY <3>1, LeastNumber
  <2>2. m \in 0..n /\ ~ \E f : IsPower(f, m) /\ \A e \in 0..m : f[e] \in Nat /\ f[e] > e
    BY <2>1
  <2>3. CASE m = 0
    <3> DEFINE f == [e \in 0..0 |-> 1]
    <3>1. IsPower(f, 0) /\ \A e \in 0..0 : f[e] \in Nat /\ f[e] > e
      OBVIOUS
    <3> QED
      BY <2>2, <2>3, <3>1
  <2>4. CASE m # 0
    <3>1. m \in 1..n /\ m - 1 \in 0..n /\ m - 1 \notin Bad
      <4>1. m \in 1..n /\ m - 1 \in 0..n /\ ~(m <= m - 1)
        BY <2>2, <2>4
      <4> HIDE DEF Bad
      <4> QED
        BY <2>1, <4>1
    <3>2. PICK f : IsPower(f, m - 1) /\ \A e \in 0..(m - 1) : f[e] \in Nat /\ f[e] > e
      BY <3>1
    <3> DEFINE g == [e \in 0..m |-> IF e = m THEN 2 * f[m - 1] ELSE f[e]]
    <3>3. \A e \in 0..m : /\ g[e] = IF e = 0 THEN 1 ELSE 2 * g[e - 1]
                          /\ g[e] \in Nat /\ g[e] > e
      <4> SUFFICES ASSUME NEW e \in 0..m
                   PROVE  /\ g[e] = IF e = 0 THEN 1 ELSE 2 * g[e - 1]
                          /\ g[e] \in Nat /\ g[e] > e
        OBVIOUS
      <4>1. CASE e = m
        <5>1. m - 1 \in 0..m /\ m - 1 # m /\ m - 1 \in 0..(m - 1)
          BY <3>1
        <5>2. f[m - 1] \in Nat /\ f[m - 1] > m - 1
          BY <3>2, <5>1
        <5> QED
          BY <2>4, <3>1, <4>1, <5>1, <5>2
      <4>2. CASE e # m
        <5>1. e \in 0..(m - 1) /\ g[e] = f[e]
          BY <3>1, <4>2
        <5>2. f[e] = IF e = 0 THEN 1 ELSE 2 * f[e - 1]
          BY <3>2, <5>1
        <5>3. e # 0 => g[e - 1] = f[e - 1]
          BY <3>1, <5>1
        <5> QED
          BY <3>2, <5>1, <5>2, <5>3
      <4> QED
        BY <4>1, <4>2
    <3>4. IsPower(g, m)
      BY <3>3
    <3> QED
      BY <2>2, <3>3, <3>4
  <2> QED
    BY <2>3, <2>4
<1>2. PICK f : IsPower(f, n) /\ \A e \in 0..n : f[e] \in Nat /\ f[e] > e
  <2>1. n \in 0..n /\ n \notin Bad
    <3> HIDE DEF Bad
    <3> QED
      BY <1>1
  <2> QED
    BY <2>1
<1>3. \A g : IsPower(g, n) => g = f
  <2> SUFFICES ASSUME NEW g, IsPower(g, n), g # f PROVE FALSE
    OBVIOUS
  <2> DEFINE D == {e \in 0..n : g[e] # f[e]}
  <2>1. D # {}
    BY <1>2
  <2>2. PICK m \in D : \A k \in D : m <= k
    <3>1. D \subseteq Nat
      OBVIOUS
    <3> HIDE DEF D
    <3> QED
      BY <2>1, <3>1, LeastNumber
  <2>3. m \in 0..n /\ g[m] # f[m]
    BY <2>2
  <2>4. /\ g[m] = IF m = 0 THEN 1 ELSE 2 * g[m - 1]
        /\ f[m] = IF m = 0 THEN 1 ELSE 2 * f[m - 1]
    BY <1>2, <2>3
  <2>5. m # 0 => m - 1 \in 0..n /\ ~(m <= m - 1)
    BY <2>3
  <2>6. m # 0 => g[m - 1] = f[m - 1]
    BY <2>2, <2>5
  <2> QED
    BY <2>3, <2>4, <2>6
<1>4. power = f
  <2>1. IsPower(power, n)
    BY <1>2
  <2> HIDE DEF power
  <2> QED
    BY <1>3, <2>1
<1>5. NextPowerOf2(n) = power[CHOOSE e \in 0..n : Top(e)]
  BY Zenon DEF NextPowerOf2
<1> HIDE DEF power
<1>6. \E e \in 0..n : Top(e)
  <2> DEFINE A == {e \in 0..n : power[e] > n}
  <2>1. n \in A
    BY <1>2, <1>4
  <2>2. PICK e \in A : \A k \in A : e <= k
    <3>1. A \subseteq Nat /\ A # {}
      BY <2>1
    <3> HIDE DEF A
    <3> QED
      BY <3>1, LeastNumber
  <2>3. e \in 0..n /\ power[e] > n
    BY <2>2
  <2>4. ASSUME NEW d \in 0..(e - 1) PROVE power[d] <= n
    <3>1. d \in 0..n /\ ~(e <= d)
      BY <2>3
    <3>2. ~(power[d] > n)
      BY <2>2, <3>1
    <3>3. power[d] \in Nat
      BY <1>2, <1>4, <3>1
    <3> QED
      BY <3>2, <3>3
  <2> QED
    BY <2>3, <2>4
<1>7. PICK e \in 0..n : e = (CHOOSE d \in 0..n : Top(d)) /\ Top(e)
  <2> HIDE DEF Top
  <2> QED
    BY <1>6
<1> QED
  BY <1>2, <1>4, <1>5, <1>7

\* A vector that grows gets more slots, and as many as it is asked for.
LEMMA GrownFacts ==
  ASSUME NEW n, n \in Nat, NEW least, least \in Nat
  PROVE  Grown(n, least) \in Nat /\ Grown(n, least) > n /\ Grown(n, least) >= least
<1>1. n + 2 \in Nat /\ 2 * n + 1 \in Nat /\ 2 * n + 1 > n
  OBVIOUS
<1>2. NextPowerOf2(n + 2) \in Nat /\ NextPowerOf2(n + 2) > n + 2
  BY <1>1, PowerAbove
<1>3. PICK d \in Nat : d = (IF podLike THEN 2 * n + 1 ELSE NextPowerOf2(n + 2)) /\ d > n
  <2>1. CASE podLike
    BY <1>1, <2>1
  <2>2. CASE ~podLike
    BY <1>1, <1>2, <2>2
  <2> QED
    BY <2>1, <2>2
<1>4. Grown(n, least) = IF d < least THEN least ELSE d
  BY <1>3 DEF Grown
<1> QED
  BY <1>3, <1>4

\* The elements of an object, as its slots and as a sequence.
LEMMA ContentsFacts ==
  ASSUME NEW s, NEW c, Keeps(s, c)
  PROVE  Contents(s) = c
<1>1. /\ s \in Object /\ c \in Seq(Slot) /\ Len(c) \in Nat /\ Len(s.buf) \in Nat
      /\ s.size = Len(c) /\ Len(c) <= Len(s.buf)
      /\ \A k \in 1..Len(c) : s.buf[k] = c[k]
  BY KeepsFacts
<1>2. s.buf \in Seq(Slot)
  BY <1>1, ObjectFacts
<1>3. /\ SubSeq(s.buf, 1, Len(c)) \in Seq(Slot)
      /\ Len(SubSeq(s.buf, 1, Len(c))) = Len(c)
      /\ \A k \in 1..Len(c) : SubSeq(s.buf, 1, Len(c))[k] = s.buf[k]
  BY <1>1, <1>2
<1>4. SubSeq(s.buf, 1, Len(c)) = c
  <2> DEFINE t == SubSeq(s.buf, 1, Len(c))
  <2>1. t \in Seq(Slot) /\ Len(t) = Len(c) /\ \A k \in 1..Len(c) : t[k] = c[k]
    BY <1>1, <1>3
  <2> HIDE DEF t
  <2>2. t = c
    BY <1>1, <2>1, SeqEqual
  <2> QED
    BY <2>2 DEF t
<1> QED
  BY <1>1, <1>4 DEF Contents

\* grow moves the elements to a buffer of its own.
LEMMA GrowFacts ==
  ASSUME NEW s, NEW c, Keeps(s, c), NEW least, least \in Nat
  PROVE  /\ Keeps(Grow(s, least), c)
         /\ Capacity(Grow(s, least)) >= least /\ Capacity(Grow(s, least)) > Capacity(s)
<1> DEFINE n == Len(c)
<1>1. /\ s \in Object /\ c \in Seq(Slot) /\ c \in Seq(Elem) /\ n \in Nat /\ Len(s.buf) \in Nat
      /\ s.size = n /\ n <= Len(s.buf) /\ s.faults = 0
      /\ \A k \in 1..n : Usable(s, k)
      /\ \A k \in (n + 1)..Len(s.buf) : Unused(s, k)
      /\ s.blocks = (IF s.small THEN 0 ELSE 1)
  BY KeepsFacts
<1>2. PICK gone : gone = Vacate(s, 0, s.size) /\ gone = Vacate(s, 0, n)
  BY <1>1
<1>3. /\ SameObject(gone, s)
      /\ \A k \in 1..Len(s.buf) :
           gone.buf[k] = IF ~podLike /\ k \in 1..n THEN Gone ELSE s.buf[k]
  <2>1. 0 \in Nat
    OBVIOUS
  <2>2. Vacated(gone, s, 0, n)
    BY <1>1, <1>2, <2>1, VacateFacts
  <2> QED
    BY <2>2 DEF Vacated
<1>4. PICK over : over = Destroy(gone, 0, s.size) /\ over = Destroy(gone, 0, n)
  BY <1>1
<1>5. /\ SameObject(over, gone)
      /\ \A k \in 1..Len(s.buf) : over.buf[k] = IF k \in 1..n THEN Raw ELSE gone.buf[k]
  <2>1. gone \in Object /\ Len(gone.buf) = Len(s.buf)
    BY <1>3 DEF SameObject
  <2>2. \A k \in (0 + 1)..n : Usable(gone, k)
    BY <1>1, <1>3, SlotAssumption DEF Usable
  <2>3. 0 \in Nat /\ n <= Len(gone.buf)
    BY <1>1, <2>1
  <2>4. Destroyed(over, gone, 0, n)
    BY <1>1, <1>4, <2>1, <2>2, <2>3, DestroyFacts
  <2> QED
    BY <2>1, <2>4 DEF Destroyed
<1>6. \A k \in 1..Len(over.buf) : Unused(over, k)
  <2>1. Len(over.buf) = Len(s.buf)
    BY <1>3, <1>5 DEF SameObject
  <2> SUFFICES ASSUME NEW k \in 1..Len(s.buf) PROVE Unused(over, k)
    BY <2>1
  <2>2. CASE k \in 1..n
    BY <1>5, <2>2 DEF Unused
  <2>3. CASE k \notin 1..n
    <3>1. k \in (n + 1)..Len(s.buf)
      BY <1>1, <2>3
    <3> QED
      BY <1>1, <1>3, <1>5, <2>3, <3>1 DEF Unused
  <2> QED
    BY <2>2, <2>3
<1>7. PICK old : old = Release(over)
  OBVIOUS
<1>8. old \in Object /\ old.size = n /\ old.blocks = 0 /\ old.faults = 0
  <2>1. over \in Object /\ over.size = n /\ over.small = s.small /\ over.blocks = s.blocks
        /\ over.faults = 0
    BY <1>1, <1>3, <1>5 DEF SameObject
  <2>2. /\ old \in Object /\ old.size = over.size
        /\ old.blocks = over.blocks - (IF over.small THEN 0 ELSE 1)
        /\ old.faults = over.faults
    BY <1>6, <1>7, <2>1, ReleaseFacts
  <2>3. s.blocks - (IF s.small THEN 0 ELSE 1) = 0
    BY <1>1
  <2> QED
    BY <2>1, <2>2, <2>3
<1>9. PICK m \in Nat : m = Grown(Capacity(s), least) /\ m > Len(s.buf) /\ m >= least
  BY <1>1, GrownFacts DEF Capacity
<1>10. PICK b : b = Blank(m)
  OBVIOUS
<1>11. b \in Seq(Slot) /\ Len(b) = m /\ \A k \in 1..m : b[k] = Raw
  <2>1. b \in [1..m -> Slot]
    BY <1>10 DEF Blank, Slot
  <2> QED
    BY <1>9, <1>10, <2>1, LenProperties DEF Seq, Blank
<1>12. PICK new : new = [old EXCEPT !.buf = b, !.small = FALSE, !.blocks = @ + 1]
  OBVIOUS
<1>13. /\ new \in Object /\ new.buf = b /\ new.size = n /\ new.small = FALSE
       /\ new.blocks = 1 /\ new.faults = 0
  <2>1. new = [old EXCEPT !.buf = b, !.small = FALSE, !.blocks = 1]
    BY <1>8, <1>12
  <2>2. old \in Object /\ b \in Seq(Slot)
    BY <1>8, <1>11
  <2>3. new = [buf |-> b, size |-> old.size, small |-> FALSE, blocks |-> 1, faults |-> old.faults]
    BY <2>1, <2>2 DEF Object
  <2>4. new = [buf |-> b, size |-> n, small |-> FALSE, blocks |-> 1, faults |-> 0]
    BY <1>8, <2>3
  <2>5. n \in Nat
    BY <1>1
  <2> HIDE DEF n
  <2> QED
    BY <2>2, <2>4, <2>5 DEF Object
<1>14. Contents(s) = c
  BY ContentsFacts
<1>15. Grow(s, least) = Construct(new, 0, c)
  BY <1>2, <1>4, <1>7, <1>9, <1>10, <1>12, <1>14 DEF Grow
<1>16. Constructed(Construct(new, 0, c), new, 0, c)
  <2>1. 0 + n <= Len(new.buf) /\ 0 \in Nat
    BY <1>1, <1>9, <1>11, <1>13
  <2>2. \A k \in (0 + 1)..(0 + n) : Unused(new, k)
    BY <1>1, <1>9, <1>11, <1>13 DEF Unused
  <2> QED
    BY <1>1, <1>13, <2>1, <2>2, ConstructFacts
<1>17. PICK r : r = Grow(s, least)
  OBVIOUS
<1>18. /\ r \in Object /\ Len(r.buf) = m /\ r.size = n /\ r.small = FALSE /\ r.blocks = 1
       /\ r.faults = 0
       /\ \A k \in 1..m : r.buf[k] = IF k \in (0 + 1)..(0 + n) THEN c[k - 0] ELSE b[k]
  BY <1>11, <1>13, <1>15, <1>16, <1>17 DEF SameObject, Constructed
<1>19. \A k \in 1..n : r.buf[k] = c[k]
  BY <1>1, <1>9, <1>18
<1>20. \A k \in (n + 1)..m : Unused(r, k)
  BY <1>1, <1>11, <1>18 DEF Unused
<1>21. n <= m
  BY <1>1, <1>9
<1>22. Keeps(r, c)
  BY <1>1, <1>18, <1>19, <1>20, <1>21 DEF Keeps
<1> QED
  BY <1>9, <1>17, <1>18, <1>22 DEF Capacity

\* reserve grows if there are too few slots.
LEMMA ReserveFacts ==
  ASSUME NEW s, NEW c, Keeps(s, c), NEW n, n \in Nat
  PROVE  /\ Keeps(Reserve(s, n), c)
         /\ Len(Reserve(s, n).buf) >= n
         /\ Len(Reserve(s, n).buf) \in Nat
<1>1. Len(s.buf) \in Nat
  BY KeepsFacts
<1>2. CASE Capacity(s) < n
  <2>1. Keeps(Grow(s, n), c) /\ Capacity(Grow(s, n)) >= n
    BY GrowFacts
  <2>2. Len(Grow(s, n).buf) \in Nat
    BY <2>1, KeepsFacts
  <2> QED
    BY <1>2, <2>1, <2>2 DEF Reserve, Capacity
<1>3. CASE ~(Capacity(s) < n)
  BY <1>1, <1>3 DEF Reserve, Capacity
<1> QED
  BY <1>2, <1>3

-----------------------------------------------------------------------------
(* SmallVector: the sequences that the operations make.                    *)

\* A sequence with some elements in the place of others.
Spliced(c, i, j, xs) == SubSeq(c, 1, i) \o xs \o SubSeq(c, j + 1, Len(c))

\* What it is, element by element; and one sequence behind another.
IsSpliced(d, c, i, j, xs) ==
  /\ Len(d) = i + Len(xs) + (Len(c) - j)
  /\ \A k \in 1..Len(d) : d[k] = IF k <= i THEN c[k]
                                ELSE IF k <= i + Len(xs) THEN xs[k - i]
                                ELSE c[k - i - Len(xs) + j]
IsJoined(d, c, xs) ==
  /\ Len(d) = Len(c) + Len(xs)
  /\ \A k \in 1..Len(d) : d[k] = IF k <= Len(c) THEN c[k] ELSE xs[k - Len(c)]

\* The elements i+1 to j.
LEMMA PartFacts ==
  ASSUME NEW S, NEW c, c \in Seq(S), NEW i, i \in Nat, NEW j, j \in Nat, i <= j, j <= Len(c)
  PROVE  /\ SubSeq(c, i + 1, j) \in Seq(S)
         /\ Len(SubSeq(c, i + 1, j)) = j - i
         /\ \A k \in 1..(j - i) : SubSeq(c, i + 1, j)[k] = c[k + i]
<1>1. i + 1 \in Int /\ j \in Int
  OBVIOUS
<1>2. \A k \in (i + 1)..j : c[k] \in S
  <2> SUFFICES ASSUME NEW k \in (i + 1)..j PROVE c[k] \in S
    OBVIOUS
  <2>1. Len(c) \in Nat
    BY LenProperties
  <2>2. k \in 1..Len(c)
    BY <2>1
  <2> QED
    BY <2>2, ElementOfSeq
<1>3. /\ SubSeq(c, i + 1, j) \in Seq(S)
      /\ Len(SubSeq(c, i + 1, j)) = IF i + 1 <= j THEN j - (i + 1) + 1 ELSE 0
      /\ \A k \in 1..(j - (i + 1) + 1) : SubSeq(c, i + 1, j)[k] = c[i + 1 + k - 1]
  BY <1>1, <1>2, SubSeqProperties
<1>4. Len(SubSeq(c, i + 1, j)) = j - i
  BY <1>3
<1>5. ASSUME NEW k \in 1..(j - i) PROVE SubSeq(c, i + 1, j)[k] = c[k + i]
  <2>1. k \in 1..(j - (i + 1) + 1) /\ i + 1 + k - 1 = k + i
    OBVIOUS
  <2> QED
    BY <1>3, <2>1
<1> QED
  BY <1>3, <1>4, <1>5

\* The first elements.
LEMMA FrontFacts ==
  ASSUME NEW S, NEW c, c \in Seq(S), NEW j, j \in Nat, j <= Len(c)
  PROVE  /\ SubSeq(c, 1, j) \in Seq(S)
         /\ Len(SubSeq(c, 1, j)) = j
         /\ \A k \in 1..j : SubSeq(c, 1, j)[k] = c[k]
<1>1. PICK i : i = 0
  OBVIOUS
<1>2. i \in Nat /\ i + 1 = 1 /\ i <= j /\ j - i = j /\ \A k \in 1..j : k + i = k
  BY <1>1
<1>3. /\ SubSeq(c, i + 1, j) \in Seq(S)
      /\ Len(SubSeq(c, i + 1, j)) = j - i
      /\ \A k \in 1..(j - i) : SubSeq(c, i + 1, j)[k] = c[k + i]
  BY <1>2, PartFacts
<1> QED
  BY <1>2, <1>3

\* A sequence behind another one.
LEMMA JoinFacts ==
  ASSUME NEW S, NEW c, c \in Seq(S), NEW xs, xs \in Seq(S)
  PROVE  c \o xs \in Seq(S) /\ IsJoined(c \o xs, c, xs)
  BY ConcatProperties DEF IsJoined

\* What a splice makes, element by element.
LEMMA SplicedFacts ==
  ASSUME NEW S, NEW c, c \in Seq(S), NEW i, i \in Nat, NEW j, j \in Nat, i <= j, j <= Len(c),
         NEW xs, xs \in Seq(S)
  PROVE  /\ Spliced(c, i, j, xs) \in Seq(S)
         /\ IsSpliced(Spliced(c, i, j, xs), c, i, j, xs)
<1> DEFINE n == Len(c)
           m == Len(xs)
<1>1. n \in Nat /\ m \in Nat /\ n <= Len(c)
  BY LenProperties
<1>2. PICK a : a = SubSeq(c, 1, i)
  OBVIOUS
<1>3. a \in Seq(S) /\ Len(a) = i /\ \A k \in 1..i : a[k] = c[k]
  <2>1. i <= Len(c)
    BY <1>1
  <2> QED
    BY <1>2, <2>1, FrontFacts
<1>4. PICK z : z = SubSeq(c, j + 1, n)
  OBVIOUS
<1>5. z \in Seq(S) /\ Len(z) = n - j /\ \A k \in 1..(n - j) : z[k] = c[k + j]
  <2> HIDE DEF n
  <2> QED
    BY <1>1, <1>4, PartFacts DEF n
<1>6. PICK b : b = a \o xs
  OBVIOUS
<1>7. /\ b \in Seq(S) /\ Len(b) = i + m
      /\ \A k \in 1..(i + m) : b[k] = IF k <= i THEN a[k] ELSE xs[k - i]
  <2>1. b \in Seq(S) /\ IsJoined(b, a, xs)
    BY <1>3, <1>6, JoinFacts
  <2> QED
    BY <1>3, <2>1 DEF IsJoined
<1>8. PICK d : d = b \o z
  OBVIOUS
<1>9. /\ d \in Seq(S) /\ Len(d) = i + m + (n - j)
      /\ \A k \in 1..(i + m + (n - j)) : d[k] = IF k <= i + m THEN b[k] ELSE z[k - (i + m)]
  <2>1. d \in Seq(S) /\ IsJoined(d, b, z)
    BY <1>5, <1>7, <1>8, JoinFacts
  <2> QED
    BY <1>5, <1>7, <2>1 DEF IsJoined
<1>10. d = Spliced(c, i, j, xs)
  BY <1>2, <1>4, <1>6, <1>8 DEF Spliced
<1>11. ASSUME NEW k \in 1..(i + m + (n - j))
       PROVE  d[k] = IF k <= i THEN c[k] ELSE IF k <= i + m THEN xs[k - i] ELSE c[k - i - m + j]
  <2>1. CASE k <= i + m
    <3>1. k \in 1..(i + m)
      BY <1>1, <2>1
    <3>2. k <= i => k \in 1..i
      BY <3>1
    <3> QED
      BY <1>3, <1>7, <1>9, <2>1, <3>1, <3>2
  <2>2. CASE ~(k <= i + m)
    <3>1. k - (i + m) \in 1..(n - j) /\ k - (i + m) + j = k - i - m + j /\ ~(k <= i)
      BY <1>1, <2>2
    <3> QED
      BY <1>5, <1>9, <2>2, <3>1
  <2> QED
    BY <2>1, <2>2
<1> QED
  BY <1>9, <1>10, <1>11 DEF IsSpliced

\* A splice at the end, one that drops the end, and one of everything.
LEMMA SplicedAtEnd ==
  ASSUME NEW S, NEW c, c \in Seq(S), NEW xs, xs \in Seq(S)
  PROVE  Spliced(c, Len(c), Len(c), xs) = c \o xs
<1>1. Len(c) \in Nat /\ Len(xs) \in Nat /\ Len(c) <= Len(c)
  BY LenProperties
<1>2. PICK d, e : d = Spliced(c, Len(c), Len(c), xs) /\ e = c \o xs
  OBVIOUS
<1>3. e \in Seq(S) /\ IsJoined(e, c, xs)
  BY <1>2, JoinFacts
<1>4. d \in Seq(S) /\ IsSpliced(d, c, Len(c), Len(c), xs)
  BY <1>1, <1>2, SplicedFacts
<1>5. Len(d) = Len(e) /\ Len(d) = Len(c) + Len(xs)
  BY <1>1, <1>3, <1>4 DEF IsJoined, IsSpliced
<1>6. ASSUME NEW k \in 1..Len(d) PROVE d[k] = e[k]
  <2>1. k <= Len(c) + Len(xs)
    BY <1>1, <1>5
  <2>2. d[k] = IF k <= Len(c) THEN c[k] ELSE xs[k - Len(c)]
    BY <1>4, <2>1 DEF IsSpliced
  <2> QED
    BY <1>3, <1>5, <2>2 DEF IsJoined
<1> QED
  BY <1>2, <1>3, <1>4, <1>5, <1>6, SeqEqual

LEMMA SplicedToEnd ==
  ASSUME NEW S, NEW c, c \in Seq(S), NEW i, i \in Nat, i <= Len(c)
  PROVE  Spliced(c, i, Len(c), <<>>) = SubSeq(c, 1, i)
<1>1. PICK xs : xs = <<>>
  OBVIOUS
<1>2. xs \in Seq(S) /\ Len(xs) = 0 /\ Len(c) \in Nat /\ Len(c) <= Len(c)
  BY <1>1, LenProperties, EmptySeq
<1>3. PICK d, e : d = Spliced(c, i, Len(c), xs) /\ e = SubSeq(c, 1, i)
  OBVIOUS
<1>4. e \in Seq(S) /\ Len(e) = i /\ \A k \in 1..i : e[k] = c[k]
  BY <1>3, FrontFacts
<1>5. d \in Seq(S) /\ IsSpliced(d, c, i, Len(c), xs)
  BY <1>2, <1>3, SplicedFacts
<1>6. Len(d) = i
  BY <1>2, <1>5 DEF IsSpliced
<1>7. ASSUME NEW k \in 1..Len(d) PROVE d[k] = e[k]
  BY <1>4, <1>5, <1>6 DEF IsSpliced
<1> QED
  BY <1>1, <1>3, <1>4, <1>5, <1>6, <1>7, SeqEqual

LEMMA SplicedAll ==
  ASSUME NEW S, NEW c, c \in Seq(S), NEW xs, xs \in Seq(S), NEW i, i = 0
  PROVE  Spliced(c, i, Len(c), xs) = xs
<1>1. i \in Nat /\ i <= Len(c) /\ Len(c) \in Nat /\ Len(c) <= Len(c) /\ Len(xs) \in Nat
  BY LenProperties
<1>2. PICK d : d = Spliced(c, i, Len(c), xs)
  OBVIOUS
<1>3. d \in Seq(S) /\ IsSpliced(d, c, i, Len(c), xs)
  BY <1>1, <1>2, SplicedFacts
<1>4. Len(d) = Len(xs)
  BY <1>1, <1>3 DEF IsSpliced
<1>5. ASSUME NEW k \in 1..Len(d) PROVE d[k] = xs[k]
  <2>1. ~(k <= i) /\ k <= i + Len(xs) /\ k - i = k
    BY <1>1, <1>4
  <2> QED
    BY <1>3, <2>1 DEF IsSpliced
<1> QED
  BY <1>2, <1>3, <1>4, <1>5, SeqEqual

-----------------------------------------------------------------------------
(* SmallVector: elements behind the others, and the last ones dropped.     *)

\* An object of another size.
Sized(s, n) == [s EXCEPT !.size = n]

LEMMA SizedFacts ==
  ASSUME NEW s, s \in Object, NEW n, n \in Nat
  PROVE  /\ Sized(s, n) \in Object /\ Sized(s, n).buf = s.buf /\ Sized(s, n).size = n
         /\ Sized(s, n).small = s.small /\ Sized(s, n).blocks = s.blocks
         /\ Sized(s, n).faults = s.faults
  BY DEF Object, Sized

\* What an object must be to keep some elements once it has their number.
LEMMA SizedKeeps ==
  ASSUME NEW s, s \in Object, NEW c, c \in Seq(Elem), NEW n, n = Len(c), n <= Len(s.buf),
         s.faults = 0, s.blocks = (IF s.small THEN 0 ELSE 1),
         \A k \in 1..n : s.buf[k] = c[k],
         \A k \in (n + 1)..Len(s.buf) : Unused(s, k)
  PROVE  Keeps(Sized(s, n), c)
<1>1. n \in Nat
  BY LenProperties
<1>2. PICK r : r = Sized(s, n)
  OBVIOUS
<1>3. /\ r \in Object /\ r.buf = s.buf /\ r.size = n /\ r.small = s.small
      /\ r.blocks = s.blocks /\ r.faults = s.faults
  BY <1>1, <1>2, SizedFacts
<1>4. Keeps(r, c)
  BY <1>3 DEF Keeps, Unused
<1> QED
  BY <1>2, <1>4

\* Elements constructed behind the others.
LEMMA ExtendKeeps ==
  ASSUME NEW s, NEW c, Keeps(s, c), NEW xs, xs \in Seq(Elem), NEW n, n = Len(c),
         n + Len(xs) <= Len(s.buf)
  PROVE  /\ Construct(s, n, xs) \in Object
         /\ Construct(s, n, xs).size = n
         /\ Keeps(Sized(Construct(s, n, xs), n + Len(xs)), c \o xs)
<1>1. /\ s \in Object /\ c \in Seq(Elem) /\ n \in Nat /\ Len(s.buf) \in Nat
      /\ s.size = n /\ n <= Len(s.buf) /\ s.faults = 0
      /\ \A k \in 1..n : s.buf[k] = c[k]
      /\ \A k \in (n + 1)..Len(s.buf) : Unused(s, k)
      /\ s.blocks = (IF s.small THEN 0 ELSE 1)
  BY KeepsFacts
<1>2. xs \in Seq(Slot) /\ Len(xs) \in Nat
  BY LenProperties DEF Slot
<1>3. PICK r : r = Construct(s, n, xs)
  OBVIOUS
<1>4. /\ r \in Object /\ Len(r.buf) = Len(s.buf) /\ r.size = n /\ r.small = s.small
      /\ r.blocks = s.blocks /\ r.faults = 0
      /\ \A k \in 1..Len(s.buf) :
           r.buf[k] = IF k \in (n + 1)..(n + Len(xs)) THEN xs[k - n] ELSE s.buf[k]
  <2>1. \A k \in (n + 1)..(n + Len(xs)) : Unused(s, k)
    BY <1>1, <1>2
  <2>2. Constructed(r, s, n, xs)
    BY <1>1, <1>2, <1>3, <2>1, ConstructFacts
  <2> QED
    BY <1>1, <2>2 DEF Constructed, SameObject
<1>5. PICK d : d = c \o xs
  OBVIOUS
<1>6. /\ d \in Seq(Elem) /\ Len(d) = n + Len(xs)
      /\ \A k \in 1..(n + Len(xs)) : d[k] = IF k <= n THEN c[k] ELSE xs[k - n]
  <2>1. d \in Seq(Elem) /\ IsJoined(d, c, xs)
    BY <1>1, <1>5, JoinFacts
  <2> QED
    BY <2>1 DEF IsJoined
<1>7. ASSUME NEW k \in 1..(n + Len(xs)) PROVE r.buf[k] = d[k]
  <2>1. k \in 1..Len(s.buf)
    BY <1>1, <1>2
  <2>2. CASE k <= n
    <3>1. k \in 1..n /\ k \notin (n + 1)..(n + Len(xs))
      BY <1>1, <2>2
    <3> QED
      BY <1>1, <1>4, <1>6, <2>1, <3>1
  <2>3. CASE ~(k <= n)
    <3>1. k \in (n + 1)..(n + Len(xs))
      BY <1>1, <2>3
    <3> QED
      BY <1>4, <1>6, <2>1, <2>3, <3>1
  <2> QED
    BY <2>2, <2>3
<1>8. ASSUME NEW k \in (n + Len(xs) + 1)..Len(r.buf) PROVE Unused(r, k)
  <2>1. k \in (n + 1)..Len(s.buf) /\ k \in 1..Len(s.buf) /\ k \notin (n + 1)..(n + Len(xs))
    BY <1>1, <1>2, <1>4
  <2>2. r.buf[k] = s.buf[k] /\ Unused(s, k)
    BY <1>1, <1>4, <2>1
  <2> QED
    BY <2>2 DEF Unused
<1>9. Keeps(Sized(r, n + Len(xs)), d)
  <2>1. PICK m : m = n + Len(xs)
    OBVIOUS
  <2>2. m = Len(d) /\ m <= Len(r.buf) /\ r.blocks = (IF r.small THEN 0 ELSE 1)
    BY <1>1, <1>4, <1>6, <2>1
  <2>3. \A k \in 1..m : r.buf[k] = d[k]
    BY <1>7, <2>1
  <2>4. \A k \in (m + 1)..Len(r.buf) : Unused(r, k)
    BY <1>8, <2>1
  <2>5. Keeps(Sized(r, m), d)
    BY <1>4, <1>6, <2>2, <2>3, <2>4, SizedKeeps
  <2> QED
    BY <2>1, <2>5
<1> QED
  BY <1>3, <1>4, <1>5, <1>9

\* The last elements destroyed.
LEMMA CutKeeps ==
  ASSUME NEW s, NEW c, Keeps(s, c), NEW n, n \in Nat, n <= Len(c)
  PROVE  /\ Keeps(Sized(Destroy(s, n, Len(c)), n), SubSeq(c, 1, n))
         /\ Len(Sized(Destroy(s, n, Len(c)), n).buf) = Len(s.buf)
<1>1. /\ s \in Object /\ c \in Seq(Elem) /\ Len(c) \in Nat /\ Len(s.buf) \in Nat
      /\ s.size = Len(c) /\ Len(c) <= Len(s.buf) /\ s.faults = 0
      /\ \A k \in 1..Len(c) : s.buf[k] = c[k] /\ Usable(s, k)
      /\ \A k \in (Len(c) + 1)..Len(s.buf) : Unused(s, k)
      /\ s.blocks = (IF s.small THEN 0 ELSE 1)
  BY KeepsFacts
<1>2. PICK r : r = Destroy(s, n, Len(c))
  OBVIOUS
<1>3. /\ r \in Object /\ Len(r.buf) = Len(s.buf) /\ r.size = Len(c) /\ r.small = s.small
      /\ r.blocks = s.blocks /\ r.faults = 0
      /\ \A k \in 1..Len(s.buf) : r.buf[k] = IF k \in (n + 1)..Len(c) THEN Raw ELSE s.buf[k]
  <2>1. \A k \in (n + 1)..Len(c) : Usable(s, k)
    BY <1>1
  <2>2. Destroyed(r, s, n, Len(c))
    BY <1>1, <1>2, <2>1, DestroyFacts
  <2> QED
    BY <1>1, <2>2 DEF Destroyed, SameObject
<1>4. PICK d : d = SubSeq(c, 1, n)
  OBVIOUS
<1>5. d \in Seq(Elem) /\ Len(d) = n /\ \A k \in 1..n : d[k] = c[k]
  BY <1>1, <1>4, FrontFacts
<1>6. \A k \in 1..n : r.buf[k] = d[k]
  BY <1>1, <1>3, <1>5
<1>7. \A k \in (n + 1)..Len(r.buf) : Unused(r, k)
  BY <1>1, <1>3 DEF Unused
<1>8. Keeps(Sized(r, n), d)
  <2>1. n = Len(d) /\ n <= Len(r.buf) /\ r.blocks = (IF r.small THEN 0 ELSE 1)
    BY <1>1, <1>3, <1>5
  <2> QED
    BY <1>3, <1>5, <1>6, <1>7, <2>1, SizedKeeps
<1>9. Sized(r, n).buf = r.buf
  BY <1>3, SizedFacts
<1> QED
  BY <1>2, <1>3, <1>4, <1>8, <1>9

\* Some elements assigned: others in their place.
Overlaid(r, s, c, i, xs) ==
  /\ Keeps(r, Spliced(c, i, i + Len(xs), xs))
  /\ Len(Spliced(c, i, i + Len(xs), xs)) = Len(c)
  /\ Len(r.buf) = Len(s.buf)

LEMMA OverKeeps ==
  ASSUME NEW s, NEW c, Keeps(s, c), NEW i, i \in Nat, NEW xs, xs \in Seq(Elem),
         i + Len(xs) <= Len(c)
  PROVE  Overlaid(Assign(s, i, xs), s, c, i, xs)
<1>1. /\ s \in Object /\ c \in Seq(Elem) /\ Len(c) \in Nat /\ Len(s.buf) \in Nat
      /\ s.size = Len(c) /\ Len(c) <= Len(s.buf) /\ s.faults = 0
      /\ \A k \in 1..Len(c) : s.buf[k] = c[k] /\ Usable(s, k)
      /\ \A k \in (Len(c) + 1)..Len(s.buf) : Unused(s, k)
      /\ s.blocks = (IF s.small THEN 0 ELSE 1)
  BY KeepsFacts
<1>2. xs \in Seq(Slot) /\ Len(xs) \in Nat
  BY LenProperties DEF Slot
<1>3. PICK r : r = Assign(s, i, xs)
  OBVIOUS
<1>4. /\ r \in Object /\ Len(r.buf) = Len(s.buf) /\ r.size = Len(c) /\ r.small = s.small
      /\ r.blocks = s.blocks /\ r.faults = 0
      /\ \A k \in 1..Len(s.buf) :
           r.buf[k] = IF k \in (i + 1)..(i + Len(xs)) THEN xs[k - i] ELSE s.buf[k]
  <2>1. \A k \in (i + 1)..(i + Len(xs)) : Usable(s, k)
    BY <1>1, <1>2
  <2>2. i + Len(xs) <= Len(s.buf)
    BY <1>1, <1>2
  <2>3. Constructed(r, s, i, xs)
    BY <1>1, <1>2, <1>3, <2>1, <2>2, AssignFacts
  <2> QED
    BY <1>1, <2>3 DEF Constructed, SameObject
<1>5. PICK j \in Nat : j = i + Len(xs)
  BY <1>2
<1>6. PICK d : d = Spliced(c, i, j, xs)
  OBVIOUS
<1>7. d \in Seq(Elem) /\ IsSpliced(d, c, i, j, xs)
  <2>1. i <= j /\ j <= Len(c)
    BY <1>2, <1>5
  <2> QED
    BY <1>1, <1>5, <1>6, <2>1, SplicedFacts
<1>8. Len(d) = Len(c) /\ \A k \in 1..Len(c) : r.buf[k] = d[k]
  <2>1. Len(d) = Len(c)
    BY <1>1, <1>2, <1>5, <1>7 DEF IsSpliced
  <2> SUFFICES ASSUME NEW k \in 1..Len(c) PROVE r.buf[k] = d[k]
    BY <2>1
  <2>2. k \in 1..Len(s.buf) /\ k \in 1..Len(d)
    BY <1>1, <2>1
  <2>3. CASE k <= i
    <3>1. k \notin (i + 1)..(i + Len(xs))
      BY <1>2, <2>3
    <3> QED
      BY <1>1, <1>4, <1>7, <2>2, <2>3, <3>1 DEF IsSpliced
  <2>4. CASE ~(k <= i) /\ k <= i + Len(xs)
    <3>1. k \in (i + 1)..(i + Len(xs))
      BY <1>2, <2>4
    <3> QED
      BY <1>4, <1>7, <2>2, <2>4, <3>1 DEF IsSpliced
  <2>5. CASE ~(k <= i) /\ ~(k <= i + Len(xs))
    <3>1. k \notin (i + 1)..(i + Len(xs)) /\ k - i - Len(xs) + j = k
      BY <1>2, <1>5, <2>5
    <3>2. d[k] = c[k - i - Len(xs) + j]
      BY <1>7, <2>2, <2>5 DEF IsSpliced
    <3> QED
      BY <1>1, <1>4, <2>2, <3>1, <3>2
  <2> QED
    BY <2>3, <2>4, <2>5
<1>9. \A k \in (Len(c) + 1)..Len(r.buf) : Unused(r, k)
  BY <1>1, <1>2, <1>4 DEF Unused
<1>10. Keeps(r, d)
  BY <1>1, <1>4, <1>7, <1>8, <1>9 DEF Keeps
<1> QED
  BY <1>3, <1>4, <1>5, <1>6, <1>8, <1>10 DEF Overlaid

-----------------------------------------------------------------------------
(* SmallVector: the operations at the end.                                 *)

\* A sequence of copies.
LEMMA CopiesFacts ==
  ASSUME NEW n, n \in Nat, NEW x, x \in Elem
  PROVE  Copies(n, x) \in Seq(Elem) /\ Len(Copies(n, x)) = n
<1>1. Copies(n, x) \in [1..n -> Elem]
  BY DEF Copies
<1> QED
  BY <1>1, LenProperties DEF Seq

\* clear.
LEMMA ClearedKeeps ==
  ASSUME NEW s, NEW c, Keeps(s, c)
  PROVE  Keeps(Clear(s), <<>>) /\ Len(Clear(s).buf) = Len(s.buf)
<1>1. PICK n \in Nat : n = 0
  OBVIOUS
<1>2. c \in Seq(Elem) /\ Len(c) \in Nat /\ s.size = Len(c) /\ n \in Nat /\ n <= Len(c)
  BY <1>1, KeepsFacts
<1>3. PICK r, d : r = Sized(Destroy(s, n, Len(c)), n) /\ d = SubSeq(c, 1, n)
  OBVIOUS
<1>4. Keeps(r, d) /\ Len(r.buf) = Len(s.buf)
  BY <1>2, <1>3, CutKeeps
<1>5. d = <<>>
  <2>1. d \in Seq(Elem) /\ Len(d) = 0
    BY <1>1, <1>2, <1>3, FrontFacts
  <2> QED
    BY <2>1, EmptySeq
<1>6. Clear(s) = r
  BY <1>1, <1>2, <1>3 DEF Clear, Sized
<1> QED
  BY <1>4, <1>5, <1>6

\* A free slot at least.
LEMMA WithRoomFacts ==
  ASSUME NEW s, NEW c, Keeps(s, c)
  PROVE  Keeps(WithRoom(s), c) /\ Len(c) < Len(WithRoom(s).buf)
<1>1. s.size = Len(c) /\ Len(c) \in Nat /\ Len(s.buf) \in Nat /\ Len(c) <= Len(s.buf)
  BY KeepsFacts
<1>2. CASE s.size < Capacity(s)
  BY <1>1, <1>2 DEF Capacity, WithRoom
<1>3. CASE ~(s.size < Capacity(s))
  <2>1. PICK z \in Nat : z = 0
    OBVIOUS
  <2>2. PICK r : r = WithRoom(s)
    OBVIOUS
  <2>3. r = Grow(s, z)
    BY <1>3, <2>1, <2>2 DEF WithRoom
  <2>4. Keeps(r, c) /\ Capacity(r) > Capacity(s)
    BY <2>3, GrowFacts
  <2>5. Len(r.buf) \in Nat
    BY <2>4, KeepsFacts
  <2> QED
    BY <1>1, <2>2, <2>4, <2>5 DEF Capacity
<1> QED
  BY <1>2, <1>3

\* push_back.
LEMMA PushBackKeeps ==
  ASSUME NEW s, NEW c, Keeps(s, c), NEW x, x \in Elem
  PROVE  Keeps(PushBack(s, x), Spliced(c, Len(c), Len(c), <<x>>))
<1>1. c \in Seq(Elem) /\ Len(c) \in Nat /\ s.size = Len(c) /\ Len(s.buf) \in Nat /\ Len(c) <= Len(s.buf)
  BY KeepsFacts
<1>2. PICK r : r = WithRoom(s)
  OBVIOUS
<1>3. Keeps(r, c) /\ Len(c) < Len(r.buf) /\ r.size = Len(c) /\ Len(r.buf) \in Nat
  <2>1. Keeps(r, c) /\ Len(c) < Len(r.buf)
    BY <1>2, WithRoomFacts
  <2> QED
    BY <2>1, KeepsFacts
<1>4. PICK xs : xs = <<x>>
  OBVIOUS
<1>5. xs \in Seq(Elem) /\ Len(xs) = 1
  BY <1>4
<1>6. PICK q : q = Construct(r, Len(c), xs)
  OBVIOUS
<1>7. q.size = Len(c) /\ Keeps(Sized(q, Len(c) + Len(xs)), c \o xs)
  <2>1. Len(c) + Len(xs) <= Len(r.buf)
    BY <1>1, <1>3, <1>5
  <2>2. xs \in Seq(Elem) /\ Keeps(r, c)
    BY <1>3, <1>5
  <2> QED
    BY <1>6, <2>1, <2>2, ExtendKeeps
<1>8. PushBack(s, x) = Sized(q, Len(c) + Len(xs))
  BY <1>2, <1>3, <1>4, <1>5, <1>6, <1>7 DEF PushBack, Sized
<1>9. Spliced(c, Len(c), Len(c), xs) = c \o xs
  BY <1>1, <1>5, SplicedAtEnd
<1> QED
  BY <1>4, <1>7, <1>8, <1>9

\* pop_back.
LEMMA PopBackKeeps ==
  ASSUME NEW s, NEW c, Keeps(s, c), s.size > 0
  PROVE  Keeps(PopBack(s), Spliced(c, s.size - 1, s.size, <<>>))
<1>1. c \in Seq(Elem) /\ Len(c) \in Nat /\ s \in Object /\ s.size = Len(c)
      /\ Len(s.buf) \in Nat /\ Len(c) <= Len(s.buf)
      /\ \A k \in 1..Len(c) : Usable(s, k)
  BY KeepsFacts
<1>2. PICK n \in Nat : n = Len(c) - 1 /\ n <= Len(c) /\ n = s.size - 1
  <2>1. Len(c) - 1 \in Nat /\ Len(c) - 1 <= Len(c) /\ Len(c) - 1 = s.size - 1
    BY <1>1
  <2> QED
    BY <2>1
<1>3. PICK r : r = Destroy(s, n, Len(c))
  OBVIOUS
<1>4. r.size = Len(c)
  <2>1. \A k \in (n + 1)..Len(c) : Usable(s, k)
    BY <1>1, <1>2
  <2>2. Destroyed(r, s, n, Len(c))
    BY <1>1, <1>2, <1>3, <2>1, DestroyFacts
  <2> QED
    BY <1>1, <2>2 DEF Destroyed, SameObject
<1>5. PopBack(s) = Sized(r, n)
  BY <1>1, <1>2, <1>3, <1>4 DEF PopBack, Sized
<1>6. Keeps(Sized(r, n), SubSeq(c, 1, n))
  BY <1>2, <1>3, CutKeeps
<1>7. Spliced(c, n, Len(c), <<>>) = SubSeq(c, 1, n)
  BY <1>1, <1>2, SplicedToEnd
<1> QED
  BY <1>1, <1>2, <1>5, <1>6, <1>7

\* The last elements dropped: resize to less, and set_size.
LEMMA DropKeeps ==
  ASSUME NEW s, NEW c, Keeps(s, c), NEW n, n \in Nat, n <= s.size
  PROVE  Keeps([Destroy(s, n, s.size) EXCEPT !.size = n], Spliced(c, n, s.size, <<>>))
<1>1. c \in Seq(Elem) /\ s.size = Len(c)
  BY KeepsFacts
<1>2. Keeps(Sized(Destroy(s, n, Len(c)), n), SubSeq(c, 1, n))
  BY <1>1, CutKeeps
<1>3. Spliced(c, n, Len(c), <<>>) = SubSeq(c, 1, n)
  BY <1>1, SplicedToEnd
<1> QED
  BY <1>1, <1>2, <1>3 DEF Sized

\* resize.
LEMMA ResizeKeeps ==
  ASSUME NEW s, NEW c, Keeps(s, c), NEW n, n \in Nat, NEW x, x \in Elem
  PROVE  Keeps(Resize(s, n, x),
               IF n <= s.size THEN Spliced(c, n, s.size, <<>>)
               ELSE Spliced(c, s.size, s.size, Copies(n - s.size, x)))
<1>1. c \in Seq(Elem) /\ s.size = Len(c) /\ Len(c) \in Nat
  BY KeepsFacts
<1>2. CASE n < s.size
  <2>1. n <= s.size
    BY <1>1, <1>2
  <2>2. Keeps([Destroy(s, n, s.size) EXCEPT !.size = n], Spliced(c, n, s.size, <<>>))
    BY <2>1, DropKeeps
  <2> QED
    BY <1>2, <2>1, <2>2 DEF Resize
<1>3. CASE ~(n < s.size)
  <2>1. PICK m \in Nat : m = n - s.size
    <3>1. n - s.size \in Nat
      BY <1>1, <1>3
    <3> QED
      BY <3>1
  <2>2. PICK xs : xs = Copies(m, x)
    OBVIOUS
  <2>3. xs \in Seq(Elem) /\ Len(xs) = m
    BY <2>2, CopiesFacts
  <2>4. PICK r : r = Reserve(s, n)
    OBVIOUS
  <2>5. Keeps(r, c) /\ Len(r.buf) >= n /\ Len(r.buf) \in Nat
    BY <2>4, ReserveFacts
  <2>6. Keeps(Sized(Construct(r, Len(c), xs), Len(c) + Len(xs)), c \o xs)
    <3>1. Len(c) + Len(xs) <= Len(r.buf)
      BY <1>1, <2>1, <2>3, <2>5
    <3> QED
      BY <2>3, <2>5, <3>1, ExtendKeeps
  <2>7. Len(c) + Len(xs) = n
    BY <1>1, <2>1, <2>3
  <2>8. Resize(s, n, x) = Sized(Construct(r, Len(c), xs), n)
    BY <1>1, <1>3, <2>1, <2>2, <2>4 DEF Resize, Sized
  <2>9. Spliced(c, Len(c), Len(c), xs) = c \o xs
    BY <1>1, <2>3, SplicedAtEnd
  <2>10. CASE n <= s.size
    <3>1. n = Len(c) /\ Len(xs) = 0
      BY <1>1, <1>3, <2>1, <2>3, <2>10
    <3>2. xs = <<>>
      BY <2>3, <3>1, EmptySeq
    <3> QED
      BY <1>1, <2>6, <2>7, <2>8, <2>9, <2>10, <3>1, <3>2
  <2>11. CASE ~(n <= s.size)
    BY <1>1, <2>1, <2>2, <2>6, <2>7, <2>8, <2>9, <2>11
  <2> QED
    BY <2>10, <2>11
<1> QED
  BY <1>2, <1>3

\* append.
LEMMA AppendAllKeeps ==
  ASSUME NEW s, NEW c, Keeps(s, c), NEW xs, xs \in Seq(Elem)
  PROVE  /\ Keeps(AppendAll(s, xs), c \o xs)
         /\ Len(c) + Len(xs) <= Len(s.buf) => Len(AppendAll(s, xs).buf) = Len(s.buf)
<1>1. c \in Seq(Elem) /\ Len(c) \in Nat /\ s.size = Len(c) /\ Len(s.buf) \in Nat
  BY KeepsFacts
<1>2. Len(xs) \in Nat /\ xs \in Seq(Slot)
  BY LenProperties DEF Slot
<1>3. PICK r : r = IF Len(xs) > Capacity(s) - s.size THEN Grow(s, s.size + Len(xs)) ELSE s
  OBVIOUS
<1>4. Keeps(r, c) /\ Len(c) + Len(xs) <= Len(r.buf)
      /\ (Len(c) + Len(xs) <= Len(s.buf) => r = s)
  <2>1. CASE Len(xs) > Capacity(s) - s.size
    <3>1. PICK m \in Nat : m = s.size + Len(xs)
      BY <1>1, <1>2
    <3>2. r = Grow(s, m)
      BY <1>3, <2>1, <3>1
    <3>3. Keeps(r, c) /\ Capacity(r) >= m
      BY <3>2, GrowFacts
    <3> QED
      BY <1>1, <1>2, <2>1, <3>1, <3>3 DEF Capacity
  <2>2. CASE ~(Len(xs) > Capacity(s) - s.size)
    BY <1>1, <1>2, <1>3, <2>2 DEF Capacity
  <2> QED
    BY <2>1, <2>2
<1>5. r.size = Len(c)
  BY <1>4, KeepsFacts
<1>6. PICK q : q = Construct(r, Len(c), xs)
  OBVIOUS
<1>7. q \in Object /\ q.size = Len(c) /\ Keeps(Sized(q, Len(c) + Len(xs)), c \o xs)
  BY <1>4, <1>6, ExtendKeeps
<1>8. AppendAll(s, xs) = Sized(q, Len(c) + Len(xs))
  BY <1>3, <1>5, <1>6, <1>7 DEF AppendAll, Sized
<1>9. ASSUME Len(c) + Len(xs) <= Len(s.buf)
      PROVE  Len(AppendAll(s, xs).buf) = Len(s.buf)
  <2>1. Constructed(q, s, Len(c), xs)
    <3>1. s \in Object /\ \A k \in (Len(c) + 1)..Len(s.buf) : Unused(s, k)
      BY KeepsFacts
    <3>2. \A k \in (Len(c) + 1)..(Len(c) + Len(xs)) : Unused(s, k)
      BY <1>1, <1>2, <1>9, <3>1
    <3> QED
      BY <1>1, <1>2, <1>4, <1>6, <1>9, <3>1, <3>2, ConstructFacts
  <2>2. Len(q.buf) = Len(s.buf)
    BY <2>1 DEF Constructed, SameObject
  <2>3. PICK m \in Nat : m = Len(c) + Len(xs)
    BY <1>1, <1>2
  <2>4. Sized(q, m).buf = q.buf
    BY <1>7, SizedFacts
  <2> QED
    BY <1>8, <2>2, <2>3, <2>4
<1> QED
  BY <1>7, <1>8, <1>9

\* assign.
LEMMA RefillKeeps ==
  ASSUME NEW s, NEW c, Keeps(s, c), NEW n, n \in Nat, NEW x, x \in Elem
  PROVE  Keeps(Refill(s, n, x), Copies(n, x))
<1>1. PICK e, xs : e = <<>> /\ xs = Copies(n, x)
  OBVIOUS
<1>2. xs \in Seq(Elem) /\ Len(xs) = n
  BY <1>1, CopiesFacts
<1>3. PICK t : t = Clear(s)
  OBVIOUS
<1>4. Keeps(t, e)
  <2>1. Keeps(t, <<>>)
    BY <1>3, ClearedKeeps
  <2> QED
    BY <1>1, <2>1
<1>5. PICK r : r = Reserve(t, n)
  OBVIOUS
<1>6. Keeps(r, e) /\ Len(r.buf) >= n /\ Len(r.buf) \in Nat
  BY <1>4, <1>5, ReserveFacts
<1>7. Len(e) = 0
  BY <1>1
<1>8. Keeps(Sized(Construct(r, Len(e), xs), Len(e) + Len(xs)), e \o xs)
  <2>1. Len(e) + Len(xs) <= Len(r.buf)
    BY <1>2, <1>6, <1>7
  <2> QED
    BY <1>2, <1>6, <2>1, ExtendKeeps
<1>9. e \o xs = xs
  BY <1>1, <1>2, ConcatEmptySeq
<1>10. Len(e) + Len(xs) = n
  BY <1>2, <1>7
<1>11. Refill(s, n, x) = Sized(Construct(r, Len(e), xs), n)
  BY <1>1, <1>3, <1>5, <1>7 DEF Refill, Sized
<1> QED
  BY <1>1, <1>8, <1>9, <1>10, <1>11

-----------------------------------------------------------------------------
(* SmallVector: the operations in the middle.                              *)

\* erase.
LEMMA EraseKeeps ==
  ASSUME NEW s, NEW c, Keeps(s, c), NEW i, i \in Nat, NEW j, j \in Nat, i <= j, j <= s.size
  PROVE  Keeps(Erase(s, i, j), Spliced(c, i, j, <<>>))
<1> DEFINE n == Len(c)
<1>1. /\ s \in Object /\ c \in Seq(Elem) /\ n \in Nat /\ Len(s.buf) \in Nat
      /\ s.size = n /\ n <= Len(s.buf) /\ s.faults = 0
      /\ \A k \in 1..n : s.buf[k] = c[k] /\ Usable(s, k)
      /\ \A k \in (n + 1)..Len(s.buf) : Unused(s, k)
      /\ s.blocks = (IF s.small THEN 0 ELSE 1)
  BY KeepsFacts
<1>2. PICK rest : rest = SubSeq(s.buf, j + 1, n)
  OBVIOUS
<1>3. rest \in Seq(Slot) /\ Len(rest) = n - j /\ \A k \in 1..(n - j) : rest[k] = s.buf[k + j]
  <2>1. s.buf \in Seq(Slot) /\ j <= n
    BY <1>1, ObjectFacts
  <2> HIDE DEF n
  <2> QED
    BY <1>1, <1>2, <2>1, PartFacts
<1>4. PICK a : a = Vacate(s, j, n)
  OBVIOUS
<1>5. /\ SameObject(a, s)
      /\ \A k \in 1..Len(s.buf) :
           a.buf[k] = IF ~podLike /\ k \in (j + 1)..n THEN Gone ELSE s.buf[k]
  <2>1. Vacated(a, s, j, n)
    BY <1>1, <1>4, VacateFacts
  <2> QED
    BY <2>1 DEF Vacated
<1>6. PICK b : b = Assign(a, i, rest)
  OBVIOUS
<1>7. a \in Object /\ Len(a.buf) = Len(s.buf) /\ \A k \in 1..n : Usable(a, k)
  BY <1>1, <1>5, SlotAssumption DEF SameObject, Usable
<1>8. /\ SameObject(b, a)
      /\ \A k \in 1..Len(s.buf) :
           b.buf[k] = IF k \in (i + 1)..(i + (n - j)) THEN rest[k - i] ELSE a.buf[k]
  <2>1. \A k \in (i + 1)..(i + Len(rest)) : Usable(a, k)
    BY <1>1, <1>3, <1>7
  <2>2. i + Len(rest) <= Len(a.buf)
    BY <1>1, <1>3, <1>7
  <2>3. Constructed(b, a, i, rest)
    BY <1>3, <1>6, <1>7, <2>1, <2>2, AssignFacts
  <2> QED
    BY <1>3, <1>7, <2>3 DEF Constructed
<1>9. PICK m \in Nat : m = i + Len(rest) /\ m = i + (n - j) /\ m <= n
  <2>1. i + Len(rest) \in Nat /\ i + Len(rest) = i + (n - j) /\ i + Len(rest) <= n
    BY <1>1, <1>3
  <2> QED
    BY <2>1
<1>10. PICK z : z = Destroy(b, m, n)
  OBVIOUS
<1>11. b \in Object /\ Len(b.buf) = Len(s.buf) /\ \A k \in 1..n : Usable(b, k)
  <2>1. b \in Object /\ Len(b.buf) = Len(s.buf)
    BY <1>7, <1>8 DEF SameObject
  <2>2. ASSUME NEW k \in 1..n PROVE Usable(b, k)
    <3>1. k \in 1..Len(s.buf)
      BY <1>1
    <3>2. CASE k \in (i + 1)..(i + (n - j))
      <4>1. k - i \in 1..(n - j) /\ k - i + j \in 1..n
        BY <1>1, <3>2
      <4>2. b.buf[k] = s.buf[k - i + j]
        BY <1>3, <1>8, <3>1, <3>2, <4>1
      <4> QED
        BY <1>1, <4>1, <4>2 DEF Usable
    <3>3. CASE k \notin (i + 1)..(i + (n - j))
      BY <1>7, <1>8, <3>1, <3>3 DEF Usable
    <3> QED
      BY <3>2, <3>3
  <2> QED
    BY <2>1, <2>2
<1>12. /\ z \in Object /\ Len(z.buf) = Len(s.buf) /\ z.small = s.small
       /\ z.blocks = s.blocks /\ z.faults = 0
       /\ \A k \in 1..Len(s.buf) : z.buf[k] = IF k \in (m + 1)..n THEN Raw ELSE b.buf[k]
  <2>1. \A k \in (m + 1)..n : Usable(b, k)
    BY <1>9, <1>11
  <2>2. n <= Len(b.buf)
    BY <1>1, <1>11
  <2>3. Destroyed(z, b, m, n)
    BY <1>1, <1>9, <1>10, <1>11, <2>1, <2>2, DestroyFacts
  <2> QED
    BY <1>1, <1>5, <1>8, <1>11, <2>3 DEF Destroyed, SameObject
<1>13. PICK xs, d : xs = <<>> /\ d = Spliced(c, i, j, xs)
  OBVIOUS
<1>14. xs \in Seq(Elem) /\ Len(xs) = 0
  BY <1>13, EmptySeq
<1>15. d \in Seq(Elem) /\ IsSpliced(d, c, i, j, xs)
  BY <1>1, <1>13, <1>14, SplicedFacts
<1>16. Len(d) = m
  BY <1>1, <1>9, <1>14, <1>15 DEF IsSpliced
<1>17. ASSUME NEW k \in 1..m PROVE z.buf[k] = d[k]
  <2>1. k \in 1..Len(s.buf) /\ k \notin (m + 1)..n /\ z.buf[k] = b.buf[k]
    BY <1>1, <1>9, <1>12
  <2>2. CASE k <= i
    <3>1. k \notin (i + 1)..(i + (n - j)) /\ k \notin (j + 1)..n /\ k \in 1..n
      BY <1>1, <1>9, <2>2
    <3>2. d[k] = c[k]
      BY <1>15, <1>16, <2>2 DEF IsSpliced
    <3> QED
      BY <1>1, <1>5, <1>8, <2>1, <3>1, <3>2
  <2>3. CASE ~(k <= i)
    <3>1. k \in (i + 1)..(i + (n - j)) /\ k - i \in 1..(n - j) /\ k - i + j \in 1..n
      BY <1>1, <1>9, <2>3
    <3>2. b.buf[k] = s.buf[k - i + j]
      BY <1>3, <1>8, <2>1, <3>1
    <3>3. d[k] = c[k - i - Len(xs) + j]
      <4>1. ~(k <= i + Len(xs))
        BY <1>14, <2>3
      <4> QED
        BY <1>15, <1>16, <2>3, <4>1 DEF IsSpliced
    <3>4. k - i - Len(xs) + j = k - i + j
      BY <1>14
    <3> QED
      BY <1>1, <2>1, <3>1, <3>2, <3>3, <3>4
  <2> QED
    BY <2>2, <2>3
<1>18. ASSUME NEW k \in (m + 1)..Len(z.buf) PROVE Unused(z, k)
  <2>1. k \in 1..Len(s.buf)
    BY <1>9, <1>12
  <2>2. CASE k \in (m + 1)..n
    BY <1>12, <2>1, <2>2 DEF Unused
  <2>3. CASE k \notin (m + 1)..n
    <3>1. k \in (n + 1)..Len(s.buf) /\ k \notin (j + 1)..n /\ k \notin (i + 1)..(i + (n - j))
      BY <1>1, <1>9, <1>12, <2>3
    <3>2. z.buf[k] = s.buf[k]
      BY <1>5, <1>8, <1>12, <2>1, <2>3, <3>1
    <3> QED
      BY <1>1, <3>1, <3>2 DEF Unused
  <2> QED
    BY <2>2, <2>3
<1>19. Keeps(Sized(z, m), d)
  <2>1. m <= Len(z.buf) /\ z.blocks = (IF z.small THEN 0 ELSE 1)
    BY <1>1, <1>9, <1>12
  <2> QED
    BY <1>12, <1>15, <1>16, <1>17, <1>18, <2>1, SizedKeeps
<1>20. Erase(s, i, j) = Sized(z, m)
  BY <1>1, <1>2, <1>4, <1>6, <1>9, <1>10 DEF Erase, Sized
<1> QED
  BY <1>13, <1>19, <1>20

\* insert of one element.
LEMMA InsertKeeps ==
  ASSUME NEW s, NEW c, Keeps(s, c), NEW i, i \in Nat, i <= s.size, NEW rvalue,
         NEW elt, elt \in Elem \/ (elt \in 1..s.size /\ s.size < Capacity(s)),
         rvalue /\ ~podLike => i = s.size
  PROVE  Keeps(Insert(s, i, elt, rvalue),
               Spliced(c, i, i, <<IF elt \in Elem THEN elt ELSE s.buf[elt]>>))
<1> DEFINE n == Len(c)
           cap == Len(s.buf)
<1>1. /\ s \in Object /\ c \in Seq(Elem) /\ n \in Nat /\ cap \in Nat
      /\ s.size = n /\ n <= cap
      /\ \A k \in 1..n : c[k] \in Elem /\ s.buf[k] = c[k]
  BY KeepsFacts
<1>2. PICK x : x = IF elt \in Elem THEN elt ELSE s.buf[elt]
  OBVIOUS
<1>3. x \in Elem /\ (elt \notin Elem => elt \in 1..n /\ x = c[elt])
  BY <1>1, <1>2
<1>4. CASE i = s.size
  <2>1. Insert(s, i, elt, rvalue) = PushBack(s, x)
    BY <1>2, <1>4 DEF Insert
  <2>2. Keeps(PushBack(s, x), Spliced(c, Len(c), Len(c), <<x>>))
    BY <1>3, PushBackKeeps
  <2> QED
    BY <1>1, <1>2, <1>4, <2>1, <2>2
<1>5. CASE i # s.size
  <2>1. i < n /\ i + 1 \in 1..n /\ n \in 1..n
    BY <1>1, <1>5
  <2>2. PICK r : r = WithRoom(s)
    OBVIOUS
  <2>3. Keeps(r, c) /\ n < Len(r.buf)
    BY <2>2, WithRoomFacts
  <2> HIDE DEF cap
  <2> DEFINE top == Len(r.buf)
  <2>4. /\ r \in Object /\ top \in Nat /\ r.size = n /\ r.faults = 0
        /\ \A k \in 1..n : r.buf[k] = c[k] /\ Usable(r, k)
        /\ \A k \in (n + 1)..top : Unused(r, k)
        /\ r.blocks = (IF r.small THEN 0 ELSE 1)
    BY <2>3, KeepsFacts
  <2>5. (IF rvalue THEN Vacate(r, r.size - 1, r.size) ELSE r) = r
    BY <1>5 DEF Vacate
  <2>6. PICK ys : ys = <<r.buf[r.size]>>
    OBVIOUS
  <2>7. ys \in Seq(Slot) /\ Len(ys) = 1 /\ ys[1] = c[n]
    <3>1. r.buf[r.size] = c[n] /\ c[n] \in Slot
      BY <1>1, <2>1, <2>4 DEF Slot
    <3> QED
      BY <2>6, <3>1
  <2>8. PICK last : last = Construct(r, n, ys)
    OBVIOUS
  <2>9. /\ SameObject(last, r)
        /\ \A k \in 1..top : last.buf[k] = IF k = n + 1 THEN c[n] ELSE r.buf[k]
    <3>1. n + Len(ys) <= Len(r.buf)
      BY <1>1, <2>3, <2>4, <2>7
    <3>2. \A k \in (n + 1)..(n + Len(ys)) : Unused(r, k)
      BY <1>1, <2>3, <2>4, <2>7
    <3>3. Constructed(last, r, n, ys)
      BY <1>1, <2>4, <2>7, <2>8, <3>1, <3>2, ConstructFacts
    <3>4. (n + 1)..(n + Len(ys)) = {n + 1} /\ (n + 1) - n = 1
      BY <1>1, <2>7
    <3> QED
      BY <2>7, <3>3, <3>4 DEF Constructed
  <2>10. PICK low : low = SubSeq(last.buf, i + 1, n)
    OBVIOUS
  <2>11. last \in Object /\ Len(last.buf) = top
    BY <2>9 DEF SameObject
  <2>12. low \in Seq(Slot) /\ Len(low) = n - i /\ \A k \in 1..(n - i) : low[k] = c[k + i]
    <3>1. last.buf \in Seq(Slot) /\ i <= n /\ n <= Len(last.buf)
      BY <1>1, <2>1, <2>3, <2>4, <2>11, ObjectFacts
    <3>2. /\ low \in Seq(Slot) /\ Len(low) = n - i
          /\ \A k \in 1..(n - i) : low[k] = last.buf[k + i]
      <4>1. n \in Nat /\ last.buf \in Seq(Slot) /\ i <= n /\ n <= Len(last.buf)
        BY <1>1, <3>1
      <4> HIDE DEF n
      <4> QED
        BY <2>10, <4>1, PartFacts
    <3>3. ASSUME NEW k \in 1..(n - i) PROVE low[k] = c[k + i]
      <4>1. k + i \in 1..n /\ k + i \in 1..top /\ k + i # n + 1
        BY <1>1, <2>3, <2>4
      <4> QED
        BY <2>4, <2>9, <3>2, <4>1
    <3> QED
      BY <3>2, <3>3
  <2>13. PICK gone : gone = Vacate(last, i, n)
    OBVIOUS
  <2>14. /\ SameObject(gone, last)
         /\ \A k \in 1..top :
              gone.buf[k] = IF ~podLike /\ k \in (i + 1)..n THEN Gone ELSE last.buf[k]
    <3>1. Vacated(gone, last, i, n)
      BY <1>1, <2>11, <2>13, VacateFacts
    <3> QED
      BY <2>11, <3>1 DEF Vacated
  <2>15. gone \in Object /\ Len(gone.buf) = top /\ \A k \in 1..(n + 1) : Usable(gone, k)
    <3>1. gone \in Object /\ Len(gone.buf) = top
      BY <2>11, <2>14 DEF SameObject
    <3>2. ASSUME NEW k \in 1..(n + 1) PROVE Usable(gone, k)
      <4>1. k \in 1..top
        BY <1>1, <2>3, <2>4
      <4>2. CASE k = n + 1
        <5>1. last.buf[k] = c[n] /\ c[n] \in Elem /\ k \notin (i + 1)..n
          BY <1>1, <2>1, <2>9, <4>1, <4>2
        <5> QED
          BY <2>14, <4>1, <5>1, SlotAssumption DEF Usable
      <4>3. CASE k # n + 1
        <5>1. k \in 1..n /\ last.buf[k] = r.buf[k]
          BY <1>1, <2>9, <4>1, <4>3
        <5> QED
          BY <2>4, <2>14, <4>1, <5>1, SlotAssumption DEF Usable
      <4> QED
        BY <4>2, <4>3
    <3> QED
      BY <3>1, <3>2
  <2>16. PICK up : up = Assign(gone, i + 1, low)
    OBVIOUS
  <2>17. /\ SameObject(up, gone)
         /\ \A k \in 1..top :
              up.buf[k] = IF k \in (i + 2)..(n + 1) THEN low[k - (i + 1)] ELSE gone.buf[k]
    <3>1. PICK i1 \in Nat : i1 = i + 1
      OBVIOUS
    <3>2. i1 + Len(low) <= Len(gone.buf)
      BY <1>1, <2>3, <2>4, <2>12, <2>15, <3>1
    <3>3. \A k \in (i1 + 1)..(i1 + Len(low)) : Usable(gone, k)
      BY <1>1, <2>12, <2>15, <3>1
    <3>4. Constructed(up, gone, i1, low)
      BY <2>12, <2>15, <2>16, <3>1, <3>2, <3>3, AssignFacts
    <3>5. (i1 + 1)..(i1 + Len(low)) = (i + 2)..(n + 1)
      BY <1>1, <2>12, <3>1
    <3> QED
      BY <2>15, <3>1, <3>4, <3>5 DEF Constructed
  <2>18. up \in Object /\ Len(up.buf) = top /\ Usable(up, i + 1)
    <3>1. up \in Object /\ Len(up.buf) = top
      BY <2>15, <2>17 DEF SameObject
    <3>2. i + 1 \in 1..top /\ i + 1 \in 1..(n + 1) /\ i + 1 \notin (i + 2)..(n + 1)
      BY <1>1, <2>1, <2>3, <2>4
    <3>3. up.buf[i + 1] = gone.buf[i + 1]
      BY <2>17, <3>2
    <3> QED
      BY <2>15, <3>1, <3>2, <3>3 DEF Usable
  <2>19. \A k \in (i + 2)..(n + 1) : up.buf[k] = c[k - 1]
    <3> SUFFICES ASSUME NEW k \in (i + 2)..(n + 1) PROVE up.buf[k] = c[k - 1]
      OBVIOUS
    <3>1. k \in 1..top /\ k - (i + 1) \in 1..(n - i) /\ k - (i + 1) + i = k - 1
      BY <1>1, <2>3, <2>4
    <3> QED
      BY <2>12, <2>17, <3>1
  <2>20. \A k \in 1..i : up.buf[k] = c[k]
    <3> SUFFICES ASSUME NEW k \in 1..i PROVE up.buf[k] = c[k]
      OBVIOUS
    <3>1. /\ k \in 1..top /\ k \in 1..n /\ k \notin (i + 1)..n /\ k # n + 1
          /\ k \notin (i + 2)..(n + 1)
      BY <1>1, <2>1, <2>3, <2>4
    <3> QED
      BY <2>4, <2>9, <2>14, <2>17, <3>1
  <2>21. (IF elt \in Elem THEN elt ELSE up.buf[IF elt \in (i + 1)..n THEN elt + 1 ELSE elt]) = x
    <3>1. CASE elt \in Elem
      BY <1>2, <3>1
    <3>2. CASE elt \notin Elem /\ elt \in (i + 1)..n
      <4>1. elt + 1 \in (i + 2)..(n + 1) /\ (elt + 1) - 1 = elt
        BY <1>1, <1>3, <3>2
      <4>2. up.buf[elt + 1] = c[elt]
        BY <2>19, <4>1
      <4> QED
        BY <1>3, <3>2, <4>2
    <3>3. CASE elt \notin Elem /\ elt \notin (i + 1)..n
      <4>1. elt \in 1..i
        BY <1>1, <1>3, <3>3
      <4>2. up.buf[elt] = c[elt]
        BY <2>20, <4>1
      <4> QED
        BY <1>3, <3>3, <4>2
    <3> QED
      BY <3>1, <3>2, <3>3
  <2>22. PICK xs : xs = <<x>>
    OBVIOUS
  <2>23. xs \in Seq(Elem) /\ xs \in Seq(Slot) /\ Len(xs) = 1 /\ xs[1] = x
    BY <1>3, <2>22 DEF Slot
  <2>24. PICK z : z = Assign(up, i, xs)
    OBVIOUS
  <2>25. /\ SameObject(z, up)
         /\ \A k \in 1..top : z.buf[k] = IF k = i + 1 THEN x ELSE up.buf[k]
    <3>1. i + Len(xs) <= Len(up.buf)
      BY <1>1, <2>1, <2>3, <2>4, <2>18, <2>23
    <3>2. (i + 1)..(i + Len(xs)) = {i + 1} /\ (i + 1) - i = 1
      BY <2>23
    <3>3. Constructed(z, up, i, xs)
      BY <2>18, <2>23, <2>24, <3>1, <3>2, AssignFacts
    <3> QED
      BY <2>18, <2>23, <3>2, <3>3 DEF Constructed
  <2>26. /\ z \in Object /\ Len(z.buf) = top /\ z.size = n /\ z.small = r.small
         /\ z.blocks = r.blocks /\ z.faults = 0
    BY <2>4, <2>9, <2>14, <2>17, <2>18, <2>25 DEF SameObject
  <2>27. PICK d : d = Spliced(c, i, i, xs)
    OBVIOUS
  <2>28. d \in Seq(Elem) /\ IsSpliced(d, c, i, i, xs)
    <3>1. i <= i /\ i <= Len(c)
      BY <1>1, <2>1
    <3> QED
      BY <1>1, <2>23, <2>27, <3>1, SplicedFacts
  <2>29. PICK m \in Nat : m = n + 1
    BY <1>1
  <2>30. Len(d) = m
    BY <1>1, <2>23, <2>28, <2>29 DEF IsSpliced
  <2>31. ASSUME NEW k \in 1..m PROVE z.buf[k] = d[k]
    <3>1. k \in 1..top
      BY <1>1, <2>3, <2>4, <2>29
    <3>2. CASE k <= i
      <4>1. k \in 1..i /\ k # i + 1
        BY <3>2
      <4>2. d[k] = c[k]
        BY <2>28, <2>30, <3>2 DEF IsSpliced
      <4> QED
        BY <2>20, <2>25, <3>1, <4>1, <4>2
    <3>3. CASE k = i + 1
      <4>1. ~(k <= i) /\ k <= i + Len(xs) /\ k - i = 1
        BY <2>23, <3>3
      <4>2. d[k] = xs[k - i]
        BY <2>28, <2>30, <4>1 DEF IsSpliced
      <4> QED
        BY <2>23, <2>25, <3>1, <3>3, <4>1, <4>2
    <3>4. CASE ~(k <= i) /\ k # i + 1
      <4>1. ~(k <= i + Len(xs)) /\ k - i - Len(xs) + i = k - 1 /\ k \in (i + 2)..(n + 1)
        BY <1>1, <2>23, <2>29, <3>4
      <4>2. d[k] = c[k - i - Len(xs) + i]
        BY <2>28, <2>30, <3>4, <4>1 DEF IsSpliced
      <4> QED
        BY <2>19, <2>25, <3>1, <3>4, <4>1, <4>2
    <3> QED
      BY <3>2, <3>3, <3>4
  <2>32. ASSUME NEW k \in (m + 1)..Len(z.buf) PROVE Unused(z, k)
    <3>1. /\ k \in 1..top /\ k \in (n + 1)..top /\ k # n + 1 /\ k # i + 1
          /\ k \notin (i + 1)..n /\ k \notin (i + 2)..(n + 1)
      BY <1>1, <2>1, <2>26, <2>29
    <3>2. z.buf[k] = r.buf[k]
      BY <2>9, <2>14, <2>17, <2>25, <3>1
    <3> QED
      BY <2>4, <3>1, <3>2 DEF Unused
  <2>33. Keeps(Sized(z, m), d)
    <3>1. m <= Len(z.buf) /\ z.blocks = (IF z.small THEN 0 ELSE 1)
      BY <1>1, <2>3, <2>4, <2>26, <2>29
    <3> QED
      BY <2>26, <2>28, <2>30, <2>31, <2>32, <3>1, SizedKeeps
  <2>34. Insert(s, i, elt, rvalue) = Sized(z, m)
    <3> DEFINE new == IF elt \in Elem THEN elt
                      ELSE up.buf[IF elt \in (i + 1)..r.size THEN elt + 1 ELSE elt]
    <3>1. last = Construct(IF rvalue THEN Vacate(r, r.size - 1, r.size) ELSE r, r.size,
                           <<r.buf[r.size]>>)
      BY <2>4, <2>5, <2>6, <2>8
    <3>2. up = Assign(Vacate(last, i, r.size), i + 1, SubSeq(last.buf, i + 1, r.size))
      BY <2>4, <2>10, <2>13, <2>16
    <3>3. new = x
      BY <2>4, <2>21
    <3>4. Insert(s, i, elt, rvalue) = [Assign(up, i, <<new>>) EXCEPT !.size = @ + 1]
      BY <1>5, <2>2, <3>1, <3>2 DEF Insert
    <3> HIDE DEF new
    <3> QED
      BY <2>22, <2>24, <2>26, <2>29, <3>3, <3>4 DEF Sized
  <2> QED
    BY <1>2, <2>22, <2>27, <2>33, <2>34
<1> QED
  BY <1>4, <1>5

\* The slots of some elements hold these elements.
PartAgrees(s, c, i, j) == SubSeq(s.buf, i + 1, j) = SubSeq(c, i + 1, j)

LEMMA PartOfBuffer ==
  ASSUME NEW s, NEW c, Keeps(s, c), NEW i, i \in Nat, NEW j, j \in Nat, i <= j, j <= Len(c)
  PROVE  PartAgrees(s, c, i, j)
<1>1. /\ s \in Object /\ c \in Seq(Slot) /\ Len(c) \in Nat /\ Len(s.buf) \in Nat
      /\ Len(c) <= Len(s.buf) /\ \A k \in 1..Len(c) : s.buf[k] = c[k]
  BY KeepsFacts
<1>2. s.buf \in Seq(Slot) /\ j <= Len(s.buf)
  BY <1>1, ObjectFacts
<1>3. PICK a, b : a = SubSeq(s.buf, i + 1, j) /\ b = SubSeq(c, i + 1, j)
  OBVIOUS
<1>4. a \in Seq(Slot) /\ Len(a) = j - i /\ \A k \in 1..(j - i) : a[k] = s.buf[k + i]
  <2>1. PICK buf : buf = s.buf
    OBVIOUS
  <2>2. buf \in Seq(Slot) /\ j <= Len(buf) /\ a = SubSeq(buf, i + 1, j)
    BY <1>2, <1>3, <2>1
  <2>3. a \in Seq(Slot) /\ Len(a) = j - i /\ \A k \in 1..(j - i) : a[k] = buf[k + i]
    BY <2>2, PartFacts
  <2> QED
    BY <2>1, <2>3
<1>5. b \in Seq(Slot) /\ Len(b) = j - i /\ \A k \in 1..(j - i) : b[k] = c[k + i]
  BY <1>1, <1>3, PartFacts
<1>6. ASSUME NEW k \in 1..Len(a) PROVE a[k] = b[k]
  <2>1. k \in 1..(j - i) /\ k + i \in 1..Len(c)
    BY <1>1, <1>4
  <2> QED
    BY <1>1, <1>4, <1>5, <2>1
<1> QED
  BY <1>3, <1>4, <1>5, <1>6, SeqEqual DEF PartAgrees

LEMMA FrontOfBuffer ==
  ASSUME NEW s, NEW c, Keeps(s, c), NEW j, j \in Nat, j <= Len(c)
  PROVE  SubSeq(s.buf, 1, j) = SubSeq(c, 1, j)
<1>1. /\ s \in Object /\ c \in Seq(Slot) /\ Len(c) \in Nat /\ Len(s.buf) \in Nat
      /\ Len(c) <= Len(s.buf) /\ \A k \in 1..Len(c) : s.buf[k] = c[k]
  BY KeepsFacts
<1>2. PICK buf, a, b : buf = s.buf /\ a = SubSeq(buf, 1, j) /\ b = SubSeq(c, 1, j)
  OBVIOUS
<1>3. buf \in Seq(Slot) /\ j <= Len(buf)
  BY <1>1, <1>2, ObjectFacts
<1>4. a \in Seq(Slot) /\ Len(a) = j /\ \A k \in 1..j : a[k] = buf[k]
  BY <1>2, <1>3, FrontFacts
<1>5. b \in Seq(Slot) /\ Len(b) = j /\ \A k \in 1..j : b[k] = c[k]
  BY <1>1, <1>2, FrontFacts
<1>6. \A k \in 1..Len(a) : a[k] = b[k]
  BY <1>1, <1>2, <1>4, <1>5
<1> QED
  BY <1>2, <1>4, <1>5, <1>6, SeqEqual

\* insert of some elements, not more than there are behind them.
LEMMA InsertFewKeeps ==
  ASSUME NEW s, NEW c, Keeps(s, c), NEW i, i \in Nat, i < s.size, NEW xs, xs \in Seq(Elem),
         s.size - i >= Len(xs)
  PROVE  Keeps(InsertRange(s, i, xs), Spliced(c, i, i, xs))
<1> DEFINE n == Len(c)
           m == Len(xs)
<1>1. s.size = n /\ n \in Nat /\ m \in Nat /\ c \in Seq(Elem)
  BY KeepsFacts, LenProperties
<1>2. i <= n /\ i + m <= n /\ n - m \in Nat /\ i <= n - m /\ n - m <= n /\ n + m \in Nat
  BY <1>1
<1>3. PICK r : r = Reserve(s, s.size + Len(xs))
  OBVIOUS
<1>4. Keeps(r, c) /\ Len(r.buf) >= n + m /\ Len(r.buf) \in Nat
  <2>1. PICK l \in Nat : l = s.size + Len(xs)
    BY <1>1
  <2>2. r = Reserve(s, l)
    BY <1>3, <2>1
  <2>3. Keeps(r, c) /\ Len(r.buf) >= l /\ Len(r.buf) \in Nat
    BY <2>2, ReserveFacts
  <2> QED
    BY <1>1, <2>1, <2>3
<1> DEFINE top == Len(r.buf)
<1>5. r.size = n
  BY <1>4, KeepsFacts
<1>6. PICK h \in Nat : h = n - m
  BY <1>2
<1>7. h <= n /\ i <= h /\ h + m = n /\ i + m <= n
  BY <1>1, <1>2, <1>6
<1>8. PICK tail : tail = SubSeq(r.buf, h + 1, n)
  OBVIOUS
<1>9. tail \in Seq(Elem) /\ Len(tail) = m /\ \A k \in 1..m : tail[k] = c[k + h]
  <2>1. h \in Nat /\ n \in Nat /\ h <= n /\ n <= Len(c)
    BY <1>1, <1>7
  <2>2. tail = SubSeq(c, h + 1, n)
    <3>1. Keeps(r, c)
      BY <1>4
    <3> HIDE DEF n
    <3>2. PartAgrees(r, c, h, n)
      BY <2>1, <3>1, PartOfBuffer
    <3> QED
      BY <1>8, <3>2 DEF PartAgrees
  <2>3. /\ SubSeq(c, h + 1, n) \in Seq(Elem) /\ Len(SubSeq(c, h + 1, n)) = n - h
        /\ \A k \in 1..(n - h) : SubSeq(c, h + 1, n)[k] = c[k + h]
    <3>1. c \in Seq(Elem)
      BY <1>1
    <3> HIDE DEF n
    <3> QED
      BY <2>1, <3>1, PartFacts
  <2>4. n - h = m
    BY <1>1, <1>7
  <2> QED
    BY <2>2, <2>3, <2>4
<1>10. PICK ext, e : ext = AppendAll(r, tail) /\ e = c \o tail
  OBVIOUS
<1>11. Keeps(ext, e) /\ Len(ext.buf) = top
  <2>1. Len(c) + Len(tail) <= Len(r.buf)
    BY <1>1, <1>4, <1>9
  <2>2. tail \in Seq(Elem)
    BY <1>9
  <2> QED
    BY <1>4, <1>10, <2>1, <2>2, AppendAllKeeps
<1>12. /\ Len(e) = n + m /\ \A k \in 1..n : e[k] = c[k]
       /\ \A k \in (n + 1)..(n + m) : e[k] = c[k - m]
  <2>1. IsJoined(e, c, tail)
    BY <1>1, <1>9, <1>10, JoinFacts
  <2>2. Len(e) = n + m
    BY <1>9, <2>1 DEF IsJoined
  <2>3. ASSUME NEW k \in 1..n PROVE e[k] = c[k]
    BY <1>1, <2>1, <2>2 DEF IsJoined
  <2>4. ASSUME NEW k \in (n + 1)..(n + m) PROVE e[k] = c[k - m]
    <3>1. k \in 1..Len(e) /\ ~(k <= n) /\ k - n \in 1..m /\ k - n + h = k - m
      BY <1>1, <1>7, <2>2
    <3>2. e[k] = tail[k - n]
      BY <2>1, <3>1 DEF IsJoined
    <3> QED
      BY <1>9, <3>1, <3>2
  <2> QED
    BY <2>2, <2>3, <2>4
<1>13. /\ ext \in Object /\ ext.size = n + m /\ ext.faults = 0
       /\ ext.blocks = (IF ext.small THEN 0 ELSE 1)
       /\ \A k \in 1..(n + m) : ext.buf[k] = e[k] /\ Usable(ext, k)
       /\ \A k \in (n + m + 1)..top : Unused(ext, k)
  <2>1. /\ ext \in Object /\ ext.size = Len(e) /\ ext.faults = 0
        /\ ext.blocks = (IF ext.small THEN 0 ELSE 1)
        /\ \A k \in 1..Len(e) : ext.buf[k] = e[k] /\ Usable(ext, k)
        /\ \A k \in (Len(e) + 1)..Len(ext.buf) : Unused(ext, k)
    BY <1>11, KeepsFacts
  <2>2. Len(e) = n + m /\ Len(ext.buf) = top
    BY <1>11, <1>12
  <2> QED
    BY <2>1, <2>2
<1>14. PICK low : low = SubSeq(ext.buf, i + 1, h)
  OBVIOUS
<1>15. low \in Seq(Slot) /\ Len(low) = h - i /\ \A k \in 1..(h - i) : low[k] = c[k + i]
  <2>1. ext.buf \in Seq(Slot) /\ h <= Len(ext.buf)
    BY <1>1, <1>4, <1>7, <1>11, <1>13, ObjectFacts
  <2>2. /\ low \in Seq(Slot) /\ Len(low) = h - i
        /\ \A k \in 1..(h - i) : low[k] = ext.buf[k + i]
    BY <1>7, <1>14, <2>1, PartFacts
  <2>3. ASSUME NEW k \in 1..(h - i) PROVE low[k] = c[k + i]
    <3>1. k + i \in 1..n /\ k + i \in 1..(n + m)
      BY <1>1, <1>7
    <3> QED
      BY <1>12, <1>13, <2>2, <3>1
  <2> QED
    BY <2>2, <2>3
<1>16. PICK a : a = Vacate(ext, i, h)
  OBVIOUS
<1>17. /\ SameObject(a, ext)
       /\ \A k \in 1..top : a.buf[k] = IF ~podLike /\ k \in (i + 1)..h THEN Gone ELSE ext.buf[k]
  <2>1. Vacated(a, ext, i, h)
    BY <1>13, <1>16, VacateFacts
  <2> QED
    BY <1>11, <2>1 DEF Vacated
<1>18. a \in Object /\ Len(a.buf) = top /\ \A k \in 1..n : Usable(a, k)
  <2>1. a \in Object /\ Len(a.buf) = top
    BY <1>11, <1>17 DEF SameObject
  <2>2. ASSUME NEW k \in 1..n PROVE Usable(a, k)
    <3>1. k \in 1..top /\ k \in 1..(n + m)
      BY <1>1, <1>4
    <3> QED
      BY <1>13, <1>17, <3>1, SlotAssumption DEF Usable
  <2> QED
    BY <2>1, <2>2
<1>19. PICK im \in Nat : im = i + m /\ im + Len(low) = n
  <2>1. i + m \in Nat /\ i + m + Len(low) = n
    <3>1. Len(low) = h - i
      BY <1>15
    <3> QED
      BY <1>1, <1>6, <1>7, <3>1
  <2> QED
    BY <2>1
<1>20. PICK up : up = Assign(a, im, low)
  OBVIOUS
<1>21. /\ SameObject(up, a)
       /\ \A k \in 1..top : up.buf[k] = IF k \in (im + 1)..n THEN low[k - im] ELSE a.buf[k]
  <2>1. im + Len(low) <= Len(a.buf)
    BY <1>1, <1>4, <1>18, <1>19
  <2>2. \A k \in (im + 1)..(im + Len(low)) : Usable(a, k)
    BY <1>1, <1>18, <1>19
  <2>3. Constructed(up, a, im, low)
    BY <1>15, <1>18, <1>19, <1>20, <2>1, <2>2, AssignFacts
  <2> QED
    BY <1>18, <1>19, <2>3 DEF Constructed
<1>22. up \in Object /\ Len(up.buf) = top
  BY <1>18, <1>21 DEF SameObject
<1>23. PICK z : z = Assign(up, i, xs)
  OBVIOUS
<1>24. /\ SameObject(z, up)
       /\ \A k \in 1..top : z.buf[k] = IF k \in (i + 1)..im THEN xs[k - i] ELSE up.buf[k]
  <2>1. i + Len(xs) <= Len(up.buf)
    BY <1>1, <1>4, <1>7, <1>22
  <2>2. ASSUME NEW k \in (i + 1)..(i + Len(xs)) PROVE Usable(up, k)
    <3>1. k \in 1..n /\ k \in 1..top /\ k \notin (im + 1)..n
      BY <1>1, <1>4, <1>7, <1>19
    <3> QED
      BY <1>18, <1>21, <3>1 DEF Usable
  <2>3. xs \in Seq(Slot)
    BY DEF Slot
  <2>4. Constructed(z, up, i, xs)
    BY <1>22, <1>23, <2>1, <2>2, <2>3, AssignFacts
  <2> QED
    BY <1>19, <1>22, <2>4 DEF Constructed
<1>25. /\ z \in Object /\ Len(z.buf) = top /\ z.size = n + m /\ z.faults = 0
       /\ z.blocks = (IF z.small THEN 0 ELSE 1)
  BY <1>13, <1>17, <1>21, <1>22, <1>24 DEF SameObject
<1>26. PICK d : d = Spliced(c, i, i, xs)
  OBVIOUS
<1>27. d \in Seq(Elem) /\ IsSpliced(d, c, i, i, xs) /\ Len(d) = n + m
  <2>1. i <= i /\ i <= Len(c)
    BY <1>1, <1>2
  <2>2. d \in Seq(Elem) /\ IsSpliced(d, c, i, i, xs)
    BY <1>1, <1>26, <2>1, SplicedFacts
  <2> QED
    BY <1>1, <2>2 DEF IsSpliced
<1>28. ASSUME NEW k \in 1..(n + m) PROVE z.buf[k] = d[k]
  <2>1. k \in 1..top /\ k \in 1..Len(d)
    BY <1>1, <1>4, <1>27
  <2>2. CASE k <= i
    <3>1. /\ k \notin (i + 1)..im /\ k \notin (im + 1)..n /\ k \notin (i + 1)..h /\ k \in 1..n
      BY <1>1, <1>2, <1>19, <2>2
    <3>2. d[k] = c[k]
      BY <1>27, <2>1, <2>2 DEF IsSpliced
    <3> QED
      BY <1>12, <1>13, <1>17, <1>21, <1>24, <2>1, <3>1, <3>2
  <2>3. CASE ~(k <= i) /\ k <= i + m
    <3>1. k \in (i + 1)..im
      BY <1>1, <1>19, <2>3
    <3>2. d[k] = xs[k - i]
      BY <1>27, <2>1, <2>3 DEF IsSpliced
    <3> QED
      BY <1>24, <2>1, <3>1, <3>2
  <2>4. CASE ~(k <= i) /\ ~(k <= i + m)
    <3>1. k \notin (i + 1)..im /\ k - i - m + i = k - m
      BY <1>1, <1>19, <2>4
    <3>2. d[k] = c[k - m]
      BY <1>27, <2>1, <2>4, <3>1 DEF IsSpliced
    <3>3. CASE k <= n
      <4>1. k \in (im + 1)..n /\ k - im \in 1..(h - i) /\ k - im + i = k - m
        BY <1>1, <1>7, <1>19, <2>4, <3>3
      <4> QED
        BY <1>15, <1>21, <1>24, <2>1, <3>1, <3>2, <4>1
    <3>4. CASE ~(k <= n)
      <4>1. k \notin (im + 1)..n /\ k \notin (i + 1)..h /\ k \in (n + 1)..(n + m)
        BY <1>1, <1>7, <3>4
      <4>2. z.buf[k] = ext.buf[k]
        BY <1>17, <1>21, <1>24, <2>1, <3>1, <4>1
      <4>3. ext.buf[k] = e[k]
        BY <1>1, <1>13, <4>1
      <4>4. e[k] = c[k - m]
        BY <1>12, <4>1
      <4> QED
        BY <3>2, <4>2, <4>3, <4>4
    <3> QED
      BY <3>3, <3>4
  <2> QED
    BY <2>2, <2>3, <2>4
<1>29. ASSUME NEW k \in (n + m + 1)..top PROVE Unused(z, k)
  <2>1. /\ k \in 1..top /\ k \notin (i + 1)..im /\ k \notin (im + 1)..n /\ k \notin (i + 1)..h
    BY <1>1, <1>2, <1>4, <1>7, <1>19
  <2>2. z.buf[k] = ext.buf[k]
    BY <1>17, <1>21, <1>24, <2>1
  <2> QED
    BY <1>13, <2>2 DEF Unused
<1>30. Keeps(z, d)
  <2>1. n + m <= top
    BY <1>4
  <2> QED
    BY <1>25, <1>27, <1>28, <1>29, <2>1 DEF Keeps
<1>31. InsertRange(s, i, xs) = z
  <2>1. i # s.size /\ s.size - i >= Len(xs)
    BY <1>1
  <2>2. r.size - Len(xs) = h /\ r.size - Len(xs) + 1 = h + 1 /\ i + Len(xs) = im
    BY <1>5, <1>6, <1>19
  <2>3. ext = AppendAll(r, SubSeq(r.buf, r.size - Len(xs) + 1, r.size))
    BY <1>5, <1>8, <1>10, <2>2
  <2>4. up = Assign(Vacate(ext, i, r.size - Len(xs)), i + Len(xs),
                    SubSeq(ext.buf, i + 1, r.size - Len(xs)))
    BY <1>14, <1>16, <1>20, <2>2
  <2> HIDE DEF n, m, top
  <2> QED
    BY <1>3, <1>23, <2>1, <2>3, <2>4 DEF InsertRange
<1> QED
  BY <1>26, <1>30, <1>31

\* insert of more elements than there are behind them.
LEMMA InsertManyKeeps ==
  ASSUME NEW s, NEW c, Keeps(s, c), NEW i, i \in Nat, i < s.size, NEW xs, xs \in Seq(Elem),
         ~(s.size - i >= Len(xs))
  PROVE  Keeps(InsertRange(s, i, xs), Spliced(c, i, i, xs))
<1> DEFINE n == Len(c)
           m == Len(xs)
<1>1. s.size = n /\ n \in Nat /\ m \in Nat /\ c \in Seq(Elem)
  BY KeepsFacts, LenProperties
<1>2. i <= n /\ i + m > n /\ n + m \in Nat
  BY <1>1
<1>3. PICK r : r = Reserve(s, s.size + Len(xs))
  OBVIOUS
<1>4. Keeps(r, c) /\ Len(r.buf) >= n + m /\ Len(r.buf) \in Nat
  <2>1. PICK l \in Nat : l = s.size + Len(xs)
    BY <1>1
  <2>2. r = Reserve(s, l)
    BY <1>3, <2>1
  <2>3. Keeps(r, c) /\ Len(r.buf) >= l /\ Len(r.buf) \in Nat
    BY <2>2, ReserveFacts
  <2> QED
    BY <1>1, <2>1, <2>3
<1> DEFINE top == Len(r.buf)
<1>5. /\ r \in Object /\ r.size = n /\ r.faults = 0
      /\ r.blocks = (IF r.small THEN 0 ELSE 1)
      /\ \A k \in 1..n : r.buf[k] = c[k] /\ Usable(r, k)
      /\ \A k \in (n + 1)..top : Unused(r, k)
  BY <1>4, KeepsFacts
<1>6. PICK g \in Nat : g = n - i /\ g = s.size - i /\ g <= m /\ i + g = n
  <2>1. n - i \in Nat /\ n - i = s.size - i /\ n - i <= m /\ i + (n - i) = n
    BY <1>1, <1>2
  <2> QED
    BY <2>1
<1>7. PICK im \in Nat : im = i + m /\ im > n /\ im + g = n + m
  <2>1. i + m \in Nat /\ i + m > n /\ i + m + g = n + m
    BY <1>1, <1>2, <1>6
  <2> QED
    BY <2>1
<1>8. PICK low : low = SubSeq(r.buf, i + 1, n)
  OBVIOUS
<1>9. low \in Seq(Slot) /\ Len(low) = g /\ \A k \in 1..g : low[k] = c[k + i]
  <2>1. r.buf \in Seq(Slot) /\ n <= Len(r.buf)
    BY <1>1, <1>4, <1>5, ObjectFacts
  <2>2. /\ low \in Seq(Slot) /\ Len(low) = n - i
        /\ \A k \in 1..(n - i) : low[k] = r.buf[k + i]
    <3>1. n \in Nat /\ i <= n
      BY <1>1, <1>2
    <3> HIDE DEF n
    <3> QED
      BY <1>8, <2>1, <3>1, PartFacts
  <2>3. ASSUME NEW k \in 1..g PROVE low[k] = c[k + i]
    <3>1. k + i \in 1..n /\ k \in 1..(n - i)
      BY <1>1, <1>6
    <3> QED
      BY <1>5, <2>2, <3>1
  <2> QED
    BY <1>6, <2>2, <2>3
<1>10. PICK a : a = Vacate(r, i, n)
  OBVIOUS
<1>11. /\ SameObject(a, r)
       /\ \A k \in 1..top : a.buf[k] = IF ~podLike /\ k \in (i + 1)..n THEN Gone ELSE r.buf[k]
  <2>1. Vacated(a, r, i, n)
    BY <1>1, <1>5, <1>10, VacateFacts
  <2> QED
    BY <2>1 DEF Vacated
<1>12. /\ a \in Object /\ Len(a.buf) = top /\ \A k \in 1..n : Usable(a, k)
       /\ \A k \in (n + 1)..top : Unused(a, k)
  <2>1. a \in Object /\ Len(a.buf) = top
    BY <1>11 DEF SameObject
  <2>2. ASSUME NEW k \in 1..n PROVE Usable(a, k)
    <3>1. k \in 1..top
      BY <1>1, <1>4
    <3> QED
      BY <1>5, <1>11, <3>1, SlotAssumption DEF Usable
  <2>3. ASSUME NEW k \in (n + 1)..top PROVE Unused(a, k)
    <3>1. k \in 1..top /\ k \notin (i + 1)..n
      BY <1>1, <1>4
    <3> QED
      BY <1>5, <1>11, <3>1 DEF Unused
  <2> QED
    BY <2>1, <2>2, <2>3
<1>13. PICK up : up = Construct(a, im, low)
  OBVIOUS
<1>14. /\ SameObject(up, a)
       /\ \A k \in 1..top : up.buf[k] = IF k \in (im + 1)..(n + m) THEN low[k - im] ELSE a.buf[k]
  <2>1. im + Len(low) <= Len(a.buf) /\ im + Len(low) = n + m
    BY <1>1, <1>4, <1>7, <1>9, <1>12
  <2>2. ASSUME NEW k \in (im + 1)..(im + Len(low)) PROVE Unused(a, k)
    <3>1. k \in (n + 1)..top
      BY <1>1, <1>7, <1>12, <2>1
    <3> QED
      BY <1>12, <3>1
  <2>3. Constructed(up, a, im, low)
    BY <1>7, <1>9, <1>12, <1>13, <2>1, <2>2, ConstructFacts
  <2> QED
    BY <1>12, <2>1, <2>3 DEF Constructed
<1>15. up \in Object /\ Len(up.buf) = top
  BY <1>12, <1>14 DEF SameObject
<1>16. PICK x1, x2 : x1 = SubSeq(xs, 1, g) /\ x2 = SubSeq(xs, g + 1, m)
  OBVIOUS
<1>17. x1 \in Seq(Elem) /\ x1 \in Seq(Slot) /\ Len(x1) = g /\ \A k \in 1..g : x1[k] = xs[k]
  <2>1. x1 \in Seq(Elem) /\ Len(x1) = g /\ \A k \in 1..g : x1[k] = xs[k]
    <3>1. g <= Len(xs) /\ x1 = SubSeq(xs, 1, g)
      BY <1>6, <1>16
    <3> QED
      BY <3>1, FrontFacts
  <2> QED
    BY <2>1 DEF Slot
<1>18. /\ x2 \in Seq(Elem) /\ x2 \in Seq(Slot) /\ Len(x2) = m - g
       /\ \A k \in 1..(m - g) : x2[k] = xs[k + g]
  <2>1. /\ x2 \in Seq(Elem) /\ Len(x2) = m - g
        /\ \A k \in 1..(m - g) : x2[k] = xs[k + g]
    <3>1. m \in Nat /\ g <= m /\ m <= Len(xs)
      BY <1>1, <1>6
    <3> HIDE DEF m
    <3> QED
      BY <1>16, <3>1, PartFacts
  <2> QED
    BY <2>1 DEF Slot
<1>19. PICK over : over = Assign(up, i, x1)
  OBVIOUS
<1>20. /\ SameObject(over, up)
       /\ \A k \in 1..top : over.buf[k] = IF k \in (i + 1)..n THEN x1[k - i] ELSE up.buf[k]
  <2>1. i + Len(x1) <= Len(up.buf) /\ i + Len(x1) = n
    BY <1>1, <1>4, <1>6, <1>15, <1>17
  <2>2. ASSUME NEW k \in (i + 1)..(i + Len(x1)) PROVE Usable(up, k)
    <3>1. k \in 1..n /\ k \in 1..top /\ k \notin (im + 1)..(n + m)
      BY <1>1, <1>4, <1>7, <2>1
    <3> QED
      BY <1>12, <1>14, <3>1 DEF Usable
  <2>3. Constructed(over, up, i, x1)
    BY <1>15, <1>17, <1>19, <2>1, <2>2, AssignFacts
  <2> QED
    BY <1>15, <2>1, <2>3 DEF Constructed
<1>21. over \in Object /\ Len(over.buf) = top /\ over.size = n
  BY <1>5, <1>11, <1>14, <1>15, <1>20 DEF SameObject
<1>22. PICK z : z = Construct(over, n, x2)
  OBVIOUS
<1>23. /\ SameObject(z, over)
       /\ \A k \in 1..top : z.buf[k] = IF k \in (n + 1)..im THEN x2[k - n] ELSE over.buf[k]
  <2>1. n + Len(x2) <= Len(over.buf) /\ n + Len(x2) = im
    BY <1>1, <1>4, <1>6, <1>7, <1>18, <1>21
  <2>2. ASSUME NEW k \in (n + 1)..(n + Len(x2)) PROVE Unused(over, k)
    <3>1. k \in (n + 1)..top /\ k \in 1..top /\ k \notin (im + 1)..(n + m) /\ k \notin (i + 1)..n
      BY <1>1, <1>4, <1>7, <2>1
    <3> QED
      BY <1>12, <1>14, <1>20, <3>1 DEF Unused
  <2>3. Constructed(z, over, n, x2)
    <3>1. n \in Nat
      BY <1>1
    <3> QED
      BY <1>18, <1>21, <1>22, <2>1, <2>2, <3>1, ConstructFacts
  <2> QED
    BY <1>21, <2>1, <2>3 DEF Constructed
<1>24. /\ z \in Object /\ Len(z.buf) = top /\ z.size = n /\ z.faults = 0
       /\ z.blocks = (IF z.small THEN 0 ELSE 1)
  BY <1>5, <1>11, <1>14, <1>20, <1>21, <1>23 DEF SameObject
<1>25. PICK d : d = Spliced(c, i, i, xs)
  OBVIOUS
<1>26. d \in Seq(Elem) /\ IsSpliced(d, c, i, i, xs) /\ Len(d) = n + m
  <2>1. i <= i /\ i <= Len(c)
    BY <1>1, <1>2
  <2>2. d \in Seq(Elem) /\ IsSpliced(d, c, i, i, xs)
    BY <1>1, <1>25, <2>1, SplicedFacts
  <2> QED
    BY <1>1, <2>2 DEF IsSpliced
<1>27. ASSUME NEW k \in 1..(n + m) PROVE z.buf[k] = d[k]
  <2>1. k \in 1..top /\ k \in 1..Len(d)
    BY <1>1, <1>4, <1>26
  <2>2. CASE k <= i
    <3>1. /\ k \notin (n + 1)..im /\ k \notin (i + 1)..n /\ k \notin (im + 1)..(n + m) /\ k \in 1..n
      BY <1>1, <1>2, <1>7, <2>2
    <3>2. d[k] = c[k]
      BY <1>26, <2>1, <2>2 DEF IsSpliced
    <3> QED
      BY <1>5, <1>11, <1>14, <1>20, <1>23, <2>1, <3>1, <3>2
  <2>3. CASE ~(k <= i) /\ k <= i + m
    <3>1. d[k] = xs[k - i]
      BY <1>26, <2>1, <2>3 DEF IsSpliced
    <3>2. CASE k <= n
      <4>1. k \notin (n + 1)..im /\ k \in (i + 1)..n /\ k - i \in 1..g
        BY <1>1, <1>6, <2>3, <3>2
      <4> QED
        BY <1>17, <1>20, <1>23, <2>1, <3>1, <4>1
    <3>3. CASE ~(k <= n)
      <4>1. k \in (n + 1)..im /\ k - n \in 1..(m - g) /\ k - n + g = k - i
        BY <1>1, <1>6, <1>7, <2>3, <3>3
      <4> QED
        BY <1>18, <1>23, <2>1, <3>1, <4>1
    <3> QED
      BY <3>2, <3>3
  <2>4. CASE ~(k <= i) /\ ~(k <= i + m)
    <3>1. /\ k \notin (n + 1)..im /\ k \notin (i + 1)..n /\ k \in (im + 1)..(n + m)
          /\ k - i - m + i = k - m /\ k - im \in 1..g /\ k - im + i = k - m
      BY <1>1, <1>6, <1>7, <2>4
    <3>2. d[k] = c[k - m]
      BY <1>26, <2>1, <2>4, <3>1 DEF IsSpliced
    <3> QED
      BY <1>9, <1>14, <1>20, <1>23, <2>1, <3>1, <3>2
  <2> QED
    BY <2>2, <2>3, <2>4
<1>28. ASSUME NEW k \in (n + m + 1)..top PROVE Unused(z, k)
  <2>1. /\ k \in 1..top /\ k \in (n + 1)..top /\ k \notin (n + 1)..im /\ k \notin (i + 1)..n
        /\ k \notin (im + 1)..(n + m)
    BY <1>1, <1>2, <1>4, <1>7
  <2>2. z.buf[k] = a.buf[k]
    BY <1>14, <1>20, <1>23, <2>1
  <2> QED
    BY <1>12, <2>1, <2>2 DEF Unused
<1>29. PICK l \in Nat : l = n + m
  BY <1>2
<1>30. Keeps(Sized(z, l), d)
  <2>1. l = Len(d) /\ l <= Len(z.buf)
    BY <1>4, <1>24, <1>26, <1>29
  <2>2. \A k \in 1..l : z.buf[k] = d[k]
    BY <1>27, <1>29
  <2>3. \A k \in (l + 1)..Len(z.buf) : Unused(z, k)
    BY <1>24, <1>28, <1>29
  <2> QED
    BY <1>24, <1>26, <2>1, <2>2, <2>3, SizedKeeps
<1>31. InsertRange(s, i, xs) = Sized(z, l)
  <2>1. i # s.size /\ ~(s.size - i >= Len(xs))
    BY <1>1
  <2>2. up = Construct(Vacate(r, i, r.size), i + Len(xs), SubSeq(r.buf, i + 1, r.size))
    BY <1>5, <1>7, <1>8, <1>10, <1>13
  <2>3. over = Assign(up, i, SubSeq(xs, 1, s.size - i))
    BY <1>6, <1>16, <1>19
  <2>4. z = Construct(over, r.size, SubSeq(xs, s.size - i + 1, Len(xs)))
    BY <1>5, <1>6, <1>16, <1>22
  <2>5. z.size + Len(xs) = l
    BY <1>24, <1>29
  <2> HIDE DEF n, m, top
  <2>6. InsertRange(s, i, xs) = [z EXCEPT !.size = @ + Len(xs)]
    BY <1>3, <2>1, <2>2, <2>3, <2>4 DEF InsertRange
  <2> QED
    BY <2>5, <2>6 DEF Sized
<1> QED
  BY <1>25, <1>30, <1>31

LEMMA InsertRangeKeeps ==
  ASSUME NEW s, NEW c, Keeps(s, c), NEW i, i \in Nat, i <= s.size, NEW xs, xs \in Seq(Elem)
  PROVE  Keeps(InsertRange(s, i, xs), Spliced(c, i, i, xs))
<1>1. s.size = Len(c) /\ Len(c) \in Nat /\ c \in Seq(Elem)
  BY KeepsFacts
<1>2. CASE i = s.size
  <2>1. InsertRange(s, i, xs) = AppendAll(s, xs)
    BY <1>2 DEF InsertRange
  <2>2. Keeps(AppendAll(s, xs), c \o xs)
    BY AppendAllKeeps
  <2>3. Spliced(c, Len(c), Len(c), xs) = c \o xs
    BY <1>1, SplicedAtEnd
  <2> QED
    BY <1>1, <1>2, <2>1, <2>2, <2>3
<1>3. CASE i # s.size
  <2>1. i < s.size
    BY <1>1, <1>3
  <2> QED
    BY <2>1, InsertFewKeeps, InsertManyKeeps
<1> QED
  BY <1>2, <1>3

-----------------------------------------------------------------------------
(* SmallVector: one object made from another.                              *)

\* A sequence is its front and its rest.
LEMMA FrontAndRest ==
  ASSUME NEW S, NEW d, d \in Seq(S), NEW l, l \in Nat, l <= Len(d)
  PROVE  SubSeq(d, 1, l) \o SubSeq(d, l + 1, Len(d)) = d
<1>1. PICK n : n = Len(d)
  OBVIOUS
<1>2. n \in Nat /\ l <= n /\ n <= Len(d)
  BY <1>1, LenProperties
<1>3. PICK a, b, e : a = SubSeq(d, 1, l) /\ b = SubSeq(d, l + 1, n) /\ e = a \o b
  OBVIOUS
<1>4. a \in Seq(S) /\ Len(a) = l /\ \A k \in 1..l : a[k] = d[k]
  BY <1>3, FrontFacts
<1>5. b \in Seq(S) /\ Len(b) = n - l /\ \A k \in 1..(n - l) : b[k] = d[k + l]
  BY <1>2, <1>3, PartFacts
<1>6. e \in Seq(S) /\ IsJoined(e, a, b)
  BY <1>3, <1>4, <1>5, JoinFacts
<1>7. Len(e) = n
  BY <1>2, <1>4, <1>5, <1>6 DEF IsJoined
<1>8. ASSUME NEW k \in 1..Len(e) PROVE e[k] = d[k]
  <2>1. CASE k <= l
    <3>1. k \in 1..l /\ e[k] = a[k]
      BY <1>4, <1>6, <2>1 DEF IsJoined
    <3> QED
      BY <1>4, <3>1
  <2>2. CASE ~(k <= l)
    <3>1. k - l \in 1..(n - l) /\ k - l + l = k
      BY <1>2, <1>7, <2>2
    <3>2. e[k] = b[k - l]
      BY <1>4, <1>6, <2>2 DEF IsJoined
    <3> QED
      BY <1>5, <3>1, <3>2
  <2> QED
    BY <2>1, <2>2
<1>9. e = d
  BY <1>1, <1>6, <1>7, <1>8, SeqEqual
<1> QED
  BY <1>1, <1>3, <1>9

\* The front of a sequence whose first elements were replaced, and its rest.
LEMMA FrontReplaced ==
  ASSUME NEW S, NEW c, c \in Seq(S), NEW d, d \in Seq(S), Len(d) <= Len(c), NEW i, i = 0,
         NEW e, e = Spliced(c, i, Len(d), d)
  PROVE  /\ e \in Seq(S) /\ Len(e) = Len(c)
         /\ SubSeq(e, 1, Len(d)) = d
         /\ SubSeq(e, Len(d) + 1, Len(e)) = SubSeq(c, Len(d) + 1, Len(c))
<1>1. PICK m, n : m = Len(d) /\ n = Len(c)
  OBVIOUS
<1>2. m \in Nat /\ n \in Nat /\ m <= n /\ m <= Len(c) /\ i <= m /\ i \in Nat /\ n <= Len(c)
  BY <1>1, LenProperties
<1>3. e \in Seq(S) /\ IsSpliced(e, c, i, m, d)
  BY <1>1, <1>2, SplicedFacts
<1>4. Len(e) = n
  BY <1>1, <1>2, <1>3 DEF IsSpliced
<1>5. ASSUME NEW k \in 1..m PROVE e[k] = d[k]
  <2>1. k \in 1..Len(e) /\ ~(k <= i) /\ k <= i + Len(d) /\ k - i = k
    BY <1>1, <1>2, <1>4
  <2> QED
    BY <1>3, <2>1 DEF IsSpliced
<1>6. ASSUME NEW k \in (m + 1)..n PROVE e[k] = c[k]
  <2>1. k \in 1..Len(e) /\ ~(k <= i) /\ ~(k <= i + Len(d)) /\ k - i - Len(d) + m = k
    BY <1>1, <1>2, <1>4
  <2>2. e[k] = c[k - i - Len(d) + m]
    BY <1>3, <2>1 DEF IsSpliced
  <2> QED
    BY <2>1, <2>2
<1>7. SubSeq(e, 1, m) = d
  <2>1. PICK a : a = SubSeq(e, 1, m)
    OBVIOUS
  <2>2. m <= Len(e)
    BY <1>2, <1>4
  <2>3. a \in Seq(S) /\ Len(a) = m /\ \A k \in 1..m : a[k] = e[k]
    BY <1>2, <1>3, <2>1, <2>2, FrontFacts
  <2>4. Len(a) = Len(d) /\ \A k \in 1..Len(a) : a[k] = d[k]
    BY <1>1, <1>5, <2>3
  <2> QED
    BY <2>1, <2>3, <2>4, SeqEqual
<1>8. SubSeq(e, m + 1, n) = SubSeq(c, m + 1, n)
  <2>1. PICK a, b : a = SubSeq(e, m + 1, n) /\ b = SubSeq(c, m + 1, n)
    OBVIOUS
  <2>2. n <= Len(e)
    BY <1>2, <1>4
  <2>3. a \in Seq(S) /\ Len(a) = n - m /\ \A k \in 1..(n - m) : a[k] = e[k + m]
    BY <1>2, <1>3, <2>1, <2>2, PartFacts
  <2>4. b \in Seq(S) /\ Len(b) = n - m /\ \A k \in 1..(n - m) : b[k] = c[k + m]
    BY <1>2, <2>1, PartFacts
  <2>5. ASSUME NEW k \in 1..Len(a) PROVE a[k] = b[k]
    <3>1. k \in 1..(n - m) /\ k + m \in (m + 1)..n
      BY <1>2, <2>3
    <3> QED
      BY <1>6, <2>3, <2>4, <3>1
  <2> QED
    BY <2>1, <2>3, <2>4, <2>5, SeqEqual
<1> QED
  BY <1>1, <1>3, <1>4, <1>7, <1>8

\* The first elements assigned, and the others destroyed.
LEMMA ReplaceKeeps ==
  ASSUME NEW s, NEW c, Keeps(s, c), NEW d, d \in Seq(Elem), Len(d) <= Len(c), NEW i, i = 0
  PROVE  Keeps(Sized(Destroy(Assign(s, i, d), Len(d), Len(c)), Len(d)), d)
<1>1. c \in Seq(Elem) /\ Len(c) \in Nat /\ Len(d) \in Nat /\ i \in Nat
  BY KeepsFacts, LenProperties
<1>2. PICK a, e : a = Assign(s, i, d) /\ e = Spliced(c, i, i + Len(d), d)
  OBVIOUS
<1>3. Keeps(a, e) /\ Len(e) = Len(c)
  <2>1. i + Len(d) <= Len(c)
    BY <1>1
  <2> QED
    <3>1. Overlaid(Assign(s, i, d), s, c, i, d)
      BY <1>1, <2>1, OverKeeps
    <3> QED
      BY <1>2, <3>1, Zenon DEF Overlaid
<1>4. SubSeq(e, 1, Len(d)) = d
  <2>1. i + Len(d) = Len(d)
    BY <1>1
  <2>2. e = Spliced(c, i, Len(d), d)
    BY <1>2, <2>1
  <2> QED
    BY <1>1, <2>2, FrontReplaced
<1>5. Keeps(Sized(Destroy(a, Len(d), Len(e)), Len(d)), SubSeq(e, 1, Len(d)))
  <2>1. Len(d) <= Len(e)
    BY <1>3
  <2> QED
    BY <1>1, <1>3, <2>1, CutKeeps
<1> QED
  BY <1>2, <1>3, <1>4, <1>5

\* All elements assigned.
LEMMA AssignedKeeps ==
  ASSUME NEW s, NEW c, Keeps(s, c), NEW d, d \in Seq(Elem), Len(d) = Len(c), NEW i, i = 0
  PROVE  Keeps(Assign(s, i, d), d) /\ Len(Assign(s, i, d).buf) = Len(s.buf)
<1>1. c \in Seq(Elem) /\ Len(c) \in Nat /\ i \in Nat
  BY KeepsFacts
<1>2. i + Len(d) <= Len(c) /\ i + Len(d) = Len(c)
  BY <1>1
<1>3. PICK a, e : a = Assign(s, i, d) /\ e = Spliced(c, i, i + Len(d), d)
  OBVIOUS
<1>4. Keeps(a, e) /\ Len(a.buf) = Len(s.buf)
  <2>1. i + Len(d) <= Len(c)
    BY <1>2
  <2> QED
    <3>1. Overlaid(Assign(s, i, d), s, c, i, d)
      BY <1>1, <2>1, OverKeeps
    <3> QED
      BY <1>3, <3>1, Zenon DEF Overlaid
<1>5. e = d
  <2>1. e = Spliced(c, i, Len(c), d)
    BY <1>2, <1>3
  <2> QED
    BY <1>1, <2>1, SplicedAll
<1> QED
  BY <1>3, <1>4, <1>5

\* The rest constructed behind the front.
LEMMA CompleteKeeps ==
  ASSUME NEW r, NEW d, d \in Seq(Elem), NEW l, l \in Nat, l <= Len(d), Len(d) <= Len(r.buf),
         Keeps(r, SubSeq(d, 1, l))
  PROVE  Keeps(Sized(Construct(r, l, SubSeq(d, l + 1, Len(d))), Len(d)), d)
<1>1. PICK n : n = Len(d)
  OBVIOUS
<1>2. n \in Nat /\ l <= n /\ n <= Len(d)
  BY <1>1, LenProperties
<1>3. PICK a, b : a = SubSeq(d, 1, l) /\ b = SubSeq(d, l + 1, n)
  OBVIOUS
<1>4. Keeps(r, a) /\ Len(a) = l
  BY <1>3, FrontFacts
<1>5. b \in Seq(Elem) /\ Len(b) = n - l
  BY <1>2, <1>3, PartFacts
<1>6. l + Len(b) = n /\ l + Len(b) <= Len(r.buf)
  BY <1>1, <1>2, <1>5
<1>7. Keeps(Sized(Construct(r, l, b), l + Len(b)), a \o b)
  <2>1. l = Len(a) /\ l + Len(b) <= Len(r.buf) /\ b \in Seq(Elem) /\ Keeps(r, a)
    BY <1>4, <1>5, <1>6
  <2> QED
    BY <2>1, ExtendKeeps
<1>8. a \o b = d
  BY <1>1, <1>3, FrontAndRest
<1> QED
  BY <1>1, <1>3, <1>6, <1>7, <1>8

\* The front of a sequence to its end, and nothing of it.
LEMMA FrontEnds ==
  ASSUME NEW S, NEW d, d \in Seq(S), NEW i, i = 0
  PROVE  SubSeq(d, 1, Len(d)) = d /\ SubSeq(d, 1, i) = <<>>
<1>1. Len(d) \in Nat /\ Len(d) <= Len(d) /\ i \in Nat /\ i <= Len(d)
  BY LenProperties
<1>2. PICK a, b : a = SubSeq(d, 1, Len(d)) /\ b = SubSeq(d, 1, i)
  OBVIOUS
<1>3. a \in Seq(S) /\ Len(a) = Len(d) /\ \A k \in 1..Len(d) : a[k] = d[k]
  BY <1>1, <1>2, FrontFacts
<1>4. a = d
  BY <1>3, SeqEqual
<1>5. b \in Seq(S) /\ Len(b) = 0
  BY <1>1, <1>2, FrontFacts
<1>6. b = <<>>
  BY <1>5, EmptySeq
<1> QED
  BY <1>2, <1>4, <1>6

\* A vector cleared and grown: nothing in it, and the slots asked for.
LEMMA ClearedAndGrown ==
  ASSUME NEW s, NEW c, Keeps(s, c), NEW n, n \in Nat
  PROVE  Keeps(Grow(Clear(s), n), <<>>) /\ Len(Grow(Clear(s), n).buf) >= n
<1>1. PICK t, e : t = Clear(s) /\ e = <<>>
  OBVIOUS
<1>2. Keeps(t, <<>>)
  BY <1>1, ClearedKeeps
<1>3. Keeps(t, e)
  BY <1>1, <1>2
<1>4. Keeps(Grow(t, n), e) /\ Capacity(Grow(t, n)) >= n
  BY <1>3, GrowFacts
<1> QED
  BY <1>1, <1>4 DEF Capacity

\* operator=(const &).
LEMMA CopyAssignKeeps ==
  ASSUME NEW s, NEW c, Keeps(s, c), NEW t, NEW d, Keeps(t, d)
  PROVE  Keeps(CopyAssign(s, t), d)
<1> DEFINE n == Len(c)
           m == Len(d)
<1>1. /\ c \in Seq(Elem) /\ n \in Nat /\ s.size = n /\ Len(s.buf) \in Nat /\ n <= Len(s.buf)
      /\ d \in Seq(Elem) /\ m \in Nat /\ t.size = m
  BY KeepsFacts
<1>2. Contents(t) = d
  BY ContentsFacts
<1>3. PICK i : i = 0
  OBVIOUS
<1>4. CASE s.size >= t.size
  <2>1. m <= n
    BY <1>1, <1>4
  <2>2. Keeps(Sized(Destroy(Assign(s, i, d), m, n), m), d)
    BY <1>1, <1>3, <2>1, ReplaceKeeps
  <2>3. CopyAssign(s, t) = Sized(Destroy(Assign(s, i, d), m, n), m)
    BY <1>1, <1>2, <1>3, <1>4 DEF CopyAssign, Sized
  <2> QED
    BY <2>2, <2>3
<1>5. CASE ~(s.size >= t.size)
  <2>1. n < m /\ n <= m
    BY <1>1, <1>5
  <2>2. PICK r : r = IF Capacity(s) < t.size THEN Grow(Clear(s), t.size)
                     ELSE Assign(s, 0, SubSeq(t.buf, 1, s.size))
    OBVIOUS
  <2>3. PICK l \in Nat : l <= m /\ Keeps(r, SubSeq(d, 1, l)) /\ m <= Len(r.buf)
    <3>1. CASE Capacity(s) < t.size
      <4>1. Keeps(Grow(Clear(s), m), <<>>) /\ Len(Grow(Clear(s), m).buf) >= m
        BY <1>1, ClearedAndGrown
      <4>2. r = Grow(Clear(s), m)
        BY <1>1, <2>2, <3>1
      <4>3. Keeps(r, <<>>) /\ Len(r.buf) >= m
        BY <4>1, <4>2
      <4>4. SubSeq(d, 1, i) = <<>>
        BY <1>1, <1>3, FrontEnds
      <4>5. Len(r.buf) \in Nat
        BY <4>3, KeepsFacts
      <4>6. i \in Nat /\ i <= m /\ m <= Len(r.buf)
        BY <1>1, <1>3, <4>3, <4>5
      <4>7. Keeps(r, SubSeq(d, 1, i))
        BY <4>3, <4>4, Zenon
      <4> QED
        BY <4>6, <4>7
    <3>2. CASE ~(Capacity(s) < t.size)
      <4>1. PICK e : e = SubSeq(d, 1, n)
        OBVIOUS
      <4>2. e \in Seq(Elem) /\ Len(e) = n
        BY <1>1, <2>1, <4>1, FrontFacts
      <4>3. SubSeq(t.buf, 1, n) = e
        BY <1>1, <2>1, <4>1, FrontOfBuffer
      <4>4. r = Assign(s, i, e)
        BY <1>1, <1>3, <2>2, <3>2, <4>3
      <4>5. Keeps(r, e) /\ Len(r.buf) = Len(s.buf)
        BY <1>3, <4>2, <4>4, AssignedKeeps
      <4>6. m <= Len(r.buf)
        BY <1>1, <3>2, <4>5 DEF Capacity
      <4> QED
        BY <1>1, <2>1, <4>1, <4>5, <4>6
    <3> QED
      BY <3>1, <3>2
  <2>4. r.size = l
    <3>1. Len(SubSeq(d, 1, l)) = l
      BY <1>1, <2>3, FrontFacts
    <3> QED
      BY <2>3, <3>1, KeepsFacts
  <2>5. SubSeq(t.buf, l + 1, m) = SubSeq(d, l + 1, m)
    <3>1. m \in Nat /\ l <= m /\ m <= Len(d)
      BY <1>1, <2>3
    <3>2. PartAgrees(t, d, l, m)
      <4> HIDE DEF m
      <4> QED
        BY <3>1, PartOfBuffer
    <3> QED
      BY <3>2 DEF PartAgrees
  <2>6. CopyAssign(s, t) = Sized(Construct(r, l, SubSeq(d, l + 1, Len(d))), Len(d))
    <3>1. CopyAssign(s, t) = Sized(Construct(r, r.size, SubSeq(t.buf, r.size + 1, t.size)), t.size)
      BY <1>5, <2>2 DEF CopyAssign, Sized
    <3> QED
      BY <1>1, <2>4, <2>5, <3>1
  <2>7. Keeps(Sized(Construct(r, l, SubSeq(d, l + 1, Len(d))), Len(d)), d)
    BY <1>1, <2>3, CompleteKeeps
  <2> QED
    BY <2>6, <2>7
<1> QED
  BY <1>4, <1>5

-----------------------------------------------------------------------------
(* SmallVector: buffers that change hands.                                 *)

\* An object with its elements in place, and one with a block of its own.
InPlace(b, n) == [buf |-> b, size |-> n, small |-> TRUE, blocks |-> 0, faults |-> 0]
OnHeap(b, n) == [buf |-> b, size |-> n, small |-> FALSE, blocks |-> 1, faults |-> 0]

\* A vector on the heap is nothing but its buffer and its size.
LEMMA HeapIs ==
  ASSUME NEW s, NEW c, Keeps(s, c), ~s.small
  PROVE  s = OnHeap(s.buf, s.size)
<1>1. s \in Object /\ s.faults = 0 /\ s.blocks = 1
  BY KeepsFacts
<1>2. s.small = FALSE
  BY <1>1, Zenon DEF Object
<1> QED
  BY <1>1, <1>2 DEF Object, OnHeap

\* A vector without elements, in place.
LEMMA EmptyInPlace ==
  ASSUME NEW b, b \in Seq(Slot), \A k \in 1..Len(b) : b[k] = Raw
  PROVE  Keeps(InPlace(b, 0), <<>>)
<1>1. PICK r, c : r = InPlace(b, 0) /\ c = <<>>
  OBVIOUS
<1>2. r \in Object
  BY <1>1 DEF Object, InPlace
<1>3. r.buf = b /\ r.size = 0 /\ r.small /\ r.blocks = 0 /\ r.faults = 0
  BY <1>1 DEF InPlace
<1>4. c \in Seq(Elem) /\ Len(c) = 0 /\ Len(b) \in Nat
  BY <1>1, EmptySeq, LenProperties
<1>5. \A k \in (Len(c) + 1)..Len(r.buf) : Unused(r, k)
  BY <1>3, <1>4 DEF Unused
<1>6. Keeps(r, c)
  BY <1>2, <1>3, <1>4, <1>5 DEF Keeps
<1> QED
  BY <1>1, <1>6

\* An object whose elements are destroyed and whose buffer is given up.
LEMMA FreedFacts ==
  ASSUME NEW s, NEW c, Keeps(s, c), NEW i, i = 0,
         NEW r, r = Release(Destroy(s, i, s.size))
  PROVE  r \in Object /\ r.blocks = 0 /\ r.faults = 0
<1>1. /\ s \in Object /\ Len(c) \in Nat /\ Len(s.buf) \in Nat /\ i \in Nat
      /\ s.size = Len(c) /\ Len(c) <= Len(s.buf) /\ s.faults = 0
      /\ \A k \in 1..Len(c) : Usable(s, k)
      /\ \A k \in (Len(c) + 1)..Len(s.buf) : Unused(s, k)
      /\ s.blocks = (IF s.small THEN 0 ELSE 1)
  BY KeepsFacts
<1>2. PICK a : a = Destroy(s, i, Len(c))
  OBVIOUS
<1>3. /\ SameObject(a, s)
      /\ \A k \in 1..Len(s.buf) : a.buf[k] = IF k \in 1..Len(c) THEN Raw ELSE s.buf[k]
  <2>1. \A k \in (i + 1)..Len(c) : Usable(s, k)
    BY <1>1
  <2>2. Destroyed(a, s, i, Len(c))
    BY <1>1, <1>2, <2>1, DestroyFacts
  <2>3. i + 1 = 1
    OBVIOUS
  <2> QED
    BY <2>2, <2>3 DEF Destroyed
<1>4. a \in Object /\ Len(a.buf) = Len(s.buf) /\ a.small = s.small /\ a.blocks = s.blocks
      /\ a.faults = 0
  BY <1>1, <1>3 DEF SameObject
<1>5. ASSUME NEW k \in 1..Len(a.buf) PROVE Unused(a, k)
  <2>1. CASE k \in 1..Len(c)
    BY <1>3, <1>4, <2>1 DEF Unused
  <2>2. CASE k \notin 1..Len(c)
    <3>1. k \in (Len(c) + 1)..Len(s.buf) /\ k \in 1..Len(s.buf)
      BY <1>1, <1>4, <2>2
    <3> QED
      BY <1>1, <1>3, <2>2, <3>1 DEF Unused
  <2> QED
    BY <2>1, <2>2
<1>6. r = Release(a)
  BY <1>1, <1>2
<1>7. r \in Object /\ r.blocks = a.blocks - (IF a.small THEN 0 ELSE 1) /\ r.faults = a.faults
  BY <1>4, <1>5, <1>6, ReleaseFacts
<1>8. s.blocks - (IF s.small THEN 0 ELSE 1) = 0
  BY <1>1
<1> QED
  BY <1>4, <1>7, <1>8

\* The end of a vector, and the beginning of another in its place.
LEMMA FreshKeeps ==
  ASSUME NEW s, NEW c, Keeps(s, c)
  PROVE  Keeps(Fresh(s), <<>>)
<1>1. PICK i : i = 0
  OBVIOUS
<1>2. PICK r : r = Release(Destroy(s, i, s.size))
  OBVIOUS
<1>3. r \in Object /\ r.blocks = 0 /\ r.faults = 0
  BY <1>1, <1>2, FreedFacts
<1>4. PICK b : b = Blank(Inline)
  OBVIOUS
<1>5. b \in Seq(Slot) /\ \A k \in 1..Len(b) : b[k] = Raw
  <2>1. b \in [1..Inline -> Slot]
    BY <1>4 DEF Blank, Slot
  <2>2. b \in Seq(Slot) /\ Len(b) = Inline
    BY <2>1, InlineAssumption, LenProperties DEF Seq
  <2> QED
    BY <1>4, <2>2 DEF Blank
<1>6. Fresh(s) = [r EXCEPT !.buf = b, !.size = 0, !.small = TRUE]
  BY <1>1, <1>2, <1>4 DEF Fresh
<1>7. Fresh(s) = InPlace(b, 0)
  BY <1>3, <1>6 DEF Object, InPlace
<1> QED
  BY <1>5, <1>7, EmptyInPlace

\* A vector whose elements were moved away, and that is cleared.
LEMMA EmptiedKeeps ==
  ASSUME NEW t, NEW d, Keeps(t, d)
  PROVE  Keeps(Clear(Vacate(t, 0, t.size)), <<>>)
<1> DEFINE n == Len(d)
<1>1. /\ t \in Object /\ n \in Nat /\ Len(t.buf) \in Nat
      /\ t.size = n /\ n <= Len(t.buf) /\ t.faults = 0
      /\ \A k \in 1..n : Usable(t, k)
      /\ \A k \in (n + 1)..Len(t.buf) : Unused(t, k)
      /\ t.blocks = (IF t.small THEN 0 ELSE 1)
  BY KeepsFacts
<1>2. PICK i \in Nat : i = 0
  OBVIOUS
<1>3. PICK a, b, c : a = Vacate(t, i, n) /\ b = Destroy(a, i, n) /\ c = <<>>
  OBVIOUS
<1>4. /\ SameObject(a, t)
      /\ \A k \in 1..Len(t.buf) : a.buf[k] = IF ~podLike /\ k \in (i + 1)..n THEN Gone ELSE t.buf[k]
  <2>1. Vacated(a, t, i, n)
    BY <1>1, <1>3, VacateFacts
  <2> QED
    BY <2>1 DEF Vacated
<1>5. a \in Object /\ Len(a.buf) = Len(t.buf) /\ a.size = n /\ \A k \in 1..n : Usable(a, k)
  BY <1>1, <1>4, SlotAssumption DEF SameObject, Usable
<1>6. /\ SameObject(b, a)
      /\ \A k \in 1..Len(t.buf) : b.buf[k] = IF k \in (i + 1)..n THEN Raw ELSE a.buf[k]
  <2>1. \A k \in (i + 1)..n : Usable(a, k)
    BY <1>1, <1>2, <1>5
  <2>2. Destroyed(b, a, i, n)
    BY <1>1, <1>3, <1>5, <2>1, DestroyFacts
  <2> QED
    BY <1>5, <2>2 DEF Destroyed
<1>7. /\ b \in Object /\ Len(b.buf) = Len(t.buf) /\ b.faults = 0
      /\ b.blocks = (IF b.small THEN 0 ELSE 1)
  BY <1>1, <1>4, <1>5, <1>6 DEF SameObject
<1>8. ASSUME NEW k \in 1..Len(b.buf) PROVE Unused(b, k)
  <2>1. k \in 1..Len(t.buf)
    BY <1>7
  <2>2. CASE k \in (i + 1)..n
    BY <1>6, <2>1, <2>2 DEF Unused
  <2>3. CASE k \notin (i + 1)..n
    <3>1. k \in (n + 1)..Len(t.buf)
      BY <1>1, <1>2, <2>1, <2>3
    <3> QED
      BY <1>1, <1>4, <1>6, <2>1, <2>3, <3>1 DEF Unused
  <2> QED
    BY <2>2, <2>3
<1>9. Keeps(Sized(b, i), c)
  <2>1. c \in Seq(Elem) /\ Len(c) = 0
    BY <1>3, EmptySeq
  <2>2. i = Len(c) /\ i <= Len(b.buf)
    BY <1>1, <1>2, <1>7, <2>1
  <2>3. \A k \in 1..i : b.buf[k] = c[k]
    BY <1>2
  <2>4. \A k \in (i + 1)..Len(b.buf) : Unused(b, k)
    BY <1>2, <1>8
  <2> QED
    BY <1>7, <2>1, <2>2, <2>3, <2>4, SizedKeeps
<1>10. Clear(Vacate(t, 0, t.size)) = Sized(b, i)
  BY <1>1, <1>2, <1>3, <1>5 DEF Clear, Sized
<1> QED
  BY <1>3, <1>9, <1>10

\* operator=(&&) from a vector on the heap.
LEMMA TakeOverKeeps ==
  ASSUME NEW s, NEW c, Keeps(s, c), NEW t, NEW d, Keeps(t, d), ~t.small
  PROVE  Keeps(MoveAssign(s, t)[1], d) /\ Keeps(MoveAssign(s, t)[2], <<>>)
<1>1. PICK i : i = 0
  OBVIOUS
<1>2. PICK r : r = Release(Destroy(s, i, s.size))
  OBVIOUS
<1>3. r \in Object /\ r.blocks = 0 /\ r.faults = 0
  BY <1>1, <1>2, FreedFacts
<1>4. t = OnHeap(t.buf, t.size) /\ t \in Object
  BY HeapIs, KeepsFacts
<1>5. PICK x, y : /\ x = [r EXCEPT !.buf = t.buf, !.size = t.size, !.small = FALSE, !.blocks = @ + 1]
                  /\ y = [t EXCEPT !.buf = <<>>, !.size = 0, !.small = TRUE, !.blocks = @ - 1]
  OBVIOUS
<1>6. MoveAssign(s, t) = <<x, y>>
  BY <1>1, <1>2, <1>5 DEF MoveAssign
<1>7. x = t
  <2>1. x = [r EXCEPT !.buf = t.buf, !.size = t.size, !.small = FALSE, !.blocks = 1]
    BY <1>3, <1>5
  <2>2. x = OnHeap(t.buf, t.size)
    BY <1>3, <2>1 DEF Object, OnHeap
  <2> QED
    BY <1>4, <2>2
<1>8. y = InPlace(<<>>, 0)
  <2>1. t.blocks = 1 /\ t.faults = 0
    BY <1>4 DEF OnHeap
  <2>2. y = [t EXCEPT !.buf = <<>>, !.size = 0, !.small = TRUE, !.blocks = 0]
    BY <1>5, <2>1
  <2> QED
    BY <1>4, <2>1, <2>2 DEF Object, InPlace
<1>9. Keeps(y, <<>>)
  <2>1. PICK b : b = <<>>
    OBVIOUS
  <2>2. b \in Seq(Slot) /\ Len(b) = 0 /\ \A k \in 1..Len(b) : b[k] = Raw
    BY <2>1, EmptySeq
  <2>3. Keeps(InPlace(b, 0), <<>>)
    BY <2>2, EmptyInPlace
  <2> QED
    BY <1>8, <2>1, <2>3
<1> QED
  BY <1>6, <1>7, <1>9

\* operator=(&&).
LEMMA MoveAssignKeeps ==
  ASSUME NEW s, NEW c, Keeps(s, c), NEW t, NEW d, Keeps(t, d),
         podLike \/ ~t.small \/ s.size = 0 \/ s.size >= t.size \/ Capacity(s) < t.size
  PROVE  Keeps(MoveAssign(s, t)[1], d) /\ Keeps(MoveAssign(s, t)[2], <<>>)
<1> DEFINE n == Len(c)
           m == Len(d)
<1>1. /\ s \in Object /\ c \in Seq(Elem) /\ n \in Nat /\ s.size = n
      /\ Len(s.buf) \in Nat /\ n <= Len(s.buf)
      /\ s.faults = 0 /\ s.blocks = (IF s.small THEN 0 ELSE 1)
      /\ d \in Seq(Elem) /\ m \in Nat /\ t.size = m
  BY KeepsFacts
<1>2. Contents(t) = d
  BY ContentsFacts
<1>3. PICK i : i = 0
  OBVIOUS
<1>4. PICK emptied : emptied = Clear(Vacate(t, 0, t.size))
  OBVIOUS
<1>5. Keeps(emptied, <<>>)
  BY <1>4, EmptiedKeeps
<1>6. CASE ~t.small
  BY <1>6, TakeOverKeeps
<1>7. CASE t.small /\ s.size >= t.size
  <2>1. m <= n
    BY <1>1, <1>7
  <2>2. Keeps(Sized(Destroy(Assign(s, i, d), m, n), m), d)
    BY <1>1, <1>3, <2>1, ReplaceKeeps
  <2>3. MoveAssign(s, t) = <<Sized(Destroy(Assign(s, i, d), m, n), m), emptied>>
    BY <1>1, <1>2, <1>3, <1>4, <1>7 DEF MoveAssign, Sized
  <2> QED
    BY <1>5, <2>2, <2>3
<1>8. CASE t.small /\ ~(s.size >= t.size)
  <2>1. n < m /\ n <= m
    BY <1>1, <1>8
  <2> DEFINE inPlace == Capacity(s) >= t.size
  <2>3. PICK r : r = IF inPlace THEN (IF s.size > 0 THEN Assign(s, 0, d) ELSE s)
                     ELSE Grow(Clear(s), t.size)
    OBVIOUS
  <2>4. (IF inPlace /\ s.size > 0 THEN Vacate(t, 0, t.size) ELSE t) = t
    <3>1. CASE podLike
      BY <3>1 DEF Vacate
    <3>2. CASE ~podLike
      <4>1. s.size = 0 \/ Capacity(s) < t.size
        BY <1>8, <3>2
      <4>2. ~(inPlace /\ s.size > 0)
        BY <1>1, <4>1 DEF Capacity
      <4> QED
        BY <4>2
    <3> QED
      BY <3>1, <3>2
  <2>5. PICK l \in Nat : l <= m /\ Keeps(r, SubSeq(d, 1, l)) /\ m <= Len(r.buf)
    <3>1. CASE ~inPlace
      <4>1. Keeps(Grow(Clear(s), m), <<>>) /\ Len(Grow(Clear(s), m).buf) >= m
        BY <1>1, ClearedAndGrown
      <4>2. r = Grow(Clear(s), m)
        BY <1>1, <2>3, <3>1
      <4>3. Keeps(r, <<>>) /\ Len(r.buf) >= m
        BY <4>1, <4>2
      <4>4. SubSeq(d, 1, i) = <<>>
        BY <1>1, <1>3, FrontEnds
      <4>5. Len(r.buf) \in Nat
        BY <4>3, KeepsFacts
      <4>6. i \in Nat /\ i <= m /\ m <= Len(r.buf)
        BY <1>1, <1>3, <4>3, <4>5
      <4>7. Keeps(r, SubSeq(d, 1, i))
        BY <4>3, <4>4, Zenon
      <4> QED
        BY <4>6, <4>7
    <3>2. CASE inPlace /\ ~(s.size > 0)
      <4>1. r = s /\ m <= Len(s.buf) /\ n = 0
        BY <1>1, <2>3, <3>2 DEF Capacity
      <4>2. c = <<>>
        BY <1>1, <4>1, EmptySeq
      <4>3. SubSeq(d, 1, i) = <<>>
        BY <1>1, <1>3, FrontEnds
      <4>4. Keeps(r, SubSeq(d, 1, i))
        BY <4>1, <4>2, <4>3, Zenon
      <4>5. i \in Nat /\ i <= m
        BY <1>1, <1>3
      <4> QED
        BY <4>1, <4>4, <4>5
    <3>3. CASE inPlace /\ s.size > 0
      <4>1. podLike
        BY <1>1, <1>8, <3>3 DEF Capacity
      <4>2. r = Assign(s, i, d) /\ m <= Len(s.buf)
        BY <1>1, <1>3, <2>3, <3>3 DEF Capacity
      <4>3. /\ SameObject(r, s)
            /\ \A k \in 1..Len(s.buf) : r.buf[k] = IF k \in 1..m THEN d[k] ELSE s.buf[k]
        <5>1. i + Len(d) <= Len(s.buf) /\ i \in Nat /\ i + 1 = 1 /\ i + Len(d) = m
          BY <1>1, <1>3, <4>2
        <5>2. \A k \in (i + 1)..(i + Len(d)) : Usable(s, k)
          BY <4>1 DEF Usable
        <5>3. d \in Seq(Slot)
          BY <1>1 DEF Slot
        <5>4. Constructed(r, s, i, d)
          BY <1>1, <4>2, <5>1, <5>2, <5>3, AssignFacts
        <5>5. \A k \in 1..m : k - i = k
          BY <1>3
        <5> QED
          BY <5>1, <5>4, <5>5 DEF Constructed
      <4>4. PICK e : e = SubSeq(d, 1, n)
        OBVIOUS
      <4>5. e \in Seq(Elem) /\ Len(e) = n /\ \A k \in 1..n : e[k] = d[k]
        BY <1>1, <2>1, <4>4, FrontFacts
      <4>6. ASSUME NEW k \in 1..n PROVE r.buf[k] = e[k]
        <5>1. k \in 1..Len(s.buf) /\ k \in 1..m
          BY <1>1, <2>1
        <5> QED
          BY <4>3, <4>5, <5>1
      <4>7. /\ r \in Object /\ Len(r.buf) = Len(s.buf) /\ r.size = n /\ r.faults = 0
            /\ r.blocks = (IF r.small THEN 0 ELSE 1)
        BY <1>1, <4>3 DEF SameObject
      <4>8. \A k \in (n + 1)..Len(r.buf) : Unused(r, k)
        BY <4>1 DEF Unused
      <4>9. Keeps(r, e)
        BY <1>1, <4>5, <4>6, <4>7, <4>8 DEF Keeps
      <4> QED
        BY <1>1, <2>1, <4>2, <4>4, <4>7, <4>9
    <3> QED
      BY <3>1, <3>2, <3>3
  <2>6. r.size = l
    <3>1. Len(SubSeq(d, 1, l)) = l
      BY <1>1, <2>5, FrontFacts
    <3> QED
      BY <2>5, <3>1, KeepsFacts
  <2>7. SubSeq(t.buf, l + 1, m) = SubSeq(d, l + 1, m)
    <3>1. m \in Nat /\ l <= m /\ m <= Len(d)
      BY <1>1, <2>5
    <3>2. PartAgrees(t, d, l, m)
      <4> HIDE DEF m
      <4> QED
        BY <3>1, PartOfBuffer
    <3> QED
      BY <3>2 DEF PartAgrees
  <2>8. MoveAssign(s, t) = <<Sized(Construct(r, l, SubSeq(d, l + 1, Len(d))), Len(d)), emptied>>
    <3>1. PICK left : left = IF inPlace /\ s.size > 0 THEN Vacate(t, 0, t.size) ELSE t
      OBVIOUS
    <3>2. MoveAssign(s, t) =
            <<Sized(Construct(r, r.size, SubSeq(left.buf, r.size + 1, t.size)), t.size), emptied>>
      BY <1>2, <1>4, <1>8, <2>3, <3>1 DEF MoveAssign, Sized
    <3>3. left = t
      BY <2>4, <3>1
    <3> QED
      BY <1>1, <2>6, <2>7, <3>2, <3>3
  <2>9. Keeps(Sized(Construct(r, l, SubSeq(d, l + 1, Len(d))), Len(d)), d)
    BY <1>1, <2>5, CompleteKeeps
  <2> QED
    BY <1>5, <2>8, <2>9
<1> QED
  BY <1>6, <1>7, <1>8

\* The last elements of one vector go to the end of another.
LEMMA SpillKeeps ==
  ASSUME NEW a, NEW e, Keeps(a, e), NEW b, NEW f, Keeps(b, f), NEW n, n \in Nat, n <= Len(e),
         Len(f) + (Len(e) - n) <= Len(b.buf)
  PROVE  /\ Keeps(Spill(a, b, n)[1], SubSeq(e, 1, n))
         /\ Keeps(Spill(a, b, n)[2], f \o SubSeq(e, n + 1, Len(e)))
<1>1. /\ e \in Seq(Elem) /\ Len(e) \in Nat /\ a.size = Len(e)
      /\ f \in Seq(Elem) /\ Len(f) \in Nat /\ b.size = Len(f)
  BY KeepsFacts
<1>2. PICK x, y : /\ x = [Destroy(a, n, a.size) EXCEPT !.size = n]
                  /\ y = [Construct(b, b.size, SubSeq(a.buf, n + 1, a.size))
                            EXCEPT !.size = @ + a.size - n]
  OBVIOUS
<1>3. Spill(a, b, n) = <<x, y>>
  BY <1>2 DEF Spill
<1>4. Keeps(x, SubSeq(e, 1, n))
  <2>1. x = Sized(Destroy(a, n, Len(e)), n)
    BY <1>1, <1>2 DEF Sized
  <2>2. Keeps(Sized(Destroy(a, n, Len(e)), n), SubSeq(e, 1, n))
    BY CutKeeps
  <2> QED
    BY <2>1, <2>2
<1>5. PICK xs : xs = SubSeq(e, n + 1, Len(e))
  OBVIOUS
<1>6. xs \in Seq(Elem) /\ Len(xs) = Len(e) - n
  <2>1. Len(e) <= Len(e)
    BY <1>1
  <2> QED
    BY <1>1, <1>5, <2>1, PartFacts
<1>7. SubSeq(a.buf, n + 1, Len(e)) = xs
  <2>1. Len(e) <= Len(e)
    BY <1>1
  <2>2. PartAgrees(a, e, n, Len(e))
    BY <1>1, <2>1, PartOfBuffer
  <2> QED
    BY <1>5, <2>2 DEF PartAgrees
<1>8. PICK q : q = Construct(b, Len(f), xs)
  OBVIOUS
<1>9. q.size = Len(f) /\ Keeps(Sized(q, Len(f) + Len(xs)), f \o xs)
  <2>1. Len(f) + Len(xs) <= Len(b.buf)
    BY <1>6
  <2>2. xs \in Seq(Elem)
    BY <1>6
  <2> QED
    BY <1>8, <2>1, <2>2, ExtendKeeps
<1>10. y = Sized(q, Len(f) + Len(xs))
  <2>1. q.size + a.size - n = Len(f) + Len(xs)
    BY <1>1, <1>6, <1>9
  <2>2. y = [q EXCEPT !.size = @ + a.size - n]
    BY <1>1, <1>2, <1>7, <1>8
  <2> QED
    BY <2>1, <2>2 DEF Sized
<1> QED
  BY <1>3, <1>4, <1>5, <1>9, <1>10

\* Elements exchanged one by one, with those that the longer vector has more.
Exchanged(s, t) ==
  Spill(Assign(Reserve(s, t.size), 0, SubSeq(t.buf, 1, t.size)),
        Assign(Reserve(t, s.size), 0, SubSeq(s.buf, 1, t.size)), t.size)

LEMMA ExchangedKeeps ==
  ASSUME NEW s, NEW c, Keeps(s, c), NEW t, NEW d, Keeps(t, d), Len(d) <= Len(c)
  PROVE  Keeps(Exchanged(s, t)[1], d) /\ Keeps(Exchanged(s, t)[2], c)
<1>1. /\ c \in Seq(Elem) /\ Len(c) \in Nat /\ s.size = Len(c)
      /\ d \in Seq(Elem) /\ Len(d) \in Nat /\ t.size = Len(d)
  BY KeepsFacts
<1>2. PICK i \in Nat : i = 0
  OBVIOUS
<1>3. PICK s1, t1 : s1 = Reserve(s, Len(d)) /\ t1 = Reserve(t, Len(c))
  OBVIOUS
<1>4. Keeps(s1, c)
  BY <1>1, <1>3, ReserveFacts
<1>5. Keeps(t1, d) /\ Len(t1.buf) >= Len(c) /\ Len(t1.buf) \in Nat
  BY <1>1, <1>3, ReserveFacts
<1>6. SubSeq(t.buf, 1, Len(d)) = d
  <2>1. Len(d) <= Len(d)
    BY <1>1
  <2>2. SubSeq(t.buf, 1, Len(d)) = SubSeq(d, 1, Len(d))
    BY <1>1, <2>1, FrontOfBuffer
  <2>3. SubSeq(d, 1, Len(d)) = d
    BY <1>1, <1>2, FrontEnds
  <2> QED
    BY <2>2, <2>3
<1>7. PICK f : f = SubSeq(c, 1, Len(d))
  OBVIOUS
<1>8. f \in Seq(Elem) /\ Len(f) = Len(d)
  BY <1>1, <1>7, FrontFacts
<1>9. SubSeq(s.buf, 1, Len(d)) = f
  BY <1>1, <1>7, FrontOfBuffer
<1>10. PICK a, b : a = Assign(s1, i, d) /\ b = Assign(t1, i, f)
  OBVIOUS
<1>11. PICK e : e = Spliced(c, i, Len(d), d)
  OBVIOUS
<1>12. Keeps(a, e) /\ Len(e) = Len(c)
  <2>1. i + Len(d) <= Len(c) /\ i + Len(d) = Len(d)
    BY <1>1, <1>2
  <2>2. Overlaid(a, s1, c, i, d)
    <3>1. i + Len(d) <= Len(c)
      BY <2>1
    <3> QED
      BY <1>1, <1>4, <1>10, <3>1, OverKeeps
  <2> QED
    BY <1>11, <2>1, <2>2 DEF Overlaid
<1>13. /\ SubSeq(e, 1, Len(d)) = d
       /\ SubSeq(e, Len(d) + 1, Len(e)) = SubSeq(c, Len(d) + 1, Len(c))
  BY <1>1, <1>2, <1>11, FrontReplaced
<1>14. Keeps(b, f) /\ Len(b.buf) = Len(t1.buf)
  BY <1>2, <1>5, <1>8, <1>10, AssignedKeeps
<1>15. Exchanged(s, t) = Spill(a, b, Len(d))
  BY <1>1, <1>2, <1>3, <1>6, <1>9, <1>10 DEF Exchanged
<1>16. PICK n \in Nat : n = Len(d)
  BY <1>1
<1>17. /\ Keeps(Spill(a, b, n)[1], SubSeq(e, 1, n))
       /\ Keeps(Spill(a, b, n)[2], f \o SubSeq(e, n + 1, Len(e)))
  <2>1. n <= Len(e) /\ Len(f) + (Len(e) - n) <= Len(b.buf)
    BY <1>1, <1>5, <1>8, <1>12, <1>14, <1>16
  <2>2. Keeps(a, e) /\ Keeps(b, f)
    BY <1>12, <1>14
  <2> QED
    BY <2>1, <2>2, SpillKeeps
<1>18. f \o SubSeq(c, Len(d) + 1, Len(c)) = c
  BY <1>1, <1>7, FrontAndRest
<1> QED
  BY <1>13, <1>15, <1>16, <1>17, <1>18

\* swap.
LEMMA SwapKeeps ==
  ASSUME NEW s, NEW c, Keeps(s, c), NEW t, NEW d, Keeps(t, d)
  PROVE  Keeps(Swap(s, t)[1], d) /\ Keeps(Swap(s, t)[2], c)
<1>1. /\ Len(c) \in Nat /\ s.size = Len(c) /\ Len(d) \in Nat /\ t.size = Len(d)
  BY KeepsFacts
<1>2. CASE ~s.small /\ ~t.small
  <2>1. s = OnHeap(s.buf, s.size) /\ t = OnHeap(t.buf, t.size) /\ s \in Object /\ t \in Object
    BY <1>2, HeapIs, KeepsFacts
  <2>2. PICK x, y : /\ x = [s EXCEPT !.buf = t.buf, !.size = t.size]
                    /\ y = [t EXCEPT !.buf = s.buf, !.size = s.size]
    OBVIOUS
  <2>3. Swap(s, t) = <<x, y>>
    BY <1>2, <2>2 DEF Swap
  <2>4. /\ s \in Object /\ s.small = FALSE /\ s.blocks = 1 /\ s.faults = 0
        /\ t \in Object /\ t.small = FALSE /\ t.blocks = 1 /\ t.faults = 0
    BY <2>1 DEF OnHeap
  <2>5. x = OnHeap(t.buf, t.size)
    BY <2>2, <2>4 DEF OnHeap, Object
  <2>6. y = OnHeap(s.buf, s.size)
    BY <2>2, <2>4 DEF OnHeap, Object
  <2> QED
    BY <2>1, <2>3, <2>5, <2>6
<1>3. CASE ~(~s.small /\ ~t.small) /\ s.size >= t.size
  <2>1. PICK m : m = IF s.size < t.size THEN s.size ELSE t.size
    OBVIOUS
  <2>2. m = t.size
    BY <1>1, <1>3, <2>1
  <2>3. Swap(s, t) = Spill(Assign(Reserve(s, t.size), 0, SubSeq(t.buf, 1, m)),
                           Assign(Reserve(t, s.size), 0, SubSeq(s.buf, 1, m)), m)
    BY <1>3, <2>1 DEF Swap
  <2>4. Swap(s, t) = Exchanged(s, t)
    BY <2>2, <2>3 DEF Exchanged
  <2>5. Len(d) <= Len(c)
    BY <1>1, <1>3
  <2> QED
    BY <2>4, <2>5, ExchangedKeeps
<1>4. CASE ~(~s.small /\ ~t.small) /\ ~(s.size >= t.size)
  <2>1. PICK m : m = IF s.size < t.size THEN s.size ELSE t.size
    OBVIOUS
  <2>2. m = s.size
    BY <1>1, <1>4, <2>1
  <2>3. PICK both : both = Spill(Assign(Reserve(t, s.size), 0, SubSeq(s.buf, 1, m)),
                                 Assign(Reserve(s, t.size), 0, SubSeq(t.buf, 1, m)), m)
    OBVIOUS
  <2>4. Swap(s, t) = <<both[2], both[1]>>
    BY <1>4, <2>1, <2>3 DEF Swap
  <2>5. both = Exchanged(t, s)
    BY <2>2, <2>3 DEF Exchanged
  <2>6. Len(c) <= Len(d)
    BY <1>1, <1>4
  <2>7. Keeps(both[1], c) /\ Keeps(both[2], d)
    BY <2>5, <2>6, ExchangedKeeps
  <2> QED
    BY <2>4, <2>7
<1> QED
  BY <1>2, <1>3, <1>4

-----------------------------------------------------------------------------
(* SmallVector: the vectors keep their elements.                           *)

\* Every vector has the elements that its users count on.
VectorsRight ==
  /\ vec \in [Vec -> Object] /\ contents \in [Vec -> Seq(Elem)]
  /\ \A v \in Vec : Keeps(vec[v], contents[v])

LEMMA RightKept ==
  ASSUME VectorsRight
  PROVE  VectorsKept
<1> SUFFICES ASSUME NEW v \in Vec
             PROVE  /\ vec[v].size <= Capacity(vec[v]) /\ vec[v].faults = 0
                    /\ \A k \in 1..vec[v].size : vec[v].buf[k] \in Elem
                    /\ podLike \/ \A k \in vec[v].size+1..Capacity(vec[v]) : vec[v].buf[k] = Raw
                    /\ vec[v].blocks = (IF vec[v].small THEN 0 ELSE 1)
                    /\ Contents(vec[v]) = contents[v]
  BY DEF VectorsKept, ConstructedInSize, ContentsKept
<1>1. PICK s, c : s = vec[v] /\ c = contents[v]
  OBVIOUS
<1>2. Keeps(s, c)
  BY <1>1 DEF VectorsRight
<1>3. /\ s.size = Len(c) /\ Len(c) <= Len(s.buf) /\ s.faults = 0
      /\ \A k \in 1..Len(c) : c[k] \in Elem /\ s.buf[k] = c[k]
      /\ \A k \in (Len(c) + 1)..Len(s.buf) : Unused(s, k)
      /\ s.blocks = (IF s.small THEN 0 ELSE 1)
  BY <1>2, KeepsFacts
<1>4. Contents(s) = c
  BY <1>2, ContentsFacts
<1> QED
  BY <1>1, <1>3, <1>4 DEF Capacity, Unused

\* What every vector keeps, all of them keep.
LEMMA EachKept ==
  ASSUME vec' \in [Vec -> Object], contents' \in [Vec -> Seq(Elem)], podLike' = podLike,
         \A u \in Vec : Keeps(vec'[u], contents'[u])
  PROVE  VectorsRight'
  BY DEF VectorsRight, Keeps, Unused

\* One vector changes, or two.
LEMMA OneKept ==
  ASSUME VectorsRight, NEW v \in Vec, NEW s, NEW d, Keeps(s, d),
         vec' = [vec EXCEPT ![v] = s], contents' = [contents EXCEPT ![v] = d],
         podLike' = podLike
  PROVE  VectorsRight'
<1>1. s \in Object /\ d \in Seq(Elem)
  BY KeepsFacts
<1>2. vec' \in [Vec -> Object] /\ contents' \in [Vec -> Seq(Elem)]
  BY <1>1 DEF VectorsRight
<1>3. ASSUME NEW u \in Vec PROVE Keeps(vec'[u], contents'[u])
  <2>1. CASE u = v
    <3>1. vec'[u] = s /\ contents'[u] = d
      BY <2>1 DEF VectorsRight
    <3> QED
      BY <3>1
  <2>2. CASE u # v
    <3>1. vec'[u] = vec[u] /\ contents'[u] = contents[u] /\ Keeps(vec[u], contents[u])
      BY <2>2 DEF VectorsRight
    <3> QED
      BY <3>1
  <2> QED
    BY <2>1, <2>2
<1> QED
  BY <1>2, <1>3, EachKept

LEMMA TwoKept ==
  ASSUME VectorsRight, NEW v \in Vec, NEW w \in Vec, v # w,
         NEW s, NEW d, Keeps(s, d), NEW t, NEW e, Keeps(t, e),
         vec' = [vec EXCEPT ![v] = s, ![w] = t],
         contents' = [contents EXCEPT ![v] = d, ![w] = e],
         podLike' = podLike
  PROVE  VectorsRight'
<1>1. s \in Object /\ d \in Seq(Elem) /\ t \in Object /\ e \in Seq(Elem)
  BY KeepsFacts
<1>2. vec' \in [Vec -> Object] /\ contents' \in [Vec -> Seq(Elem)]
  BY <1>1 DEF VectorsRight
<1>3. ASSUME NEW u \in Vec PROVE Keeps(vec'[u], contents'[u])
  <2>1. CASE u = v
    <3>1. vec'[u] = s /\ contents'[u] = d
      BY <2>1 DEF VectorsRight
    <3> QED
      BY <3>1
  <2>2. CASE u = w
    <3>1. vec'[u] = t /\ contents'[u] = e
      BY <2>2 DEF VectorsRight
    <3> QED
      BY <3>1
  <2>3. CASE u # v /\ u # w
    <3>1. vec'[u] = vec[u] /\ contents'[u] = contents[u] /\ Keeps(vec[u], contents[u])
      BY <2>3 DEF VectorsRight
    <3> QED
      BY <3>1
  <2> QED
    BY <2>1, <2>2, <2>3
<1> QED
  BY <1>2, <1>3, EachKept

\* A call on one vector, for some elements in the place of others.
LEMMA SpliceKept ==
  ASSUME VectorsRight, NEW v \in Vec, NEW c, c = contents[v], NEW s, Becomes(v, s),
         NEW i, NEW j, NEW xs, Splices(v, i, j, xs), Keeps(s, Spliced(c, i, j, xs))
  PROVE  VectorsRight'
<1>1. PICK d : d = Spliced(c, i, j, xs)
  OBVIOUS
<1>2. contents' = [contents EXCEPT ![v] = d] /\ podLike' = podLike
  BY <1>1 DEF Splices, Spliced
<1>3. vec' = [vec EXCEPT ![v] = s] /\ Keeps(s, d)
  BY <1>1 DEF Becomes
<1> QED
  BY <1>2, <1>3, OneKept

\* Elements as an argument.
LEMMA ItemsFacts ==
  ASSUME NEW xs \in Items
  PROVE  xs \in Seq(Elem)
<1>1. CASE xs = <<>>
  BY <1>1, EmptySeq
<1>2. CASE \E x \in Elem : xs = <<x>>
  <2>1. PICK x \in Elem : xs = <<x>>
    BY <1>2
  <2> QED
    BY <2>1
<1>3. CASE \E x, y \in Elem : xs = <<x, y>>
  <2>1. PICK x \in Elem, y \in Elem : xs = <<x, y>>
    BY <1>3
  <2> QED
    BY <2>1
<1>4. xs \in {<<>>} \/ xs \in {<<x>> : x \in Elem} \/ xs \in {<<x, y>> : x, y \in Elem}
  BY DEF Items
<1> QED
  BY <1>1, <1>2, <1>3, <1>4

\* The calls at the end of a vector.
LEMMA EndKept ==
  ASSUME VectorsRight, NEW v \in Vec,
         \/ DoPushBack(v) \/ DoPopBack(v) \/ DoClear(v) \/ DoReserve(v) \/ DoResize(v)
         \/ DoSetSize(v) \/ DoAppend(v) \/ DoAssign(v)
  PROVE  VectorsRight'
<1>1. PICK s, c : s = vec[v] /\ c = contents[v]
  OBVIOUS
<1>2. Keeps(s, c) /\ c \in Seq(Elem) /\ s.size = Len(c) /\ Len(c) \in Nat
  <2>1. Keeps(s, c)
    BY <1>1 DEF VectorsRight
  <2> QED
    BY <2>1, KeepsFacts
<1>3. PICK z \in Nat : z = 0
  OBVIOUS
<1>4. PICK none : none = <<>>
  OBVIOUS
<1>5. none \in Seq(Elem)
  BY <1>4, EmptySeq
<1>6. CASE DoPushBack(v)
  <2>1. PICK x \in Elem : Becomes(v, PushBack(vec[v], x)) /\ Splices(v, vec[v].size, vec[v].size, <<x>>)
    BY <1>6 DEF DoPushBack
  <2>2. PICK r, xs : r = PushBack(s, x) /\ xs = <<x>>
    OBVIOUS
  <2>3. Becomes(v, r) /\ Splices(v, Len(c), Len(c), xs)
    BY <1>1, <1>2, <2>1, <2>2
  <2>4. Keeps(r, Spliced(c, Len(c), Len(c), xs))
    BY <1>2, <2>2, PushBackKeeps
  <2> QED
    BY <1>1, <2>3, <2>4, SpliceKept
<1>7. CASE DoPopBack(v)
  <2>1. PICK r, i, j : r = PopBack(s) /\ i = s.size - 1 /\ j = s.size
    OBVIOUS
  <2>2. s.size > 0 /\ Becomes(v, r) /\ Splices(v, i, j, none)
    BY <1>1, <1>4, <1>7, <2>1 DEF DoPopBack
  <2>3. Keeps(r, Spliced(c, i, j, none))
    BY <1>2, <1>4, <2>1, <2>2, PopBackKeeps
  <2> QED
    BY <1>1, <2>2, <2>3, SpliceKept
<1>8. CASE DoClear(v)
  <2>1. PICK r : r = Clear(s)
    OBVIOUS
  <2>2. Becomes(v, r) /\ Splices(v, z, Len(c), none)
    BY <1>1, <1>2, <1>3, <1>4, <1>8, <2>1 DEF DoClear
  <2>3. Keeps(r, none)
    BY <1>2, <1>4, <2>1, ClearedKeeps
  <2>4. Spliced(c, z, Len(c), none) = none
    BY <1>2, <1>3, <1>5, SplicedAll
  <2>5. Keeps(r, Spliced(c, z, Len(c), none))
    BY <2>3, <2>4
  <2> QED
    BY <1>1, <2>2, <2>5, SpliceKept
<1>9. CASE DoReserve(v)
  <2>1. PICK n \in 0..MaxLen+2 : Becomes(v, Reserve(vec[v], n)) /\ Splices(v, 0, 0, <<>>)
    BY <1>9 DEF DoReserve
  <2>2. PICK r : r = Reserve(s, n)
    OBVIOUS
  <2>3. n \in Nat
    BY InlineAssumption
  <2>4. Keeps(r, c)
    BY <1>2, <2>2, <2>3, ReserveFacts
  <2>5. Becomes(v, r) /\ Splices(v, z, z, none)
    BY <1>1, <1>3, <1>4, <2>1, <2>2
  <2>6. Spliced(c, z, z, none) = c
    <3>1. PICK d : d = Spliced(c, z, z, none)
      OBVIOUS
    <3>2. Len(none) = 0
      BY <1>4
    <3>3. d \in Seq(Elem) /\ IsSpliced(d, c, z, z, none)
      <4>1. z <= z /\ z <= Len(c)
        BY <1>2, <1>3
      <4> QED
        BY <1>2, <1>5, <3>1, <4>1, SplicedFacts
    <3>4. Len(d) = Len(c)
      BY <1>2, <1>3, <3>2, <3>3 DEF IsSpliced
    <3>5. ASSUME NEW k \in 1..Len(d) PROVE d[k] = c[k]
      <4>1. ~(k <= z) /\ ~(k <= z + Len(none)) /\ k - z - Len(none) + z = k
        BY <1>3, <3>2
      <4>2. d[k] = c[k - z - Len(none) + z]
        BY <3>3, <4>1 DEF IsSpliced
      <4> QED
        BY <4>1, <4>2
    <3> QED
      BY <1>2, <3>1, <3>3, <3>4, <3>5, SeqEqual
  <2>7. Keeps(r, Spliced(c, z, z, none))
    BY <2>4, <2>6
  <2> QED
    BY <1>1, <2>5, <2>7, SpliceKept
<1>10. CASE DoResize(v)
  <2>1. PICK n \in 0..MaxLen, x \in Elem :
          /\ Becomes(v, Resize(vec[v], n, x))
          /\ IF n <= vec[v].size THEN Splices(v, n, vec[v].size, <<>>)
             ELSE Splices(v, vec[v].size, vec[v].size, Copies(n - vec[v].size, x))
    BY <1>10 DEF DoResize
  <2>2. n \in Nat
    BY InlineAssumption
  <2>3. PICK r, j, xs : r = Resize(s, n, x) /\ j = s.size /\ xs = Copies(n - s.size, x)
    OBVIOUS
  <2>4. Keeps(r, IF n <= s.size THEN Spliced(c, n, s.size, <<>>)
                 ELSE Spliced(c, s.size, s.size, Copies(n - s.size, x)))
    BY <1>2, <2>2, <2>3, ResizeKeeps
  <2>5. Becomes(v, r)
    BY <1>1, <2>1, <2>3
  <2>6. CASE n <= s.size
    <3>1. Splices(v, n, j, none) /\ Keeps(r, Spliced(c, n, j, none))
      BY <1>1, <1>4, <2>1, <2>3, <2>4, <2>6
    <3> QED
      BY <1>1, <2>5, <3>1, SpliceKept
  <2>7. CASE ~(n <= s.size)
    <3>1. Splices(v, j, j, xs) /\ Keeps(r, Spliced(c, j, j, xs))
      BY <1>1, <2>1, <2>3, <2>4, <2>7
    <3> QED
      BY <1>1, <2>5, <3>1, SpliceKept
  <2> QED
    BY <2>6, <2>7
<1>11. CASE DoSetSize(v)
  <2>1. PICK n \in Positions(v) :
          /\ Becomes(v, [Destroy(vec[v], n, vec[v].size) EXCEPT !.size = n])
          /\ Splices(v, n, vec[v].size, <<>>)
    BY <1>11 DEF DoSetSize
  <2>2. n \in Nat /\ n <= s.size
    BY <1>1, <1>2 DEF Positions
  <2>3. PICK r, j : r = [Destroy(s, n, s.size) EXCEPT !.size = n] /\ j = s.size
    OBVIOUS
  <2>4. Becomes(v, r) /\ Splices(v, n, j, none)
    BY <1>1, <1>4, <2>1, <2>3
  <2>5. Keeps([Destroy(s, n, s.size) EXCEPT !.size = n], Spliced(c, n, s.size, <<>>))
    BY <1>2, <2>2, DropKeeps
  <2>6. Keeps(r, Spliced(c, n, j, none))
    BY <1>4, <2>3, <2>5
  <2> QED
    BY <1>1, <2>4, <2>6, SpliceKept
<1>12. CASE DoAppend(v)
  <2>1. PICK xs \in Fitting : Becomes(v, AppendAll(vec[v], xs))
                              /\ Splices(v, vec[v].size, vec[v].size, xs)
    BY <1>12 DEF DoAppend
  <2>2. xs \in Seq(Elem)
    BY ItemsFacts DEF Fitting
  <2>3. PICK r : r = AppendAll(s, xs)
    OBVIOUS
  <2>4. Becomes(v, r) /\ Splices(v, Len(c), Len(c), xs)
    BY <1>1, <1>2, <2>1, <2>3
  <2>5. Keeps(r, c \o xs)
    BY <1>2, <2>2, <2>3, AppendAllKeeps
  <2>6. Spliced(c, Len(c), Len(c), xs) = c \o xs
    BY <1>2, <2>2, SplicedAtEnd
  <2>7. Keeps(r, Spliced(c, Len(c), Len(c), xs))
    BY <2>5, <2>6
  <2> QED
    BY <1>1, <2>4, <2>7, SpliceKept
<1>13. CASE DoAssign(v)
  <2>1. PICK n \in 0..MaxLen, x \in Elem :
          Becomes(v, Refill(vec[v], n, x)) /\ Splices(v, 0, vec[v].size, Copies(n, x))
    BY <1>13 DEF DoAssign
  <2>2. n \in Nat
    BY InlineAssumption
  <2>3. PICK r, xs : r = Refill(s, n, x) /\ xs = Copies(n, x)
    OBVIOUS
  <2>4. Becomes(v, r) /\ Splices(v, z, Len(c), xs)
    BY <1>1, <1>2, <1>3, <2>1, <2>3
  <2>5. Keeps(r, xs)
    BY <1>2, <2>2, <2>3, RefillKeeps
  <2>6. xs \in Seq(Elem)
    BY <2>2, <2>3, CopiesFacts
  <2>7. Spliced(c, z, Len(c), xs) = xs
    BY <1>2, <1>3, <2>6, SplicedAll
  <2>8. Keeps(r, Spliced(c, z, Len(c), xs))
    BY <2>5, <2>7
  <2> QED
    BY <1>1, <2>4, <2>8, SpliceKept
<1> QED
  BY <1>6, <1>7, <1>8, <1>9, <1>10, <1>11, <1>12, <1>13

\* The calls in the middle of a vector.
LEMMA MiddleKept ==
  ASSUME VectorsRight, NEW v \in Vec, DoErase(v) \/ DoInsert(v) \/ DoInsertRange(v)
  PROVE  VectorsRight'
<1>1. PICK s, c : s = vec[v] /\ c = contents[v]
  OBVIOUS
<1>2. Keeps(s, c) /\ c \in Seq(Elem) /\ s.size = Len(c) /\ Len(c) \in Nat
  <2>1. Keeps(s, c)
    BY <1>1 DEF VectorsRight
  <2> QED
    BY <2>1, KeepsFacts
<1>3. \A n \in Positions(v) : n \in Nat /\ n <= s.size
  BY <1>1, <1>2 DEF Positions
<1>4. CASE DoErase(v)
  <2>1. PICK i \in Positions(v), j \in Positions(v) :
          i <= j /\ Becomes(v, Erase(vec[v], i, j)) /\ Splices(v, i, j, <<>>)
    BY <1>4 DEF DoErase
  <2>2. PICK r, xs : r = Erase(s, i, j) /\ xs = <<>>
    OBVIOUS
  <2>3. Becomes(v, r) /\ Splices(v, i, j, xs)
    BY <1>1, <2>1, <2>2
  <2>4. Keeps(r, Spliced(c, i, j, xs))
    BY <1>2, <1>3, <2>1, <2>2, EraseKeeps
  <2> QED
    BY <1>1, <2>3, <2>4, SpliceKept
<1>5. CASE DoInsert(v)
  <2>1. PICK i \in Positions(v), rvalue \in BOOLEAN,
             elt \in Elem \cup (IF vec[v].size < Capacity(vec[v]) THEN 1..vec[v].size ELSE {}) :
          /\ rvalue /\ ~podLike => elt \in Elem /\ i = vec[v].size
          /\ Becomes(v, Insert(vec[v], i, elt, rvalue))
          /\ Splices(v, i, i, <<IF elt \in Elem THEN elt ELSE vec[v].buf[elt]>>)
    BY <1>5 DEF DoInsert
  <2>2. PICK r, xs : /\ r = Insert(s, i, elt, rvalue)
                     /\ xs = <<IF elt \in Elem THEN elt ELSE s.buf[elt]>>
    OBVIOUS
  <2>3. Becomes(v, r) /\ Splices(v, i, i, xs)
    BY <1>1, <2>1, <2>2
  <2>4. Keeps(r, Spliced(c, i, i, xs))
    <3>1. elt \in Elem \/ (elt \in 1..s.size /\ s.size < Capacity(s))
      BY <1>1
    <3>2. rvalue /\ ~podLike => i = s.size
      BY <1>1, <2>1
    <3> QED
      BY <1>2, <1>3, <2>2, <3>1, <3>2, InsertKeeps
  <2> QED
    BY <1>1, <2>3, <2>4, SpliceKept
<1>6. CASE DoInsertRange(v)
  <2>1. PICK i \in Positions(v), xs \in Fitting :
          Becomes(v, InsertRange(vec[v], i, xs)) /\ Splices(v, i, i, xs)
    BY <1>6 DEF DoInsertRange
  <2>2. xs \in Seq(Elem)
    BY ItemsFacts DEF Fitting
  <2>3. PICK r : r = InsertRange(s, i, xs)
    OBVIOUS
  <2>4. Becomes(v, r)
    BY <1>1, <2>1, <2>3
  <2>5. Keeps(r, Spliced(c, i, i, xs))
    BY <1>2, <1>3, <2>2, <2>3, InsertRangeKeeps
  <2> QED
    BY <1>1, <2>1, <2>4, <2>5, SpliceKept
<1> QED
  BY <1>4, <1>5, <1>6

\* The calls that put all elements of one vector in another, and the renewals.
LEMMA AllKept ==
  ASSUME VectorsRight, NEW v \in Vec, NEW w \in Vec,
         DoRenew(v) \/ DoCopy(v, w) \/ DoMove(v, w) \/ DoSwap(v, w)
  PROVE  VectorsRight'
<1>1. PICK s, c : s = vec[v] /\ c = contents[v]
  OBVIOUS
<1>2. Keeps(s, c) /\ c \in Seq(Elem) /\ s.size = Len(c) /\ Len(c) \in Nat
  <2>1. Keeps(s, c)
    BY <1>1 DEF VectorsRight
  <2> QED
    BY <2>1, KeepsFacts
<1>3. PICK z, none : z = 0 /\ none = <<>>
  OBVIOUS
<1>4. ASSUME NEW u \in Vec, NEW t, t = vec[u], NEW d, d = contents[u]
      PROVE  /\ Keeps(t, d) /\ d \in Seq(Elem) /\ t.size = Len(d) /\ Contents(t) = d
             /\ Spliced(c, z, Len(c), d) = d
  <2>1. Keeps(t, d)
    BY <1>4 DEF VectorsRight
  <2>2. d \in Seq(Elem) /\ t.size = Len(d) /\ Contents(t) = d
    BY <2>1, KeepsFacts, ContentsFacts
  <2>3. Spliced(c, z, Len(c), d) = d
    BY <1>2, <1>3, <2>2, SplicedAll
  <2> QED
    BY <2>1, <2>2, <2>3
<1>5. PICK fresh : fresh = Fresh(s)
  OBVIOUS
<1>6. Keeps(fresh, none)
  <2>1. Keeps(fresh, <<>>)
    BY <1>2, <1>5, FreshKeeps
  <2> QED
    BY <1>3, <2>1
<1>7. ASSUME NEW xs \in Items, Becomes(v, AppendAll(Fresh(vec[v]), xs)),
             Splices(v, 0, vec[v].size, xs)
      PROVE  VectorsRight'
  <2>1. xs \in Seq(Elem)
    BY ItemsFacts
  <2>2. PICK r : r = AppendAll(fresh, xs)
    OBVIOUS
  <2>3. Keeps(r, none \o xs)
    BY <1>6, <2>1, <2>2, AppendAllKeeps
  <2>4. none \o xs = xs
    BY <1>3, <2>1, ConcatEmptySeq
  <2>5. Spliced(c, z, Len(c), xs) = xs
    BY <1>2, <1>3, <2>1, SplicedAll
  <2>6. Becomes(v, r) /\ Splices(v, z, Len(c), xs)
    BY <1>1, <1>2, <1>3, <1>5, <1>7, <2>2
  <2>7. Keeps(r, Spliced(c, z, Len(c), xs))
    BY <2>3, <2>4, <2>5
  <2> QED
    BY <1>1, <2>6, <2>7, SpliceKept
<1>8. ASSUME NEW u \in Vec,
             Becomes(v, IF vec[u].size = 0 THEN Fresh(vec[v]) ELSE CopyAssign(Fresh(vec[v]), vec[u])),
             Splices(v, 0, vec[v].size, Contents(vec[u]))
      PROVE  VectorsRight'
  <2>1. PICK t, d : t = vec[u] /\ d = contents[u]
    OBVIOUS
  <2>2. /\ Keeps(t, d) /\ d \in Seq(Elem) /\ t.size = Len(d) /\ Contents(t) = d
        /\ Spliced(c, z, Len(c), d) = d
    BY <1>4, <2>1
  <2>3. PICK r : r = IF t.size = 0 THEN fresh ELSE CopyAssign(fresh, t)
    OBVIOUS
  <2>4. Keeps(r, d)
    <3>1. CASE t.size = 0
      <4>1. d = none
        BY <1>3, <2>2, <3>1, EmptySeq
      <4> QED
        BY <1>6, <2>3, <3>1, <4>1
    <3>2. CASE t.size # 0
      <4>1. Keeps(CopyAssign(fresh, t), d)
        BY <1>6, <2>2, CopyAssignKeeps
      <4> QED
        BY <2>3, <3>2, <4>1
    <3> QED
      BY <3>1, <3>2
  <2>5. Becomes(v, r) /\ Splices(v, z, Len(c), d)
    BY <1>1, <1>2, <1>3, <1>5, <1>8, <2>1, <2>2, <2>3
  <2>6. Keeps(r, Spliced(c, z, Len(c), d))
    BY <2>2, <2>4
  <2> QED
    BY <1>1, <2>5, <2>6, SpliceKept
<1>9. CASE DoRenew(v)
  BY <1>7, <1>8, <1>9 DEF DoRenew
<1>10. PICK t, d : t = vec[w] /\ d = contents[w]
  OBVIOUS
<1>11. /\ Keeps(t, d) /\ d \in Seq(Elem) /\ t.size = Len(d) /\ Contents(t) = d
       /\ Spliced(c, z, Len(c), d) = d
  BY <1>4, <1>10
<1>12. CASE DoCopy(v, w)
  <2>1. PICK r : r = CopyAssign(s, t)
    OBVIOUS
  <2>2. Becomes(v, r) /\ Splices(v, z, Len(c), d)
    BY <1>1, <1>2, <1>3, <1>10, <1>11, <1>12, <2>1 DEF DoCopy
  <2>3. Keeps(r, d)
    BY <1>2, <1>11, <2>1, CopyAssignKeeps
  <2>4. Keeps(r, Spliced(c, z, Len(c), d))
    BY <1>11, <2>3
  <2> QED
    BY <1>1, <2>2, <2>4, SpliceKept
<1>13. CASE DoMove(v, w)
  <2>1. PICK x, y : x = MoveAssign(s, t)[1] /\ y = MoveAssign(s, t)[2]
    OBVIOUS
  <2>2. podLike \/ ~t.small \/ s.size = 0 \/ s.size >= t.size \/ Capacity(s) < t.size
    BY <1>1, <1>10, <1>13 DEF DoMove
  <2>3. Keeps(x, d) /\ Keeps(y, none)
    <3>1. Keeps(MoveAssign(s, t)[1], d) /\ Keeps(MoveAssign(s, t)[2], <<>>)
      BY <1>2, <1>11, <2>2, MoveAssignKeeps
    <3> QED
      BY <1>3, <2>1, <3>1
  <2>4. /\ v # w /\ vec' = [vec EXCEPT ![v] = x, ![w] = y]
        /\ contents' = [contents EXCEPT ![v] = d, ![w] = none] /\ podLike' = podLike
    BY <1>1, <1>3, <1>10, <1>13, <2>1 DEF DoMove, Hands
  <2> QED
    BY <2>3, <2>4, TwoKept
<1>14. CASE DoSwap(v, w)
  <2>1. PICK x, y : x = Swap(s, t)[1] /\ y = Swap(s, t)[2]
    OBVIOUS
  <2>2. Keeps(x, d) /\ Keeps(y, c)
    BY <1>2, <1>11, <2>1, SwapKeeps
  <2>3. /\ v # w /\ vec' = [vec EXCEPT ![v] = x, ![w] = y]
        /\ contents' = [contents EXCEPT ![v] = d, ![w] = c] /\ podLike' = podLike
    BY <1>1, <1>10, <1>14, <2>1 DEF DoSwap, Hands
  <2> QED
    BY <2>2, <2>3, TwoKept
<1> QED
  BY <1>9, <1>12, <1>13, <1>14

\* The vectors begin without elements.
LEMMA VectorInitRight ==
  ASSUME VectorInit
  PROVE  VectorsRight
<1>1. PICK b, s, c : /\ b = Blank(Inline) /\ c = <<>>
                     /\ s = [buf |-> b, size |-> 0, small |-> TRUE, blocks |-> 0, faults |-> 0]
  OBVIOUS
<1>2. b \in Seq(Slot) /\ \A k \in 1..Len(b) : b[k] = Raw
  <2>1. b \in [1..Inline -> Slot]
    BY <1>1 DEF Blank, Slot
  <2>2. b \in Seq(Slot) /\ Len(b) = Inline
    BY <2>1, InlineAssumption, LenProperties DEF Seq
  <2> QED
    BY <1>1, <2>2 DEF Blank
<1>3. Keeps(s, c)
  <2>1. Keeps(InPlace(b, 0), <<>>)
    BY <1>2, EmptyInPlace
  <2> QED
    BY <1>1, <2>1 DEF InPlace
<1>4. s \in Object /\ c \in Seq(Elem)
  BY <1>3, KeepsFacts
<1>5. vec = [v \in Vec |-> s] /\ contents = [v \in Vec |-> c]
  BY <1>1 DEF VectorInit
<1> QED
  BY <1>3, <1>4, <1>5 DEF VectorsRight

\* In whatever order the vectors are used: every slot below the size has an
\* element that was not moved away, no other slot of a class has one, every
\* element was constructed and destroyed once, every heap block has one owner,
\* and each call leaves the elements that its users count on.
THEOREM VectorsAlwaysKept == VectorSpec => []VectorsKept
<1>1. VectorInit => VectorsRight
  BY VectorInitRight
<1>2. VectorsRight /\ [VectorNext]_vectorVars => VectorsRight'
  <2> SUFFICES ASSUME VectorsRight, [VectorNext]_vectorVars PROVE VectorsRight'
    OBVIOUS
  <2>1. CASE UNCHANGED vectorVars
    BY <2>1 DEF vectorVars, VectorsRight, Keeps, Unused
  <2>2. CASE VectorNext
    <3>1. ASSUME NEW v \in Vec,
                 \/ DoPushBack(v) \/ DoPopBack(v) \/ DoClear(v) \/ DoReserve(v)
                 \/ DoResize(v) \/ DoSetSize(v) \/ DoAppend(v) \/ DoAssign(v)
                 \/ DoErase(v) \/ DoInsert(v) \/ DoInsertRange(v) \/ DoRenew(v)
          PROVE  VectorsRight'
      BY <3>1, EndKept, MiddleKept, AllKept
    <3>2. ASSUME NEW v \in Vec, NEW w \in Vec, DoCopy(v, w) \/ DoMove(v, w) \/ DoSwap(v, w)
          PROVE  VectorsRight'
      BY <3>2, AllKept
    <3> QED
      BY <2>2, <3>1, <3>2 DEF VectorNext
  <2> QED
    BY <2>1, <2>2
<1>3. VectorsRight => VectorsKept
  BY RightKept
<1> QED
  BY <1>1, <1>2, <1>3, PTL DEF VectorSpec
================================================================================

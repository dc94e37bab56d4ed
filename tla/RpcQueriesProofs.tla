--------------------------- MODULE RpcQueriesProofs ---------------------------
(***************************************************************************)
(* Proofs about RpcQueries, for all values of the constants: what an       *)
(* answer says of blocks and transactions, what the pages of getblocks     *)
(* cover, which unspent outputs are listed, and that a balance is the      *)
(* value of what is unspent.  What a query has collected in several steps  *)
(* is compared with a chain that has only grown since it began (Begun),    *)
(* unless the query is disturbed.                                          *)
(***************************************************************************)
EXTENDS RpcQueries, ChainIndexProofs, FiniteSetTheorems

USE DEF Null, NoIndex

LEMMA Unscanned == NoRescans
  BY RpcAssumption DEF NoRescans

-----------------------------------------------------------------------------
(* The import loop, as the queries see it.                                 *)

\* Whatever a query does, the import loop takes a step of its own or none.
LEMMA LoopSteps == RpcNext => [Next]_vars
<1>1. BlockWritten \/ Commits \/ BlockLeaves \/ BlockProcessed \/ BlockRejoins => Next
  BY DEF BlockWritten, Commits, BlockLeaves, BlockProcessed, BlockRejoins, Next, Main, Commit
<1>2. Stops => Next
  BY DEF Stops, AskEmpty, LockFree, Crash, Next
<1>3. LoopGoesOn => Next
  BY DEF LoopGoesOn, Next, Main, Commit
<1>4. LiveListed \/ LiveCleared \/ Rpc => UNCHANGED vars
  BY DEF LiveListed, LiveCleared, Rpc, Ask, AskBlock, AskIndex, AskHeight, AskHash, AskTx,
    AskPages, AskAddress, Returns, FindBlock, LoadBlock, LoadLinks, ConvertLink, Converted,
    GetPage, Scan, NotPromised, AddLive, ConfirmOperation, Confirmed, CollectOutputs, AddPending,
    Steps
<1> QED
  BY <1>1, <1>2, <1>3, <1>4 DEF RpcNext

\* A reorganisation is under way.
ReplacesOK == pc \in {"walk", "undo"} \/ toAppend # <<>> => Reorganises

\* No block is built on the tip, until the tip is replaced.
Tipped == pc \in {"idle", "process", "walk"} \/ (pc = "redo" /\ ~blockInfo.longestChain)
TipIsLeaf == \A h \in 1..Len(dbBlocks) : file[h].previous # TipOf(currentChain)
TipChildless == Tipped => TipIsLeaf

\* What is known of the chain and the tree at all times.
LoopInv == Inv /\ RecordsOK /\ TipsOK /\ FlagsOK /\ ReplacesOK /\ TipChildless

LEMMA ReplacesNext ==
  ASSUME Inv, Inv', ReplacesOK, [Next]_vars
  PROVE  ReplacesOK'
<1> SUFFICES ASSUME pc' \in {"walk", "undo"} \/ toAppend' # <<>> PROVE Reorganises'
  BY DEF ReplacesOK
<1>1. pc' \in {"walk", "undo", "redo"}
  BY DEF Inv, ReorganiseOK, InCommit
<1>2. CASE BeginCommit
  BY <1>2 DEF BeginCommit, importVars, tipVars, Reorganises, Inv, ReorganiseOK, InCommit
<1>3. CASE UNCHANGED <<blockInfo, longestBlock>> /\ (pc \in {"walk", "undo"} \/ toAppend # <<>>)
  BY <1>3 DEF ReplacesOK, Reorganises
<1>4. CASE WalkBack \/ WalkEnds \/ UndoBlock \/ UndoEnds
  BY <1>3, <1>4 DEF WalkBack, WalkEnds, UndoBlock, UndoEnds, importVars, tipVars
<1>5. CASE RedoBlock
  BY <1>3, <1>5 DEF RedoBlock, importVars, tipVars
<1>6. CASE BlockArrives \/ UNCHANGED vars
  BY <1>3, <1>6 DEF BlockArrives, vars, importVars, tipVars, walkVars
<1>7. CASE Crash \/ Start \/ Restore \/ RestoreFails \/ Finish \/ ReadFails \/ SkipBlock
           \/ ReadExistingBlock \/ ReadBlock
  BY <1>1, <1>7 DEF Crash, Down, Start, Restore, RestoreBlock, SizeChain, RebuildChain,
    RestorePosition, RestoreFails, Finish, ReadFails, SkipBlock, ReadExistingBlock, ReadBlock
<1> QED
  BY <1>2, <1>4, <1>5, <1>6, <1>7 DEF Next, Main, Commit

\* The first of the heaviest blocks has no child.
TipIsHeaviest == TipIs(TipOf(currentChain), Len(dbBlocks))
LEMMA HeaviestIsLeaf == Inv /\ TipIsHeaviest => TipIsLeaf
<1> DEFINE t == TipOf(currentChain)
<1> SUFFICES ASSUME Inv, TipIs(t, Len(dbBlocks)), NEW h \in 1..Len(dbBlocks),
                    file[h].previous = t
             PROVE  FALSE
  BY DEF TipIsHeaviest, TipIsLeaf
<1> HIDE DEF t
<1>1. Len(dbBlocks) \in Nat /\ Len(dbBlocks) <= Len(file) /\ Len(file) \in Nat
  BY TipLengths
<1>2. h \in 1..Len(file) /\ t \in 0..Len(file) /\ file[h].bits \in Nat \ {0}
  BY <1>1, Ancestry DEF Inv, TipIs
<1>3. t \in 1..Len(dbBlocks) /\ FirstHeaviest(t, Len(dbBlocks))
  BY <1>1 DEF TipIs
<1>4. Work[h] \in Nat /\ Work[t] \in Nat /\ Work[h] = Work[t] + file[h].bits
  BY <1>1, <1>2, WorkTypes, RecursionsHold DEF Inv, Recursions
<1>5. Work[h] < Work[t] \/ Work[h] <= Work[t]
  BY <1>3 DEF FirstHeaviest
<1> QED
  BY <1>2, <1>4, <1>5

LEMMA ChildlessFinish ==
  ASSUME Inv, Inv', RecordsOK, TipsOK, TipsOK', TipChildless, Finish
  PROVE  TipChildless'
<1> DEFINE n == Len(dbBlocks)
<1>1. /\ n \in Nat /\ hash = n + 1 /\ hash \in 1..Len(file) /\ Len(dbBlocks') = n + 1
      /\ Importing /\ file' = file
  BY FinishEffect
<1>2. \A h \in 1..Len(file) : file[h].previous < h /\ file[h].previous \in Nat
  BY Ancestry DEF Inv
<1>3. Len(file) \in Nat /\ hash <= Len(file)
  BY <1>1, Ancestry DEF Inv
<1>4. CASE blockInfo.longestChain
  <2>1. TipOf(currentChain') = hash
    <3>1. /\ Len(currentChain) \in Nat /\ Len(currentChain') = Len(currentChain) + 1
          /\ currentChain'[Len(currentChain) + 1] = hash
      BY <1>4, FinishChain
    <3>2. currentChain' # <<>>
      BY <3>1
    <3> QED
      BY <3>1, <3>2 DEF TipOf
  <2>2. \A h \in 1..(n + 1) : h \in 1..Len(file) /\ file[h].previous # hash
    BY <1>1, <1>2, <1>3
  <2> QED
    BY <1>1, <2>1, <2>2 DEF TipChildless, TipIsLeaf
<1>5. CASE ~blockInfo.longestChain
  <2>1. currentChain' = currentChain /\ pc = "redo"
    BY <1>5 DEF Finish
  <2>2. \A h \in 1..n : file[h].previous # TipOf(currentChain)
    BY <1>5, <2>1 DEF TipChildless, TipIsLeaf, Tipped
  <2>3. Work[hash] \in Nat /\ totalBits \in Nat /\ Work[hash] <= totalBits
    <3>1. Work[hash] \in Nat /\ totalBits \in Nat
      <4>1. hash \in 0..Len(file)
        BY <1>1, <1>3
      <4> QED
        BY <4>1, WorkTypes DEF Inv, TypeOK
    <3>2. blockInfo.totalBits = Work[hash] /\ ~(blockInfo.totalBits > totalBits)
      BY <1>1, <1>5 DEF RecordsOK, TipsOK
    <3> QED
      BY <3>1, <3>2
  <2>4. longestBlock = TipOf(currentChain)
    <3>1. longestBlock \in {Null, TipOf(currentChain)}
      BY <1>5, <2>1 DEF Inv, ChainOK
    <3>2. longestBlock # Null
      <4> SUFFICES ASSUME longestBlock = Null PROVE FALSE
        OBVIOUS
      <4>1. totalBits = 0
        BY RecursionsHold DEF TipsOK, Inv, Recursions
      <4>2. Work[hash] > 0
        BY <1>1, WorkTypes DEF Inv
      <4> QED
        BY <2>3, <4>1, <4>2
    <3> QED
      BY <3>1, <3>2
  <2>5. file[hash].previous # longestBlock
    <3> SUFFICES ASSUME file[hash].previous = longestBlock PROVE FALSE
      OBVIOUS
    <3>1. Work[hash] = totalBits + file[hash].bits /\ file[hash].bits \in Nat \ {0}
      BY <1>1, RecursionsHold, Ancestry DEF Inv, Recursions, TipsOK
    <3> QED
      BY <2>3, <3>1
  <2>6. \A h \in 1..(n + 1) : h \in 1..n \/ h = hash
    BY <1>1
  <2> QED
    BY <1>1, <2>1, <2>2, <2>4, <2>5, <2>6 DEF TipChildless, TipIsLeaf
<1> QED
  BY <1>4, <1>5

LEMMA ChildlessNext ==
  ASSUME NoRescans, Inv, Inv', RecordsOK, TipsOK, TipsOK', TipChildless, [Next]_vars
  PROVE  TipChildless'
<1>1. Quiet \/ Down \/ RestoreBlock \/ ReadBlock \/ Finish
  BY StepCases
<1>2. CASE Tipped /\ dbBlocks' = dbBlocks /\ currentChain' = currentChain
           /\ (file' = file \/ BlockArrives)
  <2>1. \A h \in 1..Len(dbBlocks) : h \in 1..Len(file)
    BY TipLengths
  <2>2. \A h \in 1..Len(file) : file'[h] = file[h]
    BY <1>2, HistoryKept DEF Inv
  <2> QED
    BY <1>2, <2>1, <2>2 DEF TipChildless, TipIsLeaf
<1>3. CASE Down \/ RestoreBlock
  BY <1>3 DEF Down, RestoreBlock, TipChildless, Tipped
<1>4. CASE ReadBlock
  BY <1>2, <1>4 DEF ReadBlock, Tipped, dbVars
<1>5. CASE Start \/ SizeChain \/ RebuildChain
  BY <1>5 DEF Start, SizeChain, RebuildChain, TipChildless, Tipped
<1>6. CASE RestorePosition
  <2>1. pc' = "idle" /\ longestBlock' = Null
    BY <1>6 DEF RestorePosition, tipVars, Inv, ChainOK
  <2>2. TipIsHeaviest'
    BY <2>1 DEF TipsOK, LockFree, TipIsHeaviest
  <2>3. TipIsLeaf'
    BY <2>2, HeaviestIsLeaf, PTL
  <2> QED
    BY <2>3 DEF TipChildless, TipIsLeaf
<1>7. CASE BeginCommit
  BY <1>2, <1>7 DEF BeginCommit, Tipped, dbVars
<1>8. CASE WalkBack
  BY <1>2, <1>8 DEF WalkBack, Tipped, dbVars
<1>9. CASE WalkEnds \/ UndoBlock
  BY <1>9 DEF WalkEnds, UndoBlock, TipChildless, Tipped
<1>10. CASE UndoEnds \/ RedoBlock
  <2>1. blockInfo.longestChain
    BY <1>10 DEF UndoEnds, RedoBlock, Inv, ReorganiseOK
  <2> QED
    BY <1>10, <2>1 DEF UndoEnds, RedoBlock, importVars, TipChildless, Tipped
<1>11. CASE BlockArrives \/ UNCHANGED vars
  <2>1. UNCHANGED <<dbBlocks, currentChain, pc, blockInfo>> /\ (file' = file \/ BlockArrives)
    BY <1>11 DEF BlockArrives, vars, dbVars, memVars, importVars
  <2>2. Tipped' <=> Tipped
    BY <2>1 DEF Tipped
  <2> QED
    BY <1>2, <2>1, <2>2 DEF TipChildless, TipIsLeaf
<1> QED
  BY <1>1, <1>3, <1>4, <1>5, <1>6, <1>7, <1>8, <1>9, <1>10, <1>11, ChildlessFinish
     DEF Quiet, InnerCommit

LEMMA LoopAlways == RpcSpec => []LoopInv
<1>1. RpcInit => LoopInv
  <2> SUFFICES ASSUME Init PROVE LoopInv
    BY DEF RpcInit
  <2>1. Inv /\ RecordsOK /\ FlagsOK
    BY InvInit, RecordsInit, FlagsInit
  <2>2. TipsOK
    BY <2>1, TipsInit
  <2>3. ReplacesOK /\ TipChildless
    BY DEF Init, ReplacesOK, TipChildless, TipIsLeaf
  <2> QED
    BY <2>1, <2>2, <2>3 DEF LoopInv
<1>2. LoopInv /\ [Next]_vars => LoopInv'
  <2> SUFFICES ASSUME LoopInv, [Next]_vars PROVE LoopInv'
    OBVIOUS
  <2> USE Unscanned DEF LoopInv
  <2>1. Inv'
    BY InvNext
  <2>2. RecordsOK' /\ FlagsOK' /\ ReplacesOK'
    BY <2>1, RecordsNext, FlagsNext, ReplacesNext
  <2>3. TipsOK'
    BY <2>1, <2>2, TipsNext
  <2> QED
    BY <2>1, <2>2, <2>3, ChildlessNext
<1>3. UNCHANGED allVars => UNCHANGED vars
  BY DEF allVars
<1> QED
  BY <1>1, <1>2, <1>3, LoopSteps, PTL DEF RpcSpec

-----------------------------------------------------------------------------
(* The chain whose outputs are in the index.                               *)

DbHeaviest == TipIs(TipOf(dbChain), Len(dbBlocks)) /\ dbChain = Path[TipOf(dbChain)]

\* Up to the first block after a restart it is the chain of the first of the
\* heaviest blocks, which a restore comes to again.
FollowsHeaviest == starts = 0 \/ (starts = 1 /\ pc # "down" /\ longestBlock = Null)
IndexOK ==
  /\ FollowsHeaviest => DbHeaviest
  /\ starts < 2 /\ LockFree => dbChain = currentChain

\* The main chain between two blocks, until one is followed that may not be the
\* heaviest.
ChainHeaviest ==
  TipIs(TipOf(currentChain), Len(dbBlocks)) /\ currentChain = Path[TipOf(currentChain)]
BetweenBlocks == pc = "idle" /\ (starts = 0 \/ longestBlock = Null)
LEMMA IdleHeaviest == Inv /\ TipsOK /\ BetweenBlocks => ChainHeaviest
<1> SUFFICES ASSUME Inv, TipsOK, pc = "idle", starts = 0 \/ longestBlock = Null
             PROVE  ChainHeaviest
  BY DEF BetweenBlocks
<1>1. PathAbove(currentChain, 0, Null) /\ longestBlock \in {Null, TipOf(currentChain)}
  BY Zenon DEF Inv, ChainOK
<1>2. TipIs(TipOf(currentChain), Len(dbBlocks))
  BY <1>1 DEF TipsOK, Running, LockFree
<1> QED
  BY <1>1, <1>2, ChainIsPath DEF ChainHeaviest

\* Only a commit changes the records and the index.
LEMMA IndexKept ==
  ASSUME RpcNext, ~Commits
  PROVE  /\ UNCHANGED <<dbChain, utxo, missed, dbBlocks>> /\ (file' = file \/ BlockArrives)
         /\ \/ UNCHANGED <<starts, longestBlock>>
            \/ Stops /\ starts' = starts /\ pc' = "down"
            \/ Start
<1> USE DEF rpcVars, historyVars, dbVars, tipVars
<1>1. CASE BlockWritten
  BY <1>1 DEF BlockWritten, BlockArrives
<1>2. CASE BlockLeaves
  BY <1>2 DEF BlockLeaves, UndoBlock
<1>3. CASE Stops
  BY <1>3 DEF Stops, Crash, AskEmpty, Down
<1>4. CASE LoopGoesOn
  <2>1. UNCHANGED <<dbChain, utxo, missed>>
    BY <1>4 DEF LoopGoesOn
  <2>2. CASE Start
    BY <2>1, <2>2 DEF Start
  <2>3. CASE Restore
    BY <2>1, <2>3 DEF Restore, RestoreBlock, SizeChain, RebuildChain, RestorePosition
  <2>4. CASE ReadFails
    BY <2>1, <2>4 DEF ReadFails
  <2>5. CASE BeginCommit \/ WalkBack \/ WalkEnds \/ UndoEnds
    BY <2>1, <2>5 DEF BeginCommit, WalkBack, WalkEnds, UndoEnds
  <2> QED
    BY <1>4, <2>2, <2>3, <2>4, <2>5 DEF LoopGoesOn
<1>5. CASE LiveListed \/ LiveCleared
  BY <1>5 DEF LiveListed, LiveCleared, vars
<1>6. CASE Rpc
  BY <1>6 DEF Rpc, Ask, AskBlock, AskIndex, AskHeight, AskHash, AskTx, AskPages, AskAddress,
    Returns, FindBlock, LoadBlock, LoadLinks, ConvertLink, Converted, GetPage, Scan, NotPromised,
    AddLive, ConfirmOperation, Confirmed, CollectOutputs, AddPending, Steps, vars
<1>7. CASE BlockProcessed \/ BlockRejoins
  BY <1>7 DEF BlockProcessed, ReadBlock, BlockRejoins, RedoBlock
<1> QED
  BY <1>1, <1>2, <1>3, <1>4, <1>5, <1>6, <1>7 DEF RpcNext

\* The lock is free after these steps only: the chain is what it was before, or
\* the restore has found it.
LEMMA LockKept ==
  ASSUME RpcNext, ~Commits, LockFree'
  PROVE  RestorePosition \/ (LockFree /\ currentChain' = currentChain)
<1> USE DEF LockFree, memVars
<1>1. CASE BlockWritten
  BY <1>1 DEF BlockWritten, BlockArrives
<1>2. CASE BlockLeaves
  BY <1>2 DEF BlockLeaves, UndoBlock
<1>3. CASE Stops
  BY <1>3 DEF Stops, Crash, AskEmpty, Down
<1>4. CASE LoopGoesOn
  <2>1. CASE Start
    BY <2>1 DEF Start
  <2>2. CASE Restore
    BY <2>2 DEF Restore, RestoreBlock, SizeChain, RebuildChain
  <2>3. CASE ReadFails
    BY <2>3 DEF ReadFails
  <2>4. CASE BeginCommit \/ WalkBack \/ WalkEnds \/ UndoEnds
    BY <2>4 DEF BeginCommit, WalkBack, WalkEnds, UndoEnds
  <2> QED
    BY <1>4, <2>1, <2>2, <2>3, <2>4 DEF LoopGoesOn
<1>5. CASE LiveListed \/ LiveCleared
  BY <1>5 DEF LiveListed, LiveCleared, vars
<1>6. CASE Rpc
  BY <1>6 DEF Rpc, Ask, AskBlock, AskIndex, AskHeight, AskHash, AskTx, AskPages, AskAddress,
    Returns, FindBlock, LoadBlock, LoadLinks, ConvertLink, Converted, GetPage, Scan, NotPromised,
    AddLive, ConfirmOperation, Confirmed, CollectOutputs, AddPending, Steps, vars
<1>7. CASE BlockProcessed \/ BlockRejoins
  BY <1>7 DEF BlockProcessed, ReadBlock, BlockRejoins, RedoBlock
<1> QED
  BY <1>1, <1>2, <1>3, <1>4, <1>5, <1>6, <1>7 DEF RpcNext

LEMMA IndexNext ==
  ASSUME LoopInv, LoopInv', IndexOK, RpcNext
  PROVE  IndexOK'
<1> USE DEF LoopInv
<1>1. starts \in Nat
  BY ConstantsAssumption DEF Inv, TypeOK
<1>2. CASE Commits
  <2>1. dbChain' = currentChain' /\ pc' = "idle"
    BY <1>2 DEF Commits, Finish
  <2>2. FollowsHeaviest' => ChainHeaviest'
    <3>1. FollowsHeaviest' => BetweenBlocks'
      BY <2>1 DEF FollowsHeaviest, BetweenBlocks
    <3> QED
      BY <3>1, IdleHeaviest, PTL
  <2> QED
    BY <2>1, <2>2 DEF IndexOK, ChainHeaviest, DbHeaviest
<1>3. CASE ~Commits
  <2>1. /\ UNCHANGED <<dbChain, dbBlocks>> /\ (file' = file \/ BlockArrives)
        /\ \/ UNCHANGED <<starts, longestBlock>>
           \/ Stops /\ starts' = starts /\ pc' = "down"
           \/ Start
    BY <1>3, IndexKept
  <2>2. ASSUME FollowsHeaviest' PROVE FollowsHeaviest
    <3>1. CASE UNCHANGED <<starts, longestBlock>> /\ pc = "down"
      <4>1. starts = 1 => Start
        <5>1. CASE starts = 0
          BY <5>1
        <5>2. CASE pc' = "down"
          BY <2>2, <3>1, <5>2 DEF FollowsHeaviest
        <5>3. CASE pc' # "down"
          <6>1. [Next]_vars
            BY LoopSteps
          <6> QED
            BY <3>1, <5>3, <6>1 DEF Next, BlockArrives, Crash, Down, Main, Restore,
              RestoreFails, RestoreBlock, SizeChain, RebuildChain, RestorePosition, Commit, BeginCommit, WalkBack,
              WalkEnds, UndoBlock, UndoEnds, RedoBlock, Finish, ReadFails, SkipBlock,
              ReadExistingBlock, ReadBlock, vars
        <5> QED
          BY <5>1, <5>2, <5>3
      <4>2. Start => starts' = starts + 1
        BY DEF Start
      <4> QED
        BY <1>1, <2>2, <3>1, <4>1, <4>2 DEF FollowsHeaviest
    <3>2. CASE UNCHANGED <<starts, longestBlock>> /\ pc # "down"
      BY <2>2, <3>2 DEF FollowsHeaviest
    <3>3. CASE starts' = starts /\ pc' = "down"
      BY <2>2, <3>3 DEF FollowsHeaviest
    <3>4. CASE Start
      BY <1>1, <2>2, <3>4 DEF FollowsHeaviest, Start
    <3> QED
      BY <2>1, <3>1, <3>2, <3>3, <3>4
  <2>3. DbHeaviest => DbHeaviest'
    <3> SUFFICES ASSUME DbHeaviest PROVE DbHeaviest'
      OBVIOUS
    <3> DEFINE t == TipOf(dbChain)
    <3>1. Len(dbBlocks) \in Nat /\ Len(dbBlocks) <= Len(file) /\ Len(file) \in Nat
      BY TipLengths
    <3>2. t \in 0..Len(file)
      BY <3>1 DEF DbHeaviest, TipIs
    <3>3. Path'[t] = Path[t]
      BY <2>1, <3>2, HistoryKept DEF Inv
    <3>4. PICK n, h : n = Len(dbBlocks) /\ h = t
      OBVIOUS
    <3>5. TipIs(h, n)'
      BY <2>1, <3>1, <3>4, TipIsKept DEF Inv, DbHeaviest
    <3> QED
      BY <2>1, <3>3, <3>4, <3>5 DEF DbHeaviest
  <2>4. ASSUME LockFree', starts' < 2 PROVE dbChain' = currentChain'
    <3>1. CASE LockFree /\ currentChain' = currentChain
      <4>1. starts' = starts
        BY <2>1, <2>4, <3>1 DEF Start, LockFree
      <4> QED
        BY <2>1, <2>4, <3>1, <4>1 DEF IndexOK
    <3>2. CASE RestorePosition
      <4>1. /\ starts' = starts /\ starts > 0 /\ longestBlock = Null /\ pc # "down"
            /\ UNCHANGED <<file, longestBlock>> /\ pc' = "idle"
        BY <3>2 DEF RestorePosition, TipsOK, Inv, ChainOK, tipVars
      <4>2. DbHeaviest
        BY <1>1, <2>4, <4>1 DEF IndexOK, FollowsHeaviest
      <4>3. ChainHeaviest'
        <5>1. BetweenBlocks'
          BY <4>1 DEF BetweenBlocks
        <5> QED
          BY <5>1, IdleHeaviest, PTL
      <4>4. PICK n, s, t : n = Len(dbBlocks) /\ s = TipOf(dbChain) /\ t = TipOf(currentChain')
        OBVIOUS
      <4>5. TipIs(s, n) /\ TipIs(t, n)
        BY <2>1, <4>1, <4>2, <4>3, <4>4
           DEF DbHeaviest, ChainHeaviest, TipIs, FirstHeaviest, Work
      <4>6. s = t
        BY <4>4, <4>5, TipLengths, TipIsBest DEF Inv
      <4>7. Path' = Path
        BY <4>1 DEF Path
      <4> QED
        BY <2>1, <4>2, <4>3, <4>4, <4>6, <4>7 DEF DbHeaviest, ChainHeaviest
    <3> QED
      BY <1>3, <2>4, <3>1, <3>2, LockKept
  <2> QED
    BY <2>2, <2>3, <2>4 DEF IndexOK
<1> QED
  BY <1>2, <1>3

-----------------------------------------------------------------------------
(* The record of a query.                                                  *)

Fields == {"pc", "kind", "arg", "hashes", "info", "links", "was", "answers", "ops",
           "fromChain", "live", "seen", "start", "disturbed", "raced", "committed"}

LEMMA NoQueryFields ==
  /\ DOMAIN NoQuery = Fields /\ NoQuery.pc = "idle" /\ NoQuery.start = <<>>
  /\ NoQuery.arg = 0 /\ NoQuery.disturbed = FALSE /\ NoQuery.raced = FALSE
  /\ NoQuery.committed = FALSE /\ NoQuery.live = FALSE /\ NoQuery.answers = {} /\ NoQuery.seen = {}
  BY DEF NoQuery, Fields

QueryTyped ==
  /\ DOMAIN query = Fields
  /\ query.pc = "idle" => query = NoQuery
  /\ query.start \in Seq(Hash \cup {Null}) /\ query.arg \in Nat
  /\ query.disturbed \in BOOLEAN /\ query.raced \in BOOLEAN /\ query.committed \in BOOLEAN

\* The last step of a query, and those between its first and its last one.
Ends == Returns \/ NotPromised
Handles ==
  \/ FindBlock \/ LoadBlock \/ LoadLinks \/ ConvertLink \/ Converted \/ GetPage
  \/ Scan \/ AddLive \/ ConfirmOperation \/ Confirmed \/ CollectOutputs \/ AddPending

KeepsQuestion(q) ==
  /\ DOMAIN q = Fields /\ q.pc # "idle" /\ q.kind = query.kind
  /\ q.start = query.start /\ q.disturbed = query.disturbed
  /\ q.committed = query.committed
  /\ q.raced \in BOOLEAN /\ (query.raced => q.raced)
  /\ q.arg = query.arg \/ q.arg = query.arg + 1

LEMMA HandlesKeeps ==
  ASSUME QueryTyped, Handles
  PROVE  /\ UNCHANGED <<vars, rpcVars>> /\ query.pc # "idle" /\ KeepsQuestion(query')
<1> USE DEF QueryTyped, Fields, Steps, Becomes, KeepsQuestion, AnswerWith, Raced
<1>1. CASE FindBlock
  BY <1>1 DEF FindBlock
<1>2. CASE LoadBlock
  BY <1>2 DEF LoadBlock
<1>3. CASE LoadLinks
  BY <1>3 DEF LoadLinks
<1>4. CASE ConvertLink
  BY <1>4 DEF ConvertLink
<1>5. CASE Converted \/ Confirmed
  BY <1>5 DEF Converted, Confirmed
<1>6. CASE GetPage
  BY <1>6 DEF GetPage
<1>7. CASE Scan
  BY <1>7 DEF Scan
<1>8. CASE AddLive
  BY <1>8 DEF AddLive
<1>9. CASE ConfirmOperation
  BY <1>9 DEF ConfirmOperation
<1>10. CASE CollectOutputs
  BY <1>10 DEF CollectOutputs
<1>11. CASE AddPending
  BY <1>11 DEF AddPending
<1> QED
  BY <1>1, <1>2, <1>3, <1>4, <1>5, <1>6, <1>7, <1>8, <1>9, <1>10, <1>11 DEF Handles

\* A query that begins.
AsksFor(q, kind, at) ==
  /\ DOMAIN q = Fields /\ q.kind = kind /\ q.pc = at /\ at # "idle"
  /\ q.start = currentChain /\ q.raced = FALSE /\ q.committed = FALSE
  /\ q.answers = {} /\ q.was = FALSE /\ q.links = <<>> /\ q.arg \in Nat /\ q.live = FALSE
  /\ q.disturbed = IF LockFree THEN Misled ELSE ChainChanges
  /\ kind = "pages" => q.arg = 0 /\ LockFree /\ at = "page"
  /\ kind = "unspent" => LockFree /\ currentChain # <<>> /\ at = "outputs"
  /\ kind \in {"address", "balance"} => LockFree /\ currentChain # <<>> /\ at = "scan"
  /\ at \in {"load", "pending", "convert"} => FALSE
  /\ at = "done" => kind = "hash"

LEMMA Asking ==
  ASSUME Ask
  PROVE  /\ UNCHANGED <<vars, rpcVars>> /\ query.pc = "idle" /\ pc # "down"
         /\ \E kind, at : AsksFor(query', kind, at)
<1>1. PICK q : q = query'
  OBVIOUS
<1> USE DEF Steps, Becomes, Begins, NoQuery, Fields, AsksFor
<1>2. CASE AskBlock
  <2>1. AsksFor(q, "block", "find")
    BY <1>1, <1>2 DEF AskBlock
  <2> QED
    BY <1>1, <1>2, <2>1 DEF Ask, AskBlock
<1>3. CASE AskIndex
  <2>1. AsksFor(q, "block", "find")
    BY <1>1, <1>3 DEF AskIndex
  <2> QED
    BY <1>1, <1>3, <2>1 DEF Ask, AskIndex
<1>4. CASE AskHeight
  <2>1. AsksFor(q, "block", "find")
    BY <1>1, <1>4 DEF AskHeight
  <2> QED
    BY <1>1, <1>4, <2>1 DEF Ask, AskHeight
<1>5. CASE AskHash
  <2>1. AsksFor(q, "hash", "done")
    BY <1>1, <1>5 DEF AskHash
  <2> QED
    BY <1>1, <1>5, <2>1 DEF Ask, AskHash
<1>6. CASE AskTx
  <2>1. AsksFor(q, "tx", "links")
    BY <1>1, <1>6 DEF AskTx
  <2> QED
    BY <1>1, <1>6, <2>1 DEF Ask, AskTx
<1>7. CASE AskPages
  <2>1. AsksFor(q, "pages", "page")
    BY <1>1, <1>7 DEF AskPages
  <2> QED
    BY <1>1, <1>7, <2>1 DEF Ask, AskPages
<1>8. CASE AskAddress
  <2>1. AsksFor(q, "address", "scan") \/ AsksFor(q, "balance", "scan")
          \/ AsksFor(q, "unspent", "outputs")
    <3>1. /\ LockFree /\ currentChain # <<>>
          /\ \/ q = Begins("address", "scan")
             \/ \E c \in Confirmations :
                  \/ q = [Begins("balance", "scan") EXCEPT !.arg = c]
                  \/ q = [Begins("unspent", "outputs") EXCEPT !.arg = c]
      BY <1>1, <1>8 DEF AskAddress
    <3>2. CASE q = Begins("address", "scan")
      BY <3>1, <3>2
    <3>3. ASSUME NEW c \in Confirmations, q = [Begins("balance", "scan") EXCEPT !.arg = c]
          PROVE  AsksFor(q, "balance", "scan")
      <4>1. c \in Nat
        BY RpcAssumption
      <4> QED
        BY <3>1, <3>3, <4>1
    <3>4. ASSUME NEW c \in Confirmations, q = [Begins("unspent", "outputs") EXCEPT !.arg = c]
          PROVE  AsksFor(q, "unspent", "outputs")
      <4>1. c \in Nat
        BY RpcAssumption
      <4> QED
        BY <3>1, <3>4, <4>1
    <3> QED
      BY <3>1, <3>2, <3>3, <3>4
  <2> QED
    BY <1>1, <1>8, <2>1 DEF Ask, AskAddress
<1> QED
  BY <1>2, <1>3, <1>4, <1>5, <1>6, <1>7, <1>8 DEF Ask

\* What other threads leave of a query that is answered.
GoesOn(q) ==
  /\ DOMAIN q = Fields /\ q.pc = query.pc /\ q.kind = query.kind /\ q.arg = query.arg
  /\ q.hashes = query.hashes /\ q.info = query.info /\ q.links = query.links
  /\ q.was = query.was /\ q.answers = query.answers /\ q.ops = query.ops
  /\ q.fromChain = query.fromChain /\ q.live = query.live /\ q.seen = query.seen
  /\ q.start = query.start /\ q.raced = query.raced
  /\ q.disturbed \in BOOLEAN /\ (query.disturbed => q.disturbed)
  /\ q.committed \in BOOLEAN /\ (query.committed => q.committed)

Others == \/ BlockWritten \/ LoopGoesOn \/ BlockProcessed \/ BlockRejoins
          \/ LiveListed \/ LiveCleared

LEMMA Meanwhile ==
  ASSUME QueryTyped, RpcNext, ~Rpc
  PROVE  \/ query' = NoQuery
         \/ /\ query.pc # "idle" /\ GoesOn(query')
            /\ \/ Others /\ query' = query
               \/ BlockLeaves /\ query'.disturbed
               \/ Commits /\ query'.committed /\ (Misled' => query'.disturbed)
<1> SUFFICES ASSUME query' # NoQuery
             PROVE  /\ query.pc # "idle" /\ GoesOn(query')
                    /\ \/ Others /\ query' = query
                       \/ BlockLeaves /\ query'.disturbed
                       \/ Commits /\ query'.committed /\ (Misled' => query'.disturbed)
  OBVIOUS
<1> USE DEF QueryTyped, Fields, GoesOn
<1>1. CASE Others
  <2>1. query' = query /\ query.pc # "idle"
    BY <1>1 DEF Others, BlockWritten, LoopGoesOn, BlockProcessed, BlockRejoins, LiveListed,
      LiveCleared
  <2> QED
    BY <1>1, <2>1
<1>2. CASE Commits
  <2>1. PICK m \in BOOLEAN : m <=> Misled'
    BY DEF Misled
  <2>2. /\ query # NoQuery
        /\ query' = [query EXCEPT !.committed = TRUE, !.disturbed = @ \/ Misled']
    BY <1>2 DEF Commits
  <2>3. query.pc # "idle"
    BY <2>2
  <2>4. query' = [query EXCEPT !.committed = TRUE, !.disturbed = @ \/ m]
    BY <2>1, <2>2
  <2>5. GoesOn(query') /\ query'.committed /\ (m => query'.disturbed)
    BY <2>4
  <2> QED
    BY <1>2, <2>1, <2>3, <2>5
<1>3. CASE BlockLeaves
  BY <1>3 DEF BlockLeaves
<1> QED
  BY <1>1, <1>2, <1>3 DEF RpcNext, Stops, Others

-----------------------------------------------------------------------------
(* The chain that an undisturbed query is about.                           *)

Begun(s, t) == Len(s) <= Len(t) /\ \A i \in 1..Len(s) : t[i] = s[i]

Undisturbed == query.pc # "idle" /\ ~query.disturbed

\* It is not restored or cut, nor does an indexed block join it; and whenever the
\* lock is free, its blocks are those that are marked.
CalmOK ==
  /\ pc = "down" => query.pc = "idle"
  /\ Undisturbed =>
       /\ pc \notin {"restore", "rebuild"}
       /\ Begun(query.start, currentChain)
       /\ LockFree => ~Misled
       /\ toAppend # <<>> => pc = "walk" \/ (pc = "undo" /\ height < Len(currentChain))

LEMMA RpcCases == Rpc <=> Ask \/ Ends \/ Handles
  BY DEF Rpc, Handles, Ends

LEMMA TypedNext ==
  ASSUME LoopInv, QueryTyped, RpcNext
  PROVE  QueryTyped'
<1>1. CASE query' = NoQuery
  <2>1. PICK q : q = query'
    OBVIOUS
  <2>2. /\ DOMAIN q = Fields /\ q.start = <<>> /\ q.arg = 0 /\ q.disturbed = FALSE
        /\ q.raced = FALSE /\ q.committed = FALSE
    BY <1>1, <2>1, NoQueryFields
  <2>3. q.start \in Seq(Hash \cup {Null}) /\ q.arg \in Nat
    BY <2>2
  <2>4. q.disturbed \in BOOLEAN /\ q.raced \in BOOLEAN /\ q.committed \in BOOLEAN
    BY <2>2
  <2> QED
    BY <1>1, <2>1, <2>2, <2>3, <2>4, Zenon DEF QueryTyped
<1>2. CASE query.pc # "idle" /\ GoesOn(query')
  BY <1>2 DEF GoesOn, QueryTyped
<1>3. CASE Ask
  <2>1. PICK kind, at : AsksFor(query', kind, at)
    BY <1>3, Asking
  <2>2. currentChain \in Seq(Hash \cup {Null})
    BY DEF LoopInv, Inv, TypeOK
  <2>3. (IF LockFree THEN Misled ELSE ChainChanges) \in BOOLEAN
    BY DEF Misled, ChainChanges
  <2> QED
    BY <2>1, <2>2, <2>3 DEF AsksFor, QueryTyped
<1>4. CASE Handles
  <2>1. KeepsQuestion(query')
    BY <1>4, HandlesKeeps
  <2> QED
    BY <2>1 DEF KeepsQuestion, QueryTyped
<1>5. CASE Ends
  BY <1>1, <1>5 DEF Ends, Returns, NotPromised, Becomes
<1> QED
  BY <1>1, <1>2, <1>3, <1>4, <1>5, Meanwhile, RpcCases

\* What the steps of the other threads leave of the chain of such a query, but
\* for the commit of a block.
LEMMA OthersLeave ==
  ASSUME LoopInv, LoopInv', QueryTyped, CalmOK, Undisturbed, Others
  PROVE  /\ pc' \notin {"down", "restore", "rebuild"}
         /\ currentChain' = currentChain /\ (file' = file \/ BlockArrives)
         /\ DOMAIN blocks' = DOMAIN blocks
         /\ \A h \in DOMAIN blocks : blocks'[h].height = blocks[h].height
         /\ toAppend' # <<>> => pc' = "walk" \/ (pc' = "undo" /\ height' < Len(currentChain'))
         /\ LockFree' =>
              LockFree /\ \A h \in DOMAIN blocks : blocks'[h].longestChain = blocks[h].longestChain
<1> USE DEF LoopInv
<1>1. /\ pc \notin {"down", "restore", "rebuild"}
      /\ toAppend # <<>> => pc = "walk" \/ (pc = "undo" /\ height < Len(currentChain))
  BY DEF CalmOK, Undisturbed
<1>2. CASE BlockWritten \/ LiveListed \/ LiveCleared
  <2>1. UNCHANGED <<blocks, currentChain, pc, toAppend, height>> /\ (file' = file \/ BlockArrives)
    BY <1>2 DEF BlockWritten, BlockArrives, LiveListed, LiveCleared, vars, memVars, walkVars
  <2> QED
    BY <1>1, <2>1 DEF LockFree
<1>3. CASE Start \/ Restore
  BY <1>1, <1>3 DEF Start, Restore, RestoreBlock, SizeChain, RebuildChain, RestorePosition
<1>4. CASE ReadFails
  BY <1>1, <1>4 DEF ReadFails, memVars, walkVars, LockFree
<1>5. CASE BlockProcessed
  <2>1. /\ ReadBlock /\ pc' = "process" /\ pc = "idle"
        /\ UNCHANGED <<currentChain, file, toAppend>>
    BY <1>5 DEF BlockProcessed, ReadBlock, walkVars
  <2> QED
    BY <1>1, <2>1, FlagsRead DEF LockFree
<1>6. CASE BeginCommit
  <2>1. /\ pc = "process" /\ pc' \in {"walk", "redo"}
        /\ UNCHANGED <<currentChain, file, toAppend, blocks>>
    BY <1>6 DEF BeginCommit
  <2>2. toAppend = <<>>
    BY <1>1, <2>1
  <2> QED
    BY <2>1, <2>2 DEF LockFree
<1>7. CASE WalkBack
  <2>1. pc' = "walk" /\ UNCHANGED <<currentChain, file>> /\ SameRecords
    BY <1>7, WalkBackEffect, QuietFacts DEF Quiet, InnerCommit
  <2> QED
    BY <2>1 DEF LockFree, SameRecords
<1>8. CASE WalkEnds
  <2>1. /\ pc = "walk" /\ pc' = "undo" /\ height' = height
        /\ UNCHANGED <<file, currentChain, blocks, toAppend, blockInfo>>
    BY <1>8, WalkEndsEffect
  <2>2. ASSUME toAppend # <<>> PROVE height < Len(currentChain)
    <3>1. /\ height \in Nat /\ Len(currentChain) \in Nat /\ height <= Len(currentChain)
          /\ Lowest' = Lowest
          /\ Lowest.previous = IF height = 0 THEN Null ELSE currentChain[height]
      BY <2>1, Lengths DEF Inv, TypeOK, ReorganiseOK, Lowest
    <3>2. height = Len(currentChain) => Lowest.previous = TipOf(currentChain)
      BY <3>1 DEF TipOf, Inv, TypeOK
    <3>3. PICK x : x = toAppend[Len(toAppend)]
      OBVIOUS
    <3>4. x \in DOMAIN blocks /\ Lowest = blocks[x] /\ x \in 1..Len(dbBlocks)
      BY <2>2, <3>3, TreeFacts DEF Lowest
    <3>5. Lowest.previous = file[x].previous
      BY <3>4 DEF Inv, TreeOK
    <3>6. file[x].previous # TipOf(currentChain)
      BY <2>1, <3>4 DEF TipChildless, Tipped, TipIsLeaf
    <3> QED
      BY <3>1, <3>2, <3>5, <3>6
  <2> QED
    BY <2>1, <2>2 DEF LockFree
<1>9. CASE UndoEnds
  <2>1. /\ pc = "undo" /\ pc' = "redo" /\ UNCHANGED <<file, blocks, toAppend>>
        /\ Len(currentChain) = height /\ height \in Nat
        /\ Len(currentChain') = height
        /\ \A i \in 1..Len(currentChain') : currentChain'[i] = currentChain[i]
    BY <1>9, UndoEffect
  <2>2. currentChain' = currentChain
    <3>1. currentChain \in Seq(Hash \cup {Null}) /\ currentChain' \in Seq(Hash \cup {Null})
      BY DEF Inv, TypeOK
    <3> QED
      BY <2>1, <3>1, SeqEqual
  <2>3. toAppend = <<>>
    BY <1>1, <2>1
  <2> QED
    BY <2>1, <2>2, <2>3 DEF LockFree
<1>10. ~BlockRejoins
  BY <1>1 DEF BlockRejoins, RedoBlock
<1> QED
  BY <1>2, <1>3, <1>4, <1>5, <1>6, <1>7, <1>8, <1>9, <1>10 DEF Others, LoopGoesOn

\* And the commit.
LEMMA CommitLeaves ==
  ASSUME LoopInv, LoopInv', Finish
  PROVE  /\ pc' = "idle" /\ Begun(currentChain, currentChain')
         /\ file' = file /\ toAppend' = <<>>
         /\ DOMAIN blocks \subseteq DOMAIN blocks'
         /\ \A h \in DOMAIN blocks :
              blocks'[h].height = blocks[h].height /\ (OnChain(h)' <=> OnChain(h))
<1> USE DEF LoopInv
<1>1. /\ Len(currentChain) \in Nat /\ toAppend' = <<>>
      /\ \A i \in 1..Len(currentChain) : currentChain'[i] = currentChain[i]
      /\ IF blockInfo.longestChain
         THEN /\ Len(currentChain') = Len(currentChain) + 1
              /\ currentChain'[Len(currentChain) + 1] = hash
         ELSE Len(currentChain') = Len(currentChain)
  BY FinishChain
<1>2. /\ hash = Len(dbBlocks) + 1 /\ Len(dbBlocks) \in Nat /\ DOMAIN blocks = 1..Len(dbBlocks)
      /\ DOMAIN blocks' = 1..(Len(dbBlocks) + 1) /\ pc' = "idle" /\ file' = file
      /\ \A h \in DOMAIN blocks : blocks'[h] = blocks[h]
  BY FinishEffect
<1>3. ASSUME NEW h \in DOMAIN blocks PROVE OnChain(h)' <=> OnChain(h)
  <2>1. h # hash
    BY <1>2
  <2>2. \A i \in 1..Len(currentChain') : i \in 1..Len(currentChain) \/ currentChain'[i] = hash
    BY <1>1
  <2>3. \A i \in 1..Len(currentChain) : i \in 1..Len(currentChain')
    BY <1>1
  <2> QED
    BY <1>1, <2>1, <2>2, <2>3 DEF OnChain
<1>4. Begun(currentChain, currentChain')
  BY <1>1 DEF Begun
<1> QED
  BY <1>1, <1>2, <1>3, <1>4

LEMMA BegunLonger ==
  ASSUME NEW s, NEW t, NEW u, Len(s) \in Nat, Len(t) \in Nat, Len(u) \in Nat,
         Begun(s, t), Begun(t, u)
  PROVE  Begun(s, u)
<1>1. \A i \in 1..Len(s) : i \in 1..Len(t)
  BY DEF Begun
<1> QED
  BY <1>1 DEF Begun

ChainHasLength == Len(currentChain) \in Nat
LEMMA ChainLength == LoopInv => ChainHasLength
  BY Lengths DEF LoopInv, Inv, ChainHasLength
LEMMA ChainLengthNext == LoopInv' => ChainHasLength'
  BY ChainLength, PTL

LEMMA ChainLengths ==
  ASSUME LoopInv, QueryTyped
  PROVE  /\ Len(query.start) \in Nat /\ Len(currentChain) \in Nat
         /\ query.start \in Seq(Hash \cup {Null}) /\ currentChain \in Seq(Hash \cup {Null})
  BY LenProperties DEF LoopInv, Inv, TypeOK, QueryTyped

LEMMA CalmNext ==
  ASSUME LoopInv, LoopInv', QueryTyped, QueryTyped', CalmOK, RpcNext
  PROVE  CalmOK'
<1>1. CASE query' = NoQuery
  BY <1>1, NoQueryFields DEF CalmOK, Undisturbed
<1>2. CASE Handles
  <2>1. KeepsQuestion(query') /\ UNCHANGED vars /\ query.pc # "idle"
    BY <1>2, HandlesKeeps
  <2>2. /\ UNCHANGED <<pc, currentChain, blocks, toAppend, height>>
        /\ query'.pc # "idle" /\ query'.start = query.start
        /\ query'.disturbed = query.disturbed
    BY <2>1 DEF KeepsQuestion, vars, memVars, walkVars
  <2>3. Misled' <=> Misled
    BY <2>2 DEF Misled, OnChain
  <2> QED
    BY <2>1, <2>2, <2>3 DEF CalmOK, Undisturbed, LockFree
<1>3. CASE Ask
  <2>1. PICK kind, at : AsksFor(query', kind, at)
    BY <1>3, Asking
  <2>2. /\ UNCHANGED <<pc, currentChain, blocks, toAppend, height, blockInfo, longestBlock>>
        /\ pc # "down"
    BY <1>3, Asking DEF vars, memVars, walkVars, importVars, tipVars
  <2>3. (Misled' <=> Misled) /\ (LockFree' <=> LockFree)
    BY <2>2 DEF Misled, OnChain, LockFree
  <2>4. query'.start = currentChain /\ (~query'.disturbed => IF LockFree THEN ~Misled ELSE ~ChainChanges)
    BY <2>1 DEF AsksFor
  <2>5. Begun(currentChain, currentChain)
    BY ChainLengths DEF Begun
  <2>6. ~query'.disturbed => pc \notin {"restore", "rebuild"}
    BY <2>4 DEF ChainChanges, LockFree
  <2>7. ~query'.disturbed => toAppend = <<>>
    <3>1. LockFree => toAppend = <<>>
      BY DEF LockFree, LoopInv, Inv, ReorganiseOK, InCommit
    <3>2. ~LockFree /\ ~query'.disturbed => toAppend = <<>>
      BY <2>4 DEF ChainChanges, LoopInv, ReplacesOK
    <3> QED
      BY <3>1, <3>2
  <2> QED
    BY <2>2, <2>3, <2>4, <2>5, <2>6, <2>7 DEF CalmOK, Undisturbed
<1>4. CASE query.pc # "idle" /\ GoesOn(query') /\ Others
  <2>1. pc # "down" /\ pc' # "down"
    <3>1. pc # "down"
      BY <1>4 DEF CalmOK
    <3> QED
      BY <1>4, <3>1 DEF Others, BlockWritten, BlockArrives, LoopGoesOn, Start, Restore,
        RestoreBlock, SizeChain, RebuildChain, RestorePosition, ReadFails, BlockProcessed,
        ReadBlock, BeginCommit, WalkBack, WalkEnds, UndoEnds, BlockRejoins, RedoBlock,
        LiveListed, LiveCleared, vars
  <2>2. ASSUME Undisturbed'
        PROVE  /\ pc' \notin {"restore", "rebuild"}
               /\ Begun(query.start, currentChain)'
               /\ LockFree' => ~Misled'
               /\ toAppend' # <<>> =>
                    pc' = "walk" \/ (pc' = "undo" /\ height' < Len(currentChain'))
    <3>1. Undisturbed /\ query'.start = query.start
      BY <1>4, <2>2 DEF GoesOn, QueryTyped, Undisturbed
    <3>2. /\ pc' \notin {"down", "restore", "rebuild"}
          /\ currentChain' = currentChain /\ DOMAIN blocks' = DOMAIN blocks
          /\ toAppend' # <<>> =>
               pc' = "walk" \/ (pc' = "undo" /\ height' < Len(currentChain'))
          /\ LockFree' =>
               LockFree /\ \A h \in DOMAIN blocks :
                             blocks'[h].longestChain = blocks[h].longestChain
      BY <1>4, <3>1, OthersLeave
    <3>3. LockFree' => ~Misled'
      BY <3>1, <3>2 DEF CalmOK, Misled, OnChain
    <3> QED
      BY <3>1, <3>2, <3>3 DEF CalmOK
  <2> QED
    BY <2>1, <2>2 DEF CalmOK
<1>5. CASE query.pc # "idle" /\ GoesOn(query') /\ BlockLeaves /\ query'.disturbed
  BY <1>5 DEF CalmOK, Undisturbed, BlockLeaves, UndoBlock
<1>6. CASE query.pc # "idle" /\ GoesOn(query') /\ Commits /\ (Misled' => query'.disturbed)
  <2>1. /\ pc' = "idle" /\ Begun(currentChain, currentChain') /\ toAppend' = <<>>
    BY <1>6, CommitLeaves DEF Commits
  <2>2. ASSUME Undisturbed' PROVE Begun(query.start, currentChain)' /\ ~Misled'
    <3>1. Undisturbed /\ query'.start = query.start
      BY <1>6, <2>2 DEF GoesOn, QueryTyped, Undisturbed
    <3>2. Begun(query.start, currentChain)
      BY <3>1 DEF CalmOK
    <3>3. Len(currentChain') \in Nat
      BY Lengths DEF LoopInv, Inv, TypeOK
    <3>4. Begun(query.start, currentChain')
      BY <2>1, <3>2, <3>3, ChainLengths, BegunLonger
    <3> QED
      BY <1>6, <2>2, <3>1, <3>4 DEF Undisturbed
  <2> QED
    BY <2>1, <2>2 DEF CalmOK
<1> QED
  BY <1>1, <1>2, <1>3, <1>4, <1>5, <1>6, Meanwhile, RpcCases DEF Ends, Returns, NotPromised, Becomes

-----------------------------------------------------------------------------
(* What the blocks have.                                                   *)

ContentsOK == contents \in Seq(SUBSET {"own", "shared"}) /\ Len(contents) = Len(file)

LEMMA FilesKept ==
  ASSUME RpcNext, ~BlockWritten
  PROVE  UNCHANGED <<file, contents>>
<1> USE DEF rpcVars
<1>1. CASE Commits \/ BlockLeaves
  BY <1>1 DEF Commits, Finish, BlockLeaves, UndoBlock
<1>2. CASE Stops
  BY <1>2 DEF Stops, Crash, AskEmpty, Down
<1>3. CASE LoopGoesOn
  <2>1. contents' = contents
    BY <1>3 DEF LoopGoesOn
  <2>2. CASE Start \/ Restore
    BY <2>1, <2>2 DEF Start, Restore, RestoreBlock, SizeChain, RebuildChain, RestorePosition
  <2>3. CASE ReadFails
    BY <2>1, <2>3 DEF ReadFails
  <2>4. CASE BeginCommit \/ WalkBack \/ WalkEnds \/ UndoEnds
    BY <2>1, <2>4 DEF BeginCommit, WalkBack, WalkEnds, UndoEnds
  <2> QED
    BY <1>3, <2>2, <2>3, <2>4 DEF LoopGoesOn
<1>4. CASE LiveListed \/ LiveCleared
  BY <1>4 DEF LiveListed, LiveCleared, vars
<1>5. CASE Rpc
  BY <1>5 DEF Rpc, Ask, AskBlock, AskIndex, AskHeight, AskHash, AskTx, AskPages, AskAddress,
    Returns, FindBlock, LoadBlock, LoadLinks, ConvertLink, Converted, GetPage, Scan, NotPromised,
    AddLive, ConfirmOperation, Confirmed, CollectOutputs, AddPending, Steps, vars
<1>6. CASE BlockProcessed \/ BlockRejoins
  BY <1>6 DEF BlockProcessed, ReadBlock, BlockRejoins, RedoBlock
<1> QED
  BY <1>1, <1>2, <1>3, <1>4, <1>5, <1>6 DEF RpcNext

LEMMA ContentsNext ==
  ASSUME Inv, ContentsOK, RpcNext
  PROVE  ContentsOK' /\ \A b \in 1..Len(file) : contents'[b] = contents[b]
<1>1. CASE ~BlockWritten
  BY <1>1, FilesKept DEF ContentsOK
<1>2. CASE BlockWritten
  <2>1. PICK c \in SUBSET {"own", "shared"} : contents' = Append(contents, c)
    <3>1. PICK c \in IF file = <<>> THEN {{"own"}} ELSE Contents : contents' = Append(contents, c)
      BY <1>2 DEF BlockWritten
    <3>2. c \in SUBSET {"own", "shared"}
      BY RpcAssumption
    <3> QED
      BY <3>1, <3>2
  <2>2. PICK r : file' = Append(file, r)
    BY <1>2 DEF BlockWritten, BlockArrives
  <2>3. /\ Len(file) \in Nat /\ Len(file') = Len(file) + 1
    BY <2>2 DEF Inv, TypeOK
  <2>4. /\ contents' \in Seq(SUBSET {"own", "shared"}) /\ Len(contents') = Len(contents) + 1
        /\ \A b \in 1..Len(contents) : contents'[b] = contents[b]
    BY <2>1 DEF ContentsOK
  <2> QED
    BY <2>3, <2>4 DEF ContentsOK
<1> QED
  BY <1>1, <1>2

-----------------------------------------------------------------------------
(* Page after page of the chain.                                           *)

\* The blocks of the first pages are seen; a block that is added moves blocks to
\* later pages only.
PagesOK ==
  Undisturbed /\ query.kind = "pages" =>
    /\ query.pc \in {"page", "done"}
    /\ \A i \in 1..Len(query.start) :
         query.pc = "done" \/ i > Len(currentChain) - PageSize * query.arg =>
           query.start[i] \in query.seen

LEMMA PageBlocks ==
  ASSUME NEW page \in Nat, currentChain \in Seq(Hash \cup {Null}),
         Len(currentChain) > PageSize * page,
         NEW i \in 1..Len(currentChain),
         i <= Len(currentChain) - PageSize * page,
         i > Len(currentChain) - PageSize * (page + 1)
  PROVE  currentChain[i] \in ToSet(OfPage(page))
<1>1. PICK len, from, size : len = Len(currentChain) /\ from = PageSize * page /\ size = PageSize
  OBVIOUS
<1>2. /\ len \in Nat /\ from \in Nat /\ size \in Nat \ {0}
      /\ PageSize * (page + 1) = from + size
  BY <1>1, RpcAssumption
<1>3. PICK n : n = IF len - from < size THEN len - from ELSE size
  OBVIOUS
<1>4. PICK k : k = len + 1 - i - from
  OBVIOUS
<1>5. /\ i \in 1..len /\ len > from /\ i <= len - from /\ i > len - (from + size)
  BY <1>1, <1>2
<1>6. n \in Nat /\ from + n <= len /\ k \in 1..n /\ from + k \in 1..len /\ len + 1 - (from + k) = i
  BY <1>2, <1>3, <1>4, <1>5
<1>7. PICK s : s = FromTheEnd
  OBVIOUS
<1>8. s \in Seq(Hash \cup {Null}) /\ Len(s) = len /\ \A x \in 1..len : s[x] = currentChain[len + 1 - x]
  BY <1>1, <1>7 DEF FromTheEnd
<1>9. PICK w : w = SubSeq(s, from + 1, from + n)
  OBVIOUS
<1>10. w \in Seq(Hash \cup {Null}) /\ Len(w) = n /\ \A x \in 1..n : w[x] = s[from + x]
  BY <1>2, <1>6, <1>8, <1>9
<1>11. OfPage(page) = w
  BY <1>1, <1>3, <1>7, <1>9 DEF OfPage
<1>12. k \in DOMAIN w /\ w[k] = currentChain[i]
  BY <1>6, <1>8, <1>10
<1> QED
  BY <1>11, <1>12 DEF ToSet

LEMMA PagesNext ==
  ASSUME LoopInv, LoopInv', QueryTyped, QueryTyped', CalmOK, PagesOK, RpcNext
  PROVE  PagesOK'
<1> SUFFICES ASSUME Undisturbed', query'.kind = "pages"
             PROVE  /\ query'.pc \in {"page", "done"}
                    /\ \A i \in 1..Len(query'.start) :
                         query'.pc = "done" \/ i > Len(currentChain') - PageSize * query'.arg =>
                           query'.start[i] \in query'.seen
  BY DEF PagesOK
<1> USE DEF Undisturbed
<1>1. /\ PageSize \in Nat \ {0} /\ query.arg \in Nat /\ PageSize * query.arg \in Nat
      /\ Len(currentChain) \in Nat /\ Len(query.start) \in Nat
  BY RpcAssumption, ChainLengths DEF QueryTyped
<1>2. CASE query' = NoQuery
  BY <1>2, NoQueryFields
<1>3. CASE Ask
  <2>1. PICK kind, at : AsksFor(query', kind, at)
    BY <1>3, Asking
  <2>2. query'.pc = "page" /\ query'.arg = 0 /\ query'.start = currentChain
    BY <2>1 DEF AsksFor
  <2>3. currentChain' = currentChain
    BY <1>3, Asking DEF vars, memVars
  <2>4. PageSize * 0 = 0
    BY <1>1
  <2> QED
    BY <1>1, <2>2, <2>3, <2>4
<1>4. CASE Handles
  <2>1. KeepsQuestion(query') /\ query.pc # "idle" /\ currentChain' = currentChain
    BY <1>4, HandlesKeeps DEF vars, memVars
  <2>2. Undisturbed /\ query.kind = "pages" /\ query'.start = query.start
    BY <2>1 DEF KeepsQuestion
  <2>3. /\ query.pc \in {"page", "done"}
        /\ \A i \in 1..Len(query.start) :
             query.pc = "done" \/ i > Len(currentChain) - PageSize * query.arg =>
               query.start[i] \in query.seen
    BY <2>2 DEF PagesOK
  <2>4. GetPage
    BY <1>4, <2>3 DEF Handles, Steps, FindBlock, LoadBlock, LoadLinks, ConvertLink, Converted,
      Scan, AddLive, ConfirmOperation, Confirmed, CollectOutputs, AddPending
  <2>5. query.pc = "page"
    BY <2>4 DEF GetPage, Steps
  <2>6. CASE Len(currentChain) <= PageSize * query.arg
    <3>1. query' = [query EXCEPT !.pc = "done"]
      BY <2>4, <2>6 DEF GetPage, Becomes
    <3>2. query'.pc = "done" /\ query'.seen = query.seen
      BY <3>1 DEF QueryTyped, Fields
    <3>3. \A i \in 1..Len(query.start) : i > Len(currentChain) - PageSize * query.arg
      BY <1>1, <2>6
    <3> QED
      BY <2>2, <2>3, <3>2, <3>3
  <2>7. CASE Len(currentChain) > PageSize * query.arg
    <3>1. query' = [query EXCEPT !.arg = @ + 1, !.seen = @ \cup ToSet(OfPage(query.arg))]
      BY <1>1, <2>4, <2>7 DEF GetPage, Becomes
    <3>2. /\ query'.pc = "page" /\ query'.arg = query.arg + 1
          /\ query'.seen = query.seen \cup ToSet(OfPage(query.arg))
      BY <2>5, <3>1 DEF QueryTyped, Fields
    <3>3. ASSUME NEW i \in 1..Len(query.start),
                 i > Len(currentChain) - PageSize * (query.arg + 1)
          PROVE  query.start[i] \in query'.seen
      <4>1. CASE i > Len(currentChain) - PageSize * query.arg
        BY <2>3, <3>2, <4>1
      <4>2. CASE i <= Len(currentChain) - PageSize * query.arg
        <5>1. i \in 1..Len(currentChain) /\ currentChain[i] = query.start[i]
          BY <1>1, <2>2 DEF CalmOK, Begun
        <5>2. currentChain \in Seq(Hash \cup {Null})
          BY ChainLengths
        <5>3. currentChain[i] \in ToSet(OfPage(query.arg))
          BY <1>1, <2>7, <3>3, <4>2, <5>1, <5>2, PageBlocks
        <5> QED
          BY <3>2, <5>1, <5>3
      <4> QED
        BY <1>1, <4>1, <4>2
    <3> QED
      BY <2>1, <2>2, <3>2, <3>3
  <2> QED
    BY <1>1, <2>6, <2>7
<1>5. CASE query.pc # "idle" /\ GoesOn(query') /\ (Others \/ Commits)
  <2>1. /\ Undisturbed /\ query.kind = "pages"
        /\ query'.start = query.start /\ query'.pc = query.pc /\ query'.arg = query.arg
        /\ query'.seen = query.seen
    BY <1>5 DEF GoesOn, QueryTyped
  <2>2. Len(currentChain') \in Nat /\ Len(currentChain) <= Len(currentChain')
    <3>1. CASE Others
      BY <1>1, <2>1, <3>1, OthersLeave
    <3>2. CASE Commits
      <4>1. Begun(currentChain, currentChain')
        BY <3>2, CommitLeaves DEF Commits
      <4> QED
        BY <4>1, Lengths DEF Begun, LoopInv, Inv, TypeOK
    <3> QED
      BY <1>5, <3>1, <3>2
  <2>3. \A i \in 1..Len(query.start) :
          i > Len(currentChain') - PageSize * query.arg =>
            i > Len(currentChain) - PageSize * query.arg
    BY <1>1, <2>2
  <2> QED
    BY <2>1, <2>3 DEF PagesOK
<1> QED
  BY <1>2, <1>3, <1>4, <1>5, Meanwhile, RpcCases DEF Ends, Returns, NotPromised, Becomes

-----------------------------------------------------------------------------
(* The unspent outputs.                                                    *)

\* Those of a chain with n confirmations.
OutputsFor(path, n) ==
  {o.of : o \in {p \in UnspentOn(path) :
                   path[p.height + 1] \in
                     ToSet(ConfirmedPath(path, IF n = 0 THEN 0 ELSE n - 1))}}

\* The index has the unspent outputs of a chain, but for those that its missed
\* blocks make or spend.
Agrees(u, path, lost) == \A o : o.of \notin lost => (o \in u <=> o \in UnspentOn(path))
Lost(path) == Touched(missed \cap ToSet(path))
InIndex(u, path) == Agrees(u, path, Lost(path))

\* The batch has those of the main chain with the new block, if that is processed.
Target == IF Extends THEN Append(currentChain, hash) ELSE currentChain
UtxoOK ==
  /\ TipOf(dbChain) \in 0..Len(file) /\ dbChain = Path[TipOf(dbChain)]
  /\ starts < 2 => /\ InIndex(utxo, dbChain)
                   /\ Importing => InIndex(batchUtxo, Target)

\* The outputs of a chain with n confirmations are the ones that the handler
\* finds: a block of the chain is not in it twice.
LEMMA CollectedOutputs ==
  ASSUME NEW s \in Seq(Hash \cup {Null}), \A i, j \in 1..Len(s) : s[i] = s[j] => i = j,
         query.arg \in Nat, NEW u, NEW lost, Agrees(u, s, lost)
  PROVE  {o.of : o \in {p \in u : Enough(Len(s), p.height)}} \ lost
           = OutputsFor(s, query.arg) \ lost
<1>1. PICK n, len : n = query.arg /\ len = Len(s) /\ n \in Nat /\ len \in Nat
  OBVIOUS
<1>2. \A p \in UnspentOn(s) : p.height + 1 \in 1..len /\ p.height \in Nat
  BY <1>1 DEF UnspentOn
<1>3. PICK one : one = IF n = 0 THEN 0 ELSE n - 1
  OBVIOUS
<1>4. PICK m : m = len + 1 - (IF one = 0 THEN 1 ELSE one)
  OBVIOUS
<1>5. m \in Int /\ m <= len /\ (n <= 1 => m = len) /\ (n > 1 => m = len + 2 - n)
  <2>1. CASE n <= 1
    <3>1. one = 0
      BY <1>1, <1>3, <2>1
    <3> QED
      BY <1>1, <1>4, <2>1, <3>1
  <2>2. CASE n > 1
    <3>1. one = n - 1 /\ one # 0
      BY <1>1, <1>3, <2>2
    <3> QED
      BY <1>1, <1>4, <2>2, <3>1
  <2> QED
    BY <1>1, <2>1, <2>2
<1>6. PICK w : w = SubSeq(s, 1, m)
  OBVIOUS
<1>7. ConfirmedPath(s, one) = w
  BY <1>1, <1>4, <1>6 DEF ConfirmedPath
<1>8. \A i \in 1..len : s[i] \in ToSet(w) <=> i <= m
  <2>1. DOMAIN w = 1..m /\ \A k \in 1..m : w[k] = s[k] /\ k \in 1..len
    BY <1>1, <1>5, <1>6
  <2> QED
    BY <1>1, <1>5, <2>1 DEF ToSet
<1>9. \A p \in UnspentOn(s) : Enough(len, p.height) <=> s[p.height + 1] \in ToSet(w)
  <2>1. \A h \in Nat : h + 1 \in 1..len => (Enough(len, h) <=> h + 1 <= m)
    BY <1>1, <1>5 DEF Enough
  <2> QED
    BY <1>2, <1>8, <2>1
<1>10. OutputsFor(s, n) = {o.of : o \in {p \in UnspentOn(s) : s[p.height + 1] \in ToSet(w)}}
  BY <1>3, <1>7 DEF OutputsFor
<1>11. {p \in UnspentOn(s) : Enough(len, p.height)}
         = {p \in UnspentOn(s) : s[p.height + 1] \in ToSet(w)}
  BY <1>9
<1>12. PICK A, B : /\ A = {p \in u : Enough(len, p.height)}
                   /\ B = {p \in UnspentOn(s) : Enough(len, p.height)}
  OBVIOUS
<1>13. \A o : o.of \notin lost => (o \in A <=> o \in B)
  BY <1>12 DEF Agrees
<1>14. {o.of : o \in A} \ lost = {o.of : o \in B} \ lost
  BY <1>13
<1> QED
  BY <1>1, <1>10, <1>11, <1>12, <1>14

\* What a block has stays when blocks are written, and what is missed until one is
\* committed.
LEMMA LostKept ==
  ASSUME NEW s, DOMAIN s = 1..Len(s), \A i \in 1..Len(s) : contents'[s[i]] = contents[s[i]],
         missed' = missed
  PROVE  Lost(s)' = Lost(s)
<1>1. PICK bs : bs = missed \cap ToSet(s)
  OBVIOUS
<1>2. \A b \in bs : \A w : Has(b, w)' <=> Has(b, w)
  BY <1>1 DEF Has, ToSet
<1>3. Touched(bs)' = Touched(bs)
  BY <1>2 DEF Touched, Shared, FirstBlock
<1>4. Lost(s)' = Touched(bs)' /\ Lost(s) = Touched(bs)
  BY <1>1 DEF Lost, ToSet, Touched, Has
<1> QED
  BY <1>3, <1>4

LEMMA UnspentKept ==
  ASSUME NEW s, \A i \in 1..Len(s) : contents'[s[i]] = contents[s[i]]
  PROVE  UnspentOn(s)' = UnspentOn(s)
<1>1. \A i \in 1..Len(s) : \A w : Has(s[i], w)' <=> Has(s[i], w)
  BY DEF Has
<1>2. OnPath(s, "shared")' <=> OnPath(s, "shared")
  BY <1>1 DEF OnPath
<1> QED
  BY <1>1, <1>2 DEF UnspentOn, Shared

LEMMA OutputsKept ==
  ASSUME NEW s, \A i \in 1..Len(s) : contents'[s[i]] = contents[s[i]], NEW n
  PROVE  OutputsFor(s, n)' = OutputsFor(s, n)
<1>3. UnspentOn(s)' = UnspentOn(s)
  BY UnspentKept
<1>4. ToSet(ConfirmedPath(s, IF n = 0 THEN 0 ELSE n - 1))'
        = ToSet(ConfirmedPath(s, IF n = 0 THEN 0 ELSE n - 1))
  BY DEF ConfirmedPath, ToSet
<1> QED
  BY <1>3, <1>4 DEF OutputsFor

\* Until a block is committed, what is listed is of the chain of the beginning.
Same(seen, outputs, lost) == seen \ lost = outputs \ lost
OutputsOK ==
  Undisturbed /\ query.kind = "unspent" /\ ~query.raced /\ ~query.committed /\ starts < 2 =>
    /\ query.pc \in {"outputs", "pending", "done"} /\ query.start = currentChain
    /\ query.pc = "pending" =>
         query.arg = 0 /\ Same(query.seen, OutputsFor(query.start, 0), Lost(query.start))
    /\ query.pc = "done" =>
         \/ Same(query.seen, OutputsFor(query.start, query.arg), Lost(query.start))
         \/ /\ query.arg = 0
            /\ Same(query.seen, WithPending(OutputsFor(query.start, 0)), Lost(query.start))

\* The blocks of the main chain are different, and known.
LEMMA ChainBlocks ==
  ASSUME LoopInv, pc # "rebuild"
  PROVE  /\ \A i, j \in 1..Len(currentChain) : currentChain[i] = currentChain[j] => i = j
         /\ \A i \in 1..Len(currentChain) :
              /\ currentChain[i] \in DOMAIN blocks /\ currentChain[i] \in 1..Len(file)
              /\ blocks[currentChain[i]].height = i - 1
<1>1. PathAbove(currentChain, 0, Null) /\ Len(currentChain) \in Nat
  BY Lengths DEF LoopInv, Inv, TypeOK, ChainOK
<1>2. \A i \in 1..Len(currentChain) :
        currentChain[i] \in DOMAIN blocks /\ blocks[currentChain[i]].height = i - 1
  BY <1>1 DEF PathAbove
<1>3. \A h \in DOMAIN blocks : h \in 1..Len(file)
  BY TreeFacts, TipLengths DEF LoopInv, Inv
<1>4. ASSUME NEW i \in 1..Len(currentChain), NEW j \in 1..Len(currentChain),
             currentChain[i] = currentChain[j]
      PROVE  i = j
  BY <1>1, <1>2, <1>4
<1> QED
  BY <1>2, <1>3, <1>4

LEMMA OutputsNext ==
  ASSUME LoopInv, LoopInv', QueryTyped, QueryTyped', CalmOK, IndexOK, UtxoOK, ContentsOK,
         OutputsOK, RpcNext
  PROVE  OutputsOK'
<1>1. PICK s, n, l : s = query'.start /\ n = query'.arg /\ l = Lost(s)'
  OBVIOUS
<1>2. /\ OutputsFor(query.start, 0)' = OutputsFor(s, 0)'
      /\ OutputsFor(query.start, query.arg)' = OutputsFor(s, n)'
      /\ Lost(query.start)' = l
  BY <1>1 DEF OutputsFor, UnspentOn, OnPath, Has, ConfirmedPath, ToSet, Lost, Touched
<1> SUFFICES ASSUME Undisturbed', query'.kind = "unspent", ~query'.raced, ~query'.committed,
                    starts' < 2
             PROVE  /\ query'.pc \in {"outputs", "pending", "done"} /\ s = currentChain'
                    /\ query'.pc = "pending" => n = 0 /\ Same(query'.seen, OutputsFor(s, 0)', l)
                    /\ query'.pc = "done" =>
                         \/ Same(query'.seen, OutputsFor(s, n)', l)
                         \/ n = 0 /\ Same(query'.seen, WithPending(OutputsFor(s, 0)'), l)
  BY <1>1, <1>2 DEF OutputsOK, Same, WithPending, Shared
<1> USE DEF Undisturbed
<1>3. CASE query' = NoQuery
  BY <1>3, NoQueryFields
<1>4. CASE Ask
  <2>1. PICK kind, at : AsksFor(query', kind, at)
    BY <1>4, Asking
  <2>2. query'.pc = "outputs" /\ query'.start = currentChain
    BY <2>1 DEF AsksFor
  <2> QED
    BY <1>1, <1>4, <2>2, Asking DEF vars, memVars
<1>5. ASSUME Undisturbed, query.kind = "unspent", ~query.raced, ~query.committed, starts < 2,
             s = query.start
      PROVE  /\ query.pc \in {"outputs", "pending", "done"} /\ s = currentChain
             /\ query.pc = "pending" =>
                  query.arg = 0 /\ Same(query.seen, OutputsFor(s, 0), Lost(s))
             /\ query.pc = "done" =>
                  \/ Same(query.seen, OutputsFor(s, query.arg), Lost(s))
                  \/ /\ query.arg = 0
                     /\ Same(query.seen, WithPending(OutputsFor(s, 0)), Lost(s))
  BY <1>5 DEF OutputsOK
<1>6. ASSUME Undisturbed, s = currentChain
      PROVE  /\ s \in Seq(Hash \cup {Null})
             /\ \A i, j \in 1..Len(s) : s[i] = s[j] => i = j
             /\ \A i \in 1..Len(s) : contents'[s[i]] = contents[s[i]]
  <2>1. pc # "rebuild"
    BY <1>6 DEF CalmOK
  <2> QED
    BY <1>6, <2>1, ChainLengths, ChainBlocks, ContentsNext DEF LoopInv
<1>7. CASE Handles
  <2>1. KeepsQuestion(query') /\ query.pc # "idle" /\ UNCHANGED <<vars, rpcVars>>
    BY <1>7, HandlesKeeps
  <2>2. /\ currentChain' = currentChain /\ starts' = starts /\ contents' = contents
        /\ missed' = missed
        /\ Undisturbed /\ query.kind = "unspent" /\ ~query.raced /\ ~query.committed
        /\ starts < 2 /\ s = query.start
    BY <1>1, <2>1 DEF KeepsQuestion, vars, memVars, rpcVars, historyVars, QueryTyped
  <2>3. /\ query.pc \in {"outputs", "pending", "done"} /\ s = currentChain
        /\ query.pc = "pending" => query.arg = 0 /\ Same(query.seen, OutputsFor(s, 0), Lost(s))
    BY <1>5, <2>2
  <2>4. CollectOutputs \/ AddPending
    BY <1>7, <2>3 DEF Handles, Steps, FindBlock, LoadBlock, LoadLinks, ConvertLink, Converted,
      Scan, AddLive, ConfirmOperation, Confirmed, GetPage
  <2>5. n = query.arg
    BY <1>1, <2>4 DEF CollectOutputs, AddPending, Becomes, Raced, QueryTyped, Fields
  <2>6. /\ OutputsFor(s, 0)' = OutputsFor(s, 0) /\ OutputsFor(s, n)' = OutputsFor(s, n)
        /\ l = Lost(s)
    BY <1>1, <1>6, <2>2, <2>3, OutputsKept, LostKept
  <2>7. CASE CollectOutputs
    <3>1. PICK size \in SizesSeen : query' = Raced([query EXCEPT
            !.seen = {o.of : o \in {p \in utxo : Enough(size, p.height)}},
            !.pc = IF query.arg = 0 THEN "pending" ELSE "done"])
      BY <2>7 DEF CollectOutputs, Becomes
    <3>2. LockFree
      <4>1. query'.raced = (query.raced \/ ~LockFree)
        BY <3>1 DEF Raced, QueryTyped, Fields
      <4> QED
        BY <4>1
    <3>3. size = Len(s) /\ Agrees(utxo, s, Lost(s))
      BY <2>2, <2>3, <3>1, <3>2 DEF SizesSeen, IndexOK, UtxoOK, InIndex
    <3>4. /\ query'.pc = IF query.arg = 0 THEN "pending" ELSE "done"
          /\ query'.seen = {o.of : o \in {p \in utxo : Enough(size, p.height)}}
      BY <3>1 DEF Raced, QueryTyped, Fields
    <3>5. Same(query'.seen, OutputsFor(s, n), Lost(s))
      <4>1. PICK seen, lost : /\ seen = {o.of : o \in {p \in utxo : Enough(Len(s), p.height)}}
                              /\ lost = Lost(s)
        OBVIOUS
      <4>2. query.arg \in Nat /\ s \in Seq(Hash \cup {Null})
        BY <1>6, <2>2, <2>3 DEF QueryTyped
      <4>3. seen \ lost = OutputsFor(s, query.arg) \ lost
        BY <1>6, <2>2, <2>3, <3>3, <4>1, <4>2, CollectedOutputs
      <4>4. query'.seen = seen
        BY <3>3, <3>4, <4>1
      <4> QED
        BY <2>5, <4>1, <4>3, <4>4 DEF Same
    <3> QED
      BY <2>2, <2>3, <2>5, <2>6, <3>4, <3>5
  <2>8. CASE AddPending
    <3>1. /\ query.pc = "pending"
          /\ query' = [query EXCEPT !.pc = "done",
                                    !.seen = IF listed THEN WithPending(@) ELSE @]
      BY <2>8 DEF AddPending, Becomes, Steps
    <3>2. /\ query'.pc = "done"
          /\ query'.seen = query.seen \/ query'.seen = WithPending(query.seen)
      BY <2>2, <3>1 DEF QueryTyped, Fields
    <3>3. n = 0 /\ Same(query.seen, OutputsFor(s, 0), Lost(s))
      BY <2>3, <2>5, <3>1
    <3>4. Same(WithPending(query.seen), WithPending(OutputsFor(s, 0)), Lost(s))
      BY <3>3 DEF Same, WithPending
    <3> QED
      BY <2>2, <2>3, <2>6, <3>2, <3>3, <3>4
  <2> QED
    BY <2>4, <2>7, <2>8
<1>8. CASE query.pc # "idle" /\ GoesOn(query') /\ Others
  <2>1. /\ Undisturbed /\ query.kind = "unspent" /\ ~query.raced /\ ~query.committed
        /\ s = query.start /\ n = query.arg
        /\ query'.pc = query.pc /\ query'.seen = query.seen
    BY <1>1, <1>8 DEF GoesOn, QueryTyped
  <2>2. pc # "down" /\ currentChain' = currentChain
    BY <1>8, <2>1, OthersLeave DEF CalmOK
  <2>3. starts' = starts /\ missed' = missed
    <3>1. ~Commits
      <4> SUFFICES ASSUME Commits PROVE query'.committed
        OBVIOUS
      <4>1. PICK m : m = Misled'
        OBVIOUS
      <4>2. query' = [query EXCEPT !.committed = TRUE, !.disturbed = @ \/ m]
        BY <1>8, <4>1, NoQueryFields DEF Commits
      <4> QED
        BY <4>2 DEF QueryTyped, Fields
    <3> QED
      BY <2>2, <3>1, IndexKept DEF Start
  <2>4. /\ OutputsFor(s, 0)' = OutputsFor(s, 0) /\ OutputsFor(s, n)' = OutputsFor(s, n)
        /\ l = Lost(s)
    BY <1>1, <1>5, <1>6, <2>1, <2>3, OutputsKept, LostKept
  <2> QED
    BY <1>5, <2>1, <2>2, <2>3, <2>4
<1>9. CASE query.pc # "idle" /\ GoesOn(query') /\ (query'.disturbed \/ query'.committed)
  BY <1>9
<1> QED
  BY <1>3, <1>4, <1>7, <1>8, <1>9, Meanwhile, RpcCases DEF Ends, Returns, NotPromised, Becomes

-----------------------------------------------------------------------------
(* What is answered of blocks and of the transaction.                      *)

\* The elements of a finite set, one after the other.
Listing(T, f) ==
  /\ f \in [1..Cardinality(T) -> T]
  /\ \A i, j \in 1..Cardinality(T) : f[i] = f[j] => i = j

LEMMA ListingExists == ASSUME NEW S, IsFiniteSet(S) PROVE \E f : Listing(S, f)
<1> DEFINE Bad == {n \in Nat : \E T \in SUBSET S : Cardinality(T) = n /\ ~ \E f : Listing(T, f)}
<1>1. SUFFICES ASSUME Bad # {} PROVE FALSE
  BY FS_CardinalityType
<1>2. Bad \subseteq Nat
  OBVIOUS
<1>3. PICK m \in Bad : \A k \in Bad : m <= k
  <2> HIDE DEF Bad
  <2> QED
    BY <1>1, <1>2, LeastElement
<1>4. PICK T \in SUBSET S : Cardinality(T) = m /\ ~ \E f : Listing(T, f)
  BY <1>3
<1>5. m \in Nat /\ IsFiniteSet(T)
  BY <1>3, FS_Subset
<1>6. m # 0
  <2> SUFFICES ASSUME m = 0 PROVE FALSE
    OBVIOUS
  <2>1. 1..Cardinality(T) = {}
    BY <1>4
  <2>2. Listing(T, [i \in 1..Cardinality(T) |-> i])
    BY <2>1 DEF Listing
  <2> QED
    BY <1>4, <2>2
<1>7. PICK x \in T : TRUE
  BY <1>4, <1>5, <1>6, FS_EmptySet
<1>8. Cardinality(T \ {x}) = m - 1 /\ m - 1 \in Nat
  <2>1. Cardinality(T \ {x}) = IF x \in T THEN Cardinality(T) - 1 ELSE Cardinality(T)
    BY <1>5, FS_RemoveElement
  <2>2. Cardinality(T \ {x}) = m - 1
    BY <1>4, <1>7, <2>1
  <2>3. m - 1 \in Nat
    BY <1>5, <1>6
  <2> QED
    BY <2>2, <2>3
<1>9. PICK g : Listing(T \ {x}, g)
  <2>1. m - 1 \notin Bad
    <3> HIDE DEF Bad
    <3> QED
      BY <1>3, <1>5, <1>8
  <2> QED
    BY <1>8, <2>1
<1>10. g \in [1..(m - 1) -> T \ {x}] /\ \A i, j \in 1..(m - 1) : g[i] = g[j] => i = j
  BY <1>8, <1>9 DEF Listing
<1>11. PICK h : h = [i \in 1..m |-> IF i = m THEN x ELSE g[i]]
  OBVIOUS
<1>12. \A i \in 1..m : i # m => i \in 1..(m - 1)
  BY <1>5
<1>13. \A i \in 1..m : h[i] = x <=> i = m
  BY <1>10, <1>11, <1>12
<1>14. \A i, j \in 1..m : h[i] = h[j] => i = j
  BY <1>10, <1>11, <1>12, <1>13
<1>15. h \in [1..m -> T]
  BY <1>10, <1>11, <1>12
<1> QED
  BY <1>4, <1>14, <1>15 DEF Listing

LEMMA SetAsSequence ==
  ASSUME NEW S, IsFiniteSet(S)
  PROVE  /\ SetToSeq(S) \in Seq(S)
         /\ \A x \in S : \E i \in 1..Len(SetToSeq(S)) : SetToSeq(S)[i] = x
<1>1. PICK n : n = Cardinality(S) /\ n \in Nat
  BY FS_CardinalityType
<1>2. PICK f : f = SetToSeq(S)
  OBVIOUS
<1>3. f \in [1..n -> S] /\ \A i, j \in 1..n : f[i] = f[j] => i = j
  <2>1. PICK g : Listing(S, g)
    BY ListingExists
  <2>2. g \in [1..Cardinality(S) -> S] /\ IsInjective(g)
    BY <2>1 DEF Listing, IsInjective
  <2>3. f \in [1..Cardinality(S) -> S] /\ IsInjective(f)
    BY <1>2, <2>2 DEF SetToSeq
  <2> QED
    BY <1>1, <2>3 DEF IsInjective
<1>4. ASSUME NEW x \in S, \A i \in 1..n : f[i] # x PROVE FALSE
  <2>1. f \in [1..n -> S \ {x}]
    BY <1>3, <1>4
  <2>2. IsFiniteSet(S \ {x}) /\ Cardinality(S \ {x}) = n - 1
    BY <1>1, FS_RemoveElement
  <2>3. IsFiniteSet(1..n) /\ Cardinality(1..n) = n
    BY <1>1, FS_Interval
  <2>4. Cardinality(S \ {x}) < Cardinality(1..n)
    BY <1>1, <2>2, <2>3
  <2>5. \E i, j \in 1..n : i # j /\ f[i] = f[j]
    BY <2>1, <2>2, <2>3, <2>4, FS_PigeonHole
  <2> QED
    BY <1>3, <2>5
<1>5. f \in Seq(S) /\ Len(f) = n
  BY <1>1, <1>3
<1> QED
  BY <1>2, <1>4, <1>5

\* A number of confirmations that block b had at a moment of the query.
OfMoment(q, b, c) ==
  /\ c \in Int /\ c >= 1 /\ c >= Len(q.start) - (Len(Path[b]) - 1)
  /\ c <= Len(currentChain) - (Len(Path[b]) - 1)

LoadingOK(q) ==
  LET b == q.hashes[1] IN
  /\ b \in DOMAIN blocks /\ q.info.index = b - 1 /\ q.info.height = Len(Path[b]) - 1
  /\ q.info.longestChain <=> OnChain(b)

\* Of the blocks that are still to be looked up, those of the main chain are of
\* the chain that the transaction was loaded for.
LinksOK(q) ==
  /\ q.links \in Seq(Nat)
  /\ \A i \in 1..Len(q.links) :
       /\ q.links[i] \in DOMAIN blocks /\ Has(q.links[i], "shared")
       /\ OnChain(q.links[i]) => q.was
ToConvert(q) == \E i \in 1..Len(q.links) : OnChain(q.links[i])

BlockAnswered(q, a) ==
  /\ a.of \in DOMAIN blocks /\ (a.main <=> OnChain(a.of))
  /\ a.main => OfMoment(q, a.of, a.confirmations)
TxAnswered(q, a) ==
  /\ a.main => /\ q.was
               /\ \E i \in 1..Len(currentChain) :
                    /\ Has(currentChain[i], "shared")
                    /\ OfMoment(q, currentChain[i], a.confirmations)
  /\ ~a.main /\ q.was => q.pc = "convert" /\ ToConvert(q)
Answer(q, a) == IF a.of # Shared THEN BlockAnswered(q, a) ELSE TxAnswered(q, a)

AnswersSound(q) ==
  /\ q.pc = "load" => LoadingOK(q)
  /\ q.pc = "convert" => LinksOK(q)
  /\ \A a \in q.answers : Answer(q, a)

AnswersOK == Undisturbed /\ ~query.raced => AnswersSound(query)

\* What is known of a block with a number of confirmations read now.
LEMMA ConfirmedNow ==
  ASSUME LoopInv, QueryTyped, pc # "rebuild", Begun(query.start, currentChain),
         NEW q, q.start = query.start, NEW b \in DOMAIN blocks
  PROVE  /\ blocks[b].height = Len(Path[b]) - 1 /\ b # Shared
         /\ OnChain(b) =>
              \E i \in 1..Len(currentChain) :
                currentChain[i] = b /\ OfMoment(q, b, Len(currentChain) - blocks[b].height)
<1>1. b \in 1..Len(dbBlocks) /\ b \in Hash
  BY TreeFacts DEF LoopInv, Inv, TypeOK
<1>2. /\ Len(Path[b]) \in Nat \ {0} /\ blocks[b].height = Len(Path[b]) - 1
  BY <1>1, HeightIsLength DEF LoopInv, Inv, TreeOK
<1>3. b # Shared
  BY <1>1, ConstantsAssumption DEF Shared, Hash
<1>4. ASSUME NEW i \in 1..Len(currentChain), currentChain[i] = b
      PROVE  OfMoment(q, b, Len(currentChain) - blocks[b].height)
  <2>1. blocks[b].height = i - 1
    BY <1>4, ChainBlocks
  <2>2. Len(query.start) \in Nat /\ Len(currentChain) \in Nat /\ Len(query.start) <= Len(currentChain)
    BY ChainLengths DEF Begun
  <2> QED
    BY <1>2, <2>1, <2>2 DEF OfMoment
<1> QED
  BY <1>2, <1>3, <1>4 DEF OnChain

\* A step of a query that loads no block and converts nothing.
LEMMA AnswersUnchanged ==
  ASSUME UNCHANGED <<vars, rpcVars>>, NEW p, NEW q,
         AnswersSound(p), p.pc # "convert",
         q.answers = p.answers, q.was = p.was, q.start = p.start,
         q.pc \notin {"load", "convert"}
  PROVE  AnswersSound(q)
  BY DEF AnswersSound, Answer, BlockAnswered, TxAnswered, OfMoment

LEMMA AnswersSame ==
  ASSUME UNCHANGED <<vars, rpcVars>>, NEW q
  PROVE  AnswersSound(q)' <=> AnswersSound(q)
<1>1. UNCHANGED <<blocks, currentChain, contents, file>>
  BY DEF vars, memVars, rpcVars
<1>2. Path' = Path
  BY <1>1 DEF Path
<1>3. \A b : OnChain(b)' <=> OnChain(b)
  BY <1>1 DEF OnChain
<1>4. ToConvert(q)' <=> ToConvert(q)
  BY <1>3 DEF ToConvert
<1>5. LinksOK(q)' <=> LinksOK(q)
  BY <1>1, <1>3 DEF LinksOK, Has
<1>6. LoadingOK(q)' <=> LoadingOK(q)
  BY <1>1, <1>2, <1>3 DEF LoadingOK
<1>7. \A a : BlockAnswered(q, a)' <=> BlockAnswered(q, a)
  BY <1>1, <1>2, <1>3 DEF BlockAnswered, OfMoment
<1>8. \A a : TxAnswered(q, a)' <=> TxAnswered(q, a)
  BY <1>1, <1>2, <1>4 DEF TxAnswered, OfMoment, Has
<1>9. \A a : Answer(q, a)' <=> Answer(q, a)
  BY <1>7, <1>8 DEF Answer, Shared
<1> QED
  BY <1>5, <1>6, <1>9 DEF AnswersSound

\* Who holds the lock sees the marks of the main chain, unless it is misled.
LEMMA MarksTrue ==
  ASSUME LoopInv, LockFree, ~Misled
  PROVE  \A b \in DOMAIN blocks : blocks[b].longestChain <=> OnChain(b)
  BY DEF LoopInv, FlagsOK, Flagged, LockFree, Misled, OnChain

LEMMA FoundSound ==
  ASSUME LoopInv, QueryTyped, CalmOK, Undisturbed, AnswersSound(query), FindBlock
  PROVE  AnswersSound(query')
<1>1. PICK q : q = query'
  OBVIOUS
<1>2. /\ LockFree /\ query.pc = "find" /\ UNCHANGED <<vars, rpcVars>>
      /\ IF query.hashes[1] \in DOMAIN blocks
         THEN q = [query EXCEPT !.pc = "load", !.info = blocks[query.hashes[1]]]
         ELSE q = [query EXCEPT !.pc = "done"]
  BY <1>1 DEF FindBlock, Steps, Becomes
<1>3. /\ q.answers = query.answers /\ q.was = query.was /\ q.start = query.start
      /\ q.hashes = query.hashes
      /\ \/ q.pc = "done"
         \/ /\ q.pc = "load" /\ query.hashes[1] \in DOMAIN blocks
            /\ q.info = blocks[query.hashes[1]]
  BY <1>2 DEF QueryTyped, Fields
<1>4. q.pc = "load" => LoadingOK(q)
  <2> SUFFICES ASSUME q.pc = "load" PROVE LoadingOK(q)
    OBVIOUS
  <2>1. PICK b : b = query.hashes[1] /\ b \in DOMAIN blocks /\ q.info = blocks[b]
    BY <1>3
  <2>2. ~Misled /\ pc # "rebuild" /\ Begun(query.start, currentChain)
    BY <1>2 DEF CalmOK
  <2>3. blocks[b].height = Len(Path[b]) - 1
    BY <2>1, <2>2, ConfirmedNow
  <2>4. blocks[b].index = b - 1
    BY <2>1 DEF LoopInv, Inv, TreeOK
  <2> QED
    BY <1>2, <1>3, <2>1, <2>2, <2>3, <2>4, MarksTrue DEF LoadingOK
<1>5. \A a \in q.answers : Answer(q, a)
  BY <1>2, <1>3 DEF AnswersSound, Answer, BlockAnswered, TxAnswered, OfMoment
<1> QED
  BY <1>1, <1>3, <1>4, <1>5 DEF AnswersSound

LEMMA LoadedSound ==
  ASSUME LoopInv, QueryTyped, CalmOK, Undisturbed, AnswersSound(query), LoadBlock,
         ~query'.raced
  PROVE  AnswersSound(query')
<1>1. PICK q : q = query'
  OBVIOUS
<1>2. PICK b : b = query.hashes[1] /\ b \in DOMAIN blocks /\ query.info.index = b - 1
               /\ query.info.height = Len(Path[b]) - 1
               /\ (query.info.longestChain <=> OnChain(b))
  BY DEF AnswersSound, LoadingOK, LoadBlock, Steps
<1>3. dbBlocks[query.info.index + 1].hash = b
  <2>1. b \in 1..Len(dbBlocks) /\ Len(dbBlocks) \in Nat
    BY <1>2, TreeFacts, TipLengths DEF LoopInv, Inv
  <2>2. dbBlocks[b].hash = b
    BY <2>1 DEF LoopInv, Inv, IndexedOnce, RecordsOfFiles, RecordsUpTo, RecordOf
  <2>3. query.info.index + 1 = b
    BY <1>2, <2>1
  <2> QED
    BY <2>2, <2>3
<1>4. PICK size, hs, at :
        /\ size \in SizesSeen /\ at \in {"links", "find", "done"}
        /\ q = Raced(AnswerWith([query EXCEPT !.hashes = hs, !.pc = at],
                                b, query.info.longestChain, size - query.info.height))
  BY <1>1, <1>3 DEF LoadBlock, Becomes
<1>5. PICK a : a = [of |-> b, main |-> query.info.longestChain,
                    confirmations |-> size - query.info.height]
  OBVIOUS
<1>6. /\ q.pc = at /\ query.pc = "load" /\ q.was = query.was /\ q.start = query.start
      /\ q.answers = query.answers \cup {a} /\ (q.raced <=> query.raced \/ ~LockFree)
  BY <1>4, <1>5 DEF AnswerWith, Raced, QueryTyped, Fields, LoadBlock, Steps
<1>7. LockFree /\ size = Len(currentChain)
  BY <1>1, <1>4, <1>6 DEF SizesSeen
<1>8. pc # "rebuild" /\ Begun(query.start, currentChain)
  BY <1>7 DEF LockFree, CalmOK
<1>9. Answer(q, a)
  <2>1. /\ blocks[b].height = Len(Path[b]) - 1 /\ b # Shared
        /\ OnChain(b) => OfMoment(q, b, Len(currentChain) - blocks[b].height)
    BY <1>2, <1>6, <1>8, ConfirmedNow
  <2>2. /\ a.of = b /\ (a.main <=> OnChain(b))
        /\ a.confirmations = Len(currentChain) - blocks[b].height
    BY <1>2, <1>5, <1>7, <2>1
  <2> QED
    BY <1>2, <2>1, <2>2 DEF Answer, BlockAnswered
<1>10. \A e \in query.answers : Answer(q, e)
  BY <1>6 DEF AnswersSound, Answer, BlockAnswered, TxAnswered, OfMoment
<1> QED
  BY <1>1, <1>4, <1>6, <1>9, <1>10 DEF AnswersSound

LEMMA LinkedSound ==
  ASSUME LoopInv, QueryTyped, CalmOK, Undisturbed, AnswersSound(query), LoadLinks
  PROVE  AnswersSound(query')
<1>1. PICK q : q = query'
  OBVIOUS
<1>2. PICK links, was :
        /\ links = SetToSeq(LinkedBlocks)
        /\ was = (~query.disturbed /\ OnPath(currentChain, "shared"))
  OBVIOUS
<1>3. PICK a : a = [of |-> Shared, main |-> FALSE, confirmations |-> 0]
  OBVIOUS
<1>4. /\ q.pc = "convert" /\ query.pc = "links" /\ q.links = links
      /\ q.was <=> OnPath(currentChain, "shared")
      /\ q.answers = query.answers \cup {a} /\ q.start = query.start
  <2>1. q = AnswerWith([query EXCEPT !.pc = "convert", !.links = links, !.was = was],
                       Shared, FALSE, 0) /\ query.pc = "links"
    BY <1>1, <1>2 DEF LoadLinks, Steps, Becomes
  <2>2. /\ q.pc = "convert" /\ q.links = links /\ q.was = was
        /\ q.answers = query.answers \cup {a} /\ q.start = query.start
    BY <1>3, <2>1 DEF AnswerWith, QueryTyped, Fields
  <2>3. was <=> OnPath(currentChain, "shared")
    BY <1>2 DEF Undisturbed
  <2> QED
    BY <2>1, <2>2, <2>3
<1>5. pc \notin {"down", "restore", "rebuild"}
  BY DEF CalmOK, Undisturbed
<1>6. /\ DOMAIN blocks = 1..Len(dbBlocks) /\ Len(dbBlocks) \in Nat
      /\ \A i \in 1..Len(dbBlocks) : dbBlocks[i].hash = i
  BY <1>5, TreeFacts, TipLengths DEF LoopInv, Inv, TypeOK, IndexedOnce, RecordsOfFiles, RecordsUpTo, RecordOf
<1>7. LinkedBlocks = {b \in DOMAIN blocks : Has(b, "shared")}
  BY <1>6 DEF LinkedBlocks
<1>8. IsFiniteSet(LinkedBlocks)
  <2>1. IsFiniteSet(1..Len(dbBlocks))
    BY <1>6, FS_Interval
  <2> QED
    BY <2>1, FS_Subset DEF LinkedBlocks
<1>9. /\ links \in Seq(LinkedBlocks)
      /\ \A x \in LinkedBlocks : \E i \in 1..Len(links) : links[i] = x
  BY <1>2, <1>8, SetAsSequence
<1>10. \A i \in 1..Len(links) : links[i] \in LinkedBlocks
  BY <1>9
<1>11. LinksOK(q)
  <2>1. links \in Seq(Nat)
    <3>1. LinkedBlocks \subseteq Nat
      BY <1>6 DEF LinkedBlocks
    <3>2. Len(links) \in Nat /\ links \in [1..Len(links) -> LinkedBlocks]
      BY <1>9
    <3>3. links \in [1..Len(links) -> Nat]
      BY <3>1, <3>2
    <3> QED
      BY <3>2, <3>3
  <2>2. \A b : OnChain(b) /\ Has(b, "shared") => q.was
    BY <1>2, <1>4 DEF OnPath, OnChain, Has
  <2> QED
    BY <1>4, <1>7, <1>10, <2>1, <2>2 DEF LinksOK
<1>12. q.was => ToConvert(q)
  <2> SUFFICES ASSUME q.was PROVE ToConvert(q)
    OBVIOUS
  <2>1. PICK k \in 1..Len(currentChain) : Has(currentChain[k], "shared")
    BY <1>2, <1>4 DEF OnPath
  <2>2. currentChain[k] \in DOMAIN blocks
    BY <1>5, ChainBlocks
  <2>3. PICK i \in 1..Len(links) : links[i] = currentChain[k]
    BY <1>7, <1>9, <2>1, <2>2
  <2> QED
    BY <1>4, <2>3 DEF ToConvert, OnChain
<1>13. ASSUME NEW e \in q.answers PROVE Answer(q, e)
  <2>1. CASE e = a
    <3>1. e.of = Shared /\ ~e.main
      BY <1>3, <2>1
    <3> QED
      BY <1>4, <1>12, <3>1 DEF Answer, TxAnswered
  <2>2. CASE e \in query.answers
    <3>1. Answer(query, e)
      BY <2>2 DEF AnswersSound
    <3>2. CASE e.of # Shared
      BY <1>4, <3>1, <3>2 DEF Answer, BlockAnswered, OfMoment
    <3>3. CASE e.of = Shared
      <4>1. TxAnswered(query, e)
        BY <3>1, <3>3 DEF Answer
      <4>2. e.main => \E i \in 1..Len(currentChain) :
                        /\ Has(currentChain[i], "shared")
                        /\ OfMoment(q, currentChain[i], e.confirmations)
        BY <1>4, <4>1 DEF TxAnswered, OfMoment
      <4>3. e.main => q.was
        BY <1>2, <1>4, <4>2 DEF OnPath
      <4> QED
        BY <1>4, <1>12, <3>3, <4>2, <4>3 DEF Answer, TxAnswered
    <3> QED
      BY <3>2, <3>3
  <2> QED
    BY <1>4, <2>1, <2>2
<1> QED
  BY <1>1, <1>4, <1>11, <1>13 DEF AnswersSound

LEMMA LinkSound ==
  ASSUME LoopInv, QueryTyped, CalmOK, Undisturbed, AnswersSound(query), ConvertLink
  PROVE  AnswersSound(query')
<1>1. PICK q, b : q = query' /\ b = query.links[1]
  OBVIOUS
<1>2. /\ query.pc = "convert" /\ query.links # <<>> /\ LockFree /\ LinksOK(query)
  BY DEF ConvertLink, Steps, AnswersSound
<1>3. /\ query.links \in Seq(Nat) /\ b \in DOMAIN blocks /\ Has(b, "shared")
      /\ OnChain(b) => query.was
      /\ \A i \in 1..Len(query.links) :
           /\ query.links[i] \in DOMAIN blocks /\ Has(query.links[i], "shared")
           /\ OnChain(query.links[i]) => query.was
  BY <1>1, <1>2 DEF LinksOK
<1>4. blockIds[b] = b
  BY <1>2, <1>3 DEF LockFree, LoopInv, Inv, TreeOK, InCommit
<1>5. blocks[b].longestChain <=> OnChain(b)
  BY <1>2, <1>3, MarksTrue DEF CalmOK
<1>6. PICK rest : rest = Tail(query.links)
  OBVIOUS
<1>7. /\ rest = Tail(query.links) /\ rest \in Seq(Nat)
      /\ \A i \in 1..Len(rest) : \E j \in 1..Len(query.links) : rest[i] = query.links[j]
      /\ \A j \in 1..Len(query.links) :
           j = 1 \/ \E i \in 1..Len(rest) : rest[i] = query.links[j]
  <2>1. /\ rest \in Seq(Nat) /\ Len(rest) = Len(query.links) - 1 /\ Len(query.links) \in Nat
        /\ \A i \in 1..Len(rest) : rest[i] = query.links[i + 1]
    BY <1>2, <1>3, <1>6
  <2>2. \A i \in 1..Len(rest) : i + 1 \in 1..Len(query.links)
    BY <2>1
  <2>3. \A j \in 1..Len(query.links) :
          j = 1 \/ (j - 1 \in 1..Len(rest) /\ rest[j - 1] = query.links[j])
    BY <2>1
  <2>4. \A i \in 1..Len(rest) : \E j \in 1..Len(query.links) : rest[i] = query.links[j]
    BY <2>1, <2>2
  <2>5. \A j \in 1..Len(query.links) :
          j = 1 \/ \E i \in 1..Len(rest) : rest[i] = query.links[j]
    BY <2>3
  <2> QED
    BY <1>6, <2>1, <2>4, <2>5
<1>8. ASSUME q.links = rest, q.was = query.was, q.pc = "convert" PROVE LinksOK(q)
  <2>1. ASSUME NEW i \in 1..Len(rest)
        PROVE  /\ rest[i] \in DOMAIN blocks /\ Has(rest[i], "shared")
               /\ OnChain(rest[i]) => query.was
    <3>1. PICK j \in 1..Len(query.links) : rest[i] = query.links[j]
      BY <1>7
    <3> QED
      BY <1>3, <3>1
  <2> QED
    BY <1>7, <1>8, <2>1 DEF LinksOK
<1>9. CASE OnChain(b)
  <2>1. PICK a : a = [of |-> Shared, main |-> TRUE, confirmations |-> FromSize(b)]
    OBVIOUS
  <2>2. q = AnswerWith([[query EXCEPT !.links = rest] EXCEPT
                           !.answers = {e \in @ : e.of # Shared}], Shared, TRUE, FromSize(b))
    BY <1>1, <1>3, <1>4, <1>5, <1>7, <1>9 DEF ConvertLink, Becomes
  <2>3. /\ q.pc = "convert" /\ q.links = rest /\ q.was = query.was /\ q.start = query.start
        /\ q.answers = {e \in query.answers : e.of # Shared} \cup {a}
    BY <1>2, <2>1, <2>2 DEF AnswerWith, QueryTyped, Fields
  <2>4. Answer(q, a)
    <3>1. pc # "rebuild" /\ Begun(query.start, currentChain)
      BY <1>2 DEF LockFree, CalmOK
    <3>2. PICK i \in 1..Len(currentChain) :
            currentChain[i] = b /\ OfMoment(q, b, Len(currentChain) - blocks[b].height)
      BY <1>3, <1>9, <2>3, <3>1, ConfirmedNow
    <3>3. a.of = Shared /\ a.main /\ a.confirmations = Len(currentChain) - blocks[b].height
      BY <2>1 DEF FromSize
    <3> QED
      BY <1>3, <1>9, <2>3, <3>2, <3>3 DEF Answer, TxAnswered
  <2>5. \A e \in query.answers : e.of # Shared => Answer(q, e)
    BY <2>3 DEF AnswersSound, Answer, BlockAnswered, OfMoment
  <2> QED
    BY <1>1, <1>8, <2>3, <2>4, <2>5 DEF AnswersSound
<1>10. CASE ~OnChain(b)
  <2>1. q = [query EXCEPT !.links = rest]
    BY <1>1, <1>3, <1>4, <1>5, <1>7, <1>10 DEF ConvertLink, Becomes
  <2>2. /\ q.pc = "convert" /\ q.links = rest /\ q.was = query.was /\ q.start = query.start
        /\ q.answers = query.answers
    BY <1>2, <2>1 DEF QueryTyped, Fields
  <2>3. ToConvert(query) => ToConvert(q)
    BY <1>1, <1>7, <1>10, <2>2 DEF ToConvert
  <2>4. \A e \in query.answers : Answer(q, e)
    BY <2>2, <2>3 DEF AnswersSound, Answer, BlockAnswered, TxAnswered, OfMoment
  <2> QED
    BY <1>1, <1>8, <2>2, <2>4 DEF AnswersSound
<1> QED
  BY <1>9, <1>10

LEMMA ConvertedSound ==
  ASSUME QueryTyped, AnswersSound(query), Converted
  PROVE  AnswersSound(query')
<1>1. PICK q : q = query'
  OBVIOUS
<1>2. /\ q.answers = query.answers /\ q.was = query.was /\ q.start = query.start
      /\ q.pc \notin {"load", "convert"} /\ query.links = <<>>
  BY <1>1 DEF Converted, Becomes, QueryTyped, Fields
<1>3. ~ToConvert(query)
  BY <1>2 DEF ToConvert
<1> QED
  BY <1>1, <1>2, <1>3 DEF AnswersSound, Answer, BlockAnswered, TxAnswered, OfMoment

LEMMA OperationSound ==
  ASSUME LoopInv, QueryTyped, CalmOK, Undisturbed, AnswersSound(query), ConfirmOperation
  PROVE  AnswersSound(query')
<1>1. PICK q, b, hs : q = query' /\ b = query.hashes[1] /\ hs = Tail(query.hashes)
  OBVIOUS
<1>2. query.pc = "confirm" /\ LockFree
  BY DEF ConfirmOperation, Steps
<1>3. ASSUME NEW e \in query.answers, q.start = query.start, q.was = query.was
      PROVE  Answer(q, e)
  BY <1>2, <1>3 DEF AnswersSound, Answer, BlockAnswered, TxAnswered, OfMoment
<1>4. CASE b \in DOMAIN blocks
  <2>1. PICK a : a = [of |-> b, main |-> blocks[b].longestChain, confirmations |-> FromSize(b)]
    OBVIOUS
  <2>2. q = AnswerWith([query EXCEPT !.hashes = hs], b, blocks[b].longestChain, FromSize(b))
    BY <1>1, <1>4 DEF ConfirmOperation, Becomes
  <2>3. /\ q.pc = "confirm" /\ q.was = query.was /\ q.start = query.start
        /\ q.answers = query.answers \cup {a}
    BY <1>2, <2>1, <2>2 DEF AnswerWith, QueryTyped, Fields
  <2>4. ~Misled /\ pc # "rebuild" /\ Begun(query.start, currentChain)
    BY <1>2 DEF LockFree, CalmOK
  <2>5. a.main <=> OnChain(b)
    BY <1>2, <1>4, <2>1, <2>4, MarksTrue
  <2>6. /\ b # Shared
        /\ OnChain(b) => OfMoment(q, b, Len(currentChain) - blocks[b].height)
    BY <1>4, <2>3, <2>4, ConfirmedNow
  <2>7. Answer(q, a)
    BY <1>4, <2>1, <2>5, <2>6 DEF Answer, BlockAnswered, FromSize
  <2> QED
    BY <1>1, <1>3, <2>3, <2>7 DEF AnswersSound
<1>5. CASE b \notin DOMAIN blocks
  <2>1. q = [query EXCEPT !.hashes = hs]
    BY <1>1, <1>5 DEF ConfirmOperation, Becomes
  <2>2. /\ q.pc = "confirm" /\ q.was = query.was /\ q.start = query.start
        /\ q.answers = query.answers
    BY <1>2, <2>1 DEF QueryTyped, Fields
  <2> QED
    BY <1>1, <1>3, <2>2 DEF AnswersSound
<1> QED
  BY <1>4, <1>5

LEMMA AnswersHandled ==
  ASSUME LoopInv, QueryTyped, CalmOK, Undisturbed, AnswersSound(query), Handles,
         ~query'.raced
  PROVE  AnswersSound(query')
<1>1. CASE Confirmed \/ GetPage \/ Scan \/ AddLive \/ CollectOutputs \/ AddPending
  <2>1. PICK q : q = query'
    OBVIOUS
  <2>2. /\ query.pc # "convert" /\ q.answers = query.answers /\ q.was = query.was
        /\ q.start = query.start /\ q.pc \notin {"load", "convert"}
    <3>1. CASE Confirmed \/ GetPage
      BY <2>1, <3>1 DEF Confirmed, GetPage, Steps, Becomes, QueryTyped, Fields
    <3>2. CASE Scan
      BY <2>1, <3>2 DEF Scan, Steps, Becomes, QueryTyped, Fields
    <3>3. CASE AddLive
      BY <2>1, <3>3 DEF AddLive, Steps, Becomes, QueryTyped, Fields
    <3>4. CASE CollectOutputs
      BY <2>1, <3>4 DEF CollectOutputs, Steps, Becomes, Raced, QueryTyped, Fields
    <3>5. CASE AddPending
      BY <2>1, <3>5 DEF AddPending, Steps, Becomes, QueryTyped, Fields
    <3> QED
      BY <1>1, <3>1, <3>2, <3>3, <3>4, <3>5
  <2>3. UNCHANGED <<vars, rpcVars>>
    BY HandlesKeeps
  <2> QED
    BY <2>1, <2>2, <2>3, AnswersUnchanged
<1> QED
  BY <1>1, FoundSound, LoadedSound, LinkedSound, LinkSound, ConvertedSound, OperationSound
     DEF Handles

\* A chain that has grown, with what is known of its blocks: no answer becomes
\* wrong.
ChainGrows ==
  /\ DOMAIN blocks \subseteq DOMAIN blocks' /\ Begun(currentChain, currentChain')
  /\ Len(currentChain') \in Nat
  /\ \A b \in DOMAIN blocks :
       /\ OnChain(b)' <=> OnChain(b)
       /\ Path'[b] = Path[b] /\ contents'[b] = contents[b]

LEMMA AnswersGrow ==
  ASSUME LoopInv, ChainGrows, pc # "rebuild",
         NEW p, NEW q, AnswersSound(p), Len(p.start) \in Nat,
         q.pc = p.pc, q.hashes = p.hashes, q.info = p.info, q.links = p.links,
         q.was = p.was, q.answers = p.answers, q.start = p.start
  PROVE  AnswersSound(q)'
<1>1. /\ DOMAIN blocks \subseteq DOMAIN blocks' /\ Begun(currentChain, currentChain')
      /\ Len(currentChain) \in Nat /\ Len(currentChain') \in Nat
      /\ \A b \in DOMAIN blocks : /\ OnChain(b)' <=> OnChain(b)
                                  /\ Path'[b] = Path[b] /\ contents'[b] = contents[b]
  BY Lengths DEF ChainGrows, LoopInv, Inv, TypeOK
<1>2. ASSUME NEW b \in DOMAIN blocks, NEW c, OfMoment(p, b, c) PROVE OfMoment(q, b, c)'
  <2>1. b \in 1..Len(dbBlocks)
    BY TreeFacts DEF LoopInv, Inv
  <2>2. Len(Path[b]) \in Nat
    BY <2>1, HeightIsLength DEF LoopInv
  <2>3. Len(currentChain) <= Len(currentChain')
    BY <1>1 DEF Begun
  <2> QED
    BY <1>1, <1>2, <2>2, <2>3 DEF OfMoment
<1>3. \A b \in DOMAIN blocks : Has(b, "shared")' <=> Has(b, "shared")
  BY <1>1 DEF Has
<1>4. ASSUME p.pc = "load" PROVE LoadingOK(q)'
  <2>1. LoadingOK(p)
    BY <1>4 DEF AnswersSound
  <2> QED
    BY <1>1, <2>1 DEF LoadingOK
<1>5. ASSUME p.pc = "convert" PROVE LinksOK(q)'
  <2>1. LinksOK(p)
    BY <1>5 DEF AnswersSound
  <2>2. ASSUME NEW i \in 1..Len(q.links)
        PROVE  /\ q.links[i] \in DOMAIN blocks' /\ Has(q.links[i], "shared")'
               /\ OnChain(q.links[i])' => q.was
    <3>1. PICK b : b = q.links[i]
      OBVIOUS
    <3>2. b \in DOMAIN blocks /\ Has(b, "shared") /\ (OnChain(b) => q.was)
      BY <2>1, <3>1 DEF LinksOK
    <3>3. b \in DOMAIN blocks' /\ Has(b, "shared")' /\ (OnChain(b)' => q.was)
      BY <1>1, <1>3, <3>2
    <3> QED
      BY <3>1, <3>3
  <2> QED
    BY <2>1, <2>2 DEF LinksOK
<1>6. ASSUME NEW a \in q.answers PROVE Answer(q, a)'
  <2>1. Answer(p, a)
    BY <1>6 DEF AnswersSound
  <2>2. CASE a.of # Shared
    <3>1. PICK b, c : b = a.of /\ c = a.confirmations
      OBVIOUS
    <3>2. b \in DOMAIN blocks /\ (a.main <=> OnChain(b)) /\ (a.main => OfMoment(p, b, c))
      BY <2>1, <2>2, <3>1 DEF Answer, BlockAnswered
    <3>3. b \in DOMAIN blocks' /\ (a.main <=> OnChain(b)') /\ (a.main => OfMoment(q, b, c)')
      BY <1>1, <1>2, <3>2
    <3>4. BlockAnswered(q, a)'
      BY <3>1, <3>3 DEF BlockAnswered
    <3> QED
      BY <2>2, <3>4 DEF Answer, Shared
  <2>3. CASE a.of = Shared
    <3>1. TxAnswered(p, a)
      BY <2>1, <2>3 DEF Answer
    <3>2. ASSUME a.main
          PROVE  q.was /\ (\E i \in 1..Len(currentChain) :
                             /\ Has(currentChain[i], "shared")
                             /\ OfMoment(q, currentChain[i], a.confirmations))'
      <4>1. PICK i, b, c :
              /\ i \in 1..Len(currentChain) /\ b = currentChain[i] /\ c = a.confirmations /\ q.was
              /\ Has(b, "shared") /\ OfMoment(p, b, c)
        BY <3>1, <3>2 DEF TxAnswered
      <4>2. b \in DOMAIN blocks
        BY <4>1, ChainBlocks
      <4>3. i \in 1..Len(currentChain') /\ currentChain'[i] = b
        BY <1>1, <4>1 DEF Begun
      <4>4. Has(b, "shared")' /\ OfMoment(q, b, c)'
        BY <1>2, <1>3, <4>1, <4>2
      <4> QED
        BY <4>1, <4>3, <4>4 DEF Has, OfMoment
    <3>3. ASSUME ~a.main, q.was PROVE q.pc = "convert" /\ ToConvert(q)'
      <4>1. p.pc = "convert" /\ ToConvert(p) /\ LinksOK(p)
        BY <3>1, <3>3 DEF TxAnswered, AnswersSound
      <4>2. PICK i, b : i \in 1..Len(q.links) /\ b = q.links[i] /\ OnChain(b)
        BY <4>1 DEF ToConvert
      <4>3. b \in DOMAIN blocks
        BY <4>1, <4>2 DEF LinksOK
      <4>4. OnChain(b)'
        BY <1>1, <4>2, <4>3
      <4>5. ToConvert(q)'
        BY <4>2, <4>4 DEF ToConvert
      <4> QED
        BY <4>1, <4>5
    <3>4. TxAnswered(q, a)'
      BY <3>2, <3>3 DEF TxAnswered
    <3> QED
      BY <2>3, <3>4 DEF Answer, Shared
  <2> QED
    BY <2>2, <2>3
<1> QED
  BY <1>4, <1>5, <1>6 DEF AnswersSound

LEMMA GrowsMeanwhile ==
  ASSUME LoopInv, LoopInv', QueryTyped, CalmOK, ContentsOK, Undisturbed, RpcNext,
         Others \/ Commits
  PROVE  ChainGrows
<1>1. Len(currentChain') \in Nat /\ Len(currentChain) \in Nat
  BY ChainLength, ChainLengthNext DEF ChainHasLength
<1>2. /\ file' = file \/ BlockArrives
      /\ DOMAIN blocks \subseteq DOMAIN blocks' /\ Begun(currentChain, currentChain')
      /\ \A b \in DOMAIN blocks : OnChain(b)' <=> OnChain(b)
  <2>1. CASE Others
    <3>1. currentChain' = currentChain /\ DOMAIN blocks' = DOMAIN blocks
      BY <2>1, OthersLeave
    <3>2. file' = file \/ BlockArrives
      BY <2>1, OthersLeave
    <3> QED
      BY <1>1, <3>1, <3>2 DEF Begun, OnChain
  <2>2. CASE Commits
    BY <2>2, CommitLeaves DEF Commits
  <2> QED
    BY <2>1, <2>2
<1>3. \A b \in DOMAIN blocks : b \in 1..Len(file)
  BY TreeFacts DEF LoopInv
<1>4. Len(file) \in Nat /\ \A b \in 1..Len(file) : b \in 0..Len(file)
  BY TipLengths DEF LoopInv
<1>5. \A b \in 0..Len(file) : Path'[b] = Path[b]
  BY <1>2, HistoryKept DEF LoopInv, Inv
<1>6. \A b \in 1..Len(file) : contents'[b] = contents[b]
  BY ContentsNext DEF LoopInv
<1> QED
  BY <1>1, <1>2, <1>3, <1>4, <1>5, <1>6 DEF ChainGrows

LEMMA AnswersNext ==
  ASSUME LoopInv, LoopInv', QueryTyped, QueryTyped', CalmOK, ContentsOK, AnswersOK, RpcNext
  PROVE  AnswersOK'
<1>1. PICK q : q = query'
  OBVIOUS
<1>2. AnswersSound(q)' => AnswersSound(query)'
  BY <1>1 DEF AnswersSound, LoadingOK, LinksOK, Answer, BlockAnswered, TxAnswered, OfMoment,
    ToConvert, OnChain, Has
<1> SUFFICES ASSUME Undisturbed', ~q.raced PROVE AnswersSound(q)'
  BY <1>1, <1>2 DEF AnswersOK
<1> USE DEF Undisturbed
<1>3. CASE query' = NoQuery
  BY <1>3, NoQueryFields
<1>4. CASE Ask
  <2>1. PICK kind, at : AsksFor(q, kind, at)
    BY <1>1, <1>4, Asking
  <2>2. q.answers = {} /\ q.pc \notin {"load", "convert"}
    BY <2>1 DEF AsksFor
  <2> QED
    BY <2>2 DEF AnswersSound
<1>5. CASE Handles
  <2>1. UNCHANGED <<vars, rpcVars>> /\ KeepsQuestion(q) /\ query.pc # "idle"
    BY <1>1, <1>5, HandlesKeeps
  <2>2. Undisturbed /\ ~query.raced
    BY <1>1, <2>1 DEF KeepsQuestion
  <2>3. AnswersSound(query)
    BY <2>2 DEF AnswersOK
  <2>4. AnswersSound(q)
    BY <1>1, <1>5, <2>2, <2>3, AnswersHandled
  <2> QED
    BY <2>1, <2>4, AnswersSame
<1>6. CASE query.pc # "idle" /\ GoesOn(q) /\ (Others \/ Commits)
  <2>1. Undisturbed /\ ~query.raced
    BY <1>1, <1>6 DEF GoesOn, QueryTyped
  <2>2. AnswersSound(query) /\ pc # "rebuild"
    BY <2>1 DEF AnswersOK, CalmOK
  <2>3. ChainGrows
    BY <1>6, <2>1, GrowsMeanwhile
  <2>4. /\ q.pc = query.pc /\ q.hashes = query.hashes /\ q.info = query.info
        /\ q.links = query.links /\ q.was = query.was /\ q.answers = query.answers
        /\ q.start = query.start /\ Len(query.start) \in Nat
    BY <1>6, ChainLengths DEF GoesOn
  <2>5. PICK p : p = query
    OBVIOUS
  <2> QED
    BY <2>2, <2>3, <2>4, AnswersGrow
<1>7. CASE query.pc # "idle" /\ GoesOn(q) /\ q.disturbed
  BY <1>1, <1>7
<1> QED
  BY <1>1, <1>3, <1>4, <1>5, <1>6, <1>7, Meanwhile, RpcCases DEF Ends, Returns, NotPromised, Becomes

-----------------------------------------------------------------------------
(* The operations of a chain, and the value of its unspent outputs.        *)

\* What holds of the beginning and of a block whose parent it holds of, holds of
\* every block of the files.
LEMMA FileInduction ==
  ASSUME TypeOK, FileOrdered, NEW G, 0 \in G,
         \A h \in 1..Len(file) : file[h].previous \in G => h \in G
  PROVE  \A h \in 0..Len(file) : h \in G
<1> DEFINE Bad == {h \in 0..Len(file) : h \notin G}
<1>1. SUFFICES ASSUME Bad # {} PROVE FALSE
  OBVIOUS
<1>2. Bad \subseteq Nat
  OBVIOUS
<1>3. PICK m \in Bad : \A k \in Bad : m <= k
  <2> HIDE DEF Bad
  <2> QED
    BY <1>1, <1>2, LeastElement
<1>4. Len(file) \in Nat /\ m \in 1..Len(file) /\ m \notin G
  <2>1. m \in 0..Len(file) /\ m \notin G /\ m # 0
    BY <1>3
  <2> QED
    BY <2>1, Ancestry
<1>5. file[m].previous \in 0..Len(file) /\ ~(m <= file[m].previous)
  BY <1>4, Ancestry
<1>6. file[m].previous \notin Bad
  <2> HIDE DEF Bad
  <2> QED
    BY <1>3, <1>5
<1>7. file[m].previous \in G
  BY <1>5, <1>6
<1> QED
  BY <1>4, <1>7

\* Up to each of its blocks, a path is the path of that block.
LEMMA PathBeginning ==
  ASSUME TypeOK, FileOrdered, NEW h \in 0..Len(file), NEW n \in 1..Len(Path[h])
  PROVE  Path[Path[h][n]] = SubSeq(Path[h], 1, n)
<1> DEFINE G == {k \in 0..Len(file) :
                   \A i \in 1..Len(Path[k]) : Path[Path[k][i]] = SubSeq(Path[k], 1, i)}
<1>1. 0 \in G
  <2>1. Path[0] = <<>>
    BY RecursionsHold DEF Recursions
  <2> QED
    BY <2>1, Ancestry
<1>2. ASSUME NEW k \in 1..Len(file), file[k].previous \in G PROVE k \in G
  <2>1. PICK p, s, t : p = file[k].previous /\ s = Path[p] /\ t = Path[k]
    OBVIOUS
  <2>2. /\ p \in 0..Len(file) /\ k \in 0..Len(file) /\ k \in Nat
        /\ \A i \in 1..Len(s) : Path[s[i]] = SubSeq(s, 1, i)
    <3>1. p \in 0..Len(file) /\ \A i \in 1..Len(s) : Path[s[i]] = SubSeq(s, 1, i)
      BY <1>2, <2>1
    <3>2. k \in 0..Len(file) /\ k \in Nat
      BY Ancestry
    <3> QED
      BY <3>1, <3>2
  <2>3. s \in Seq(Nat) /\ t = Append(s, k)
    BY <2>1, <2>2, PathTypes, RecursionsHold DEF Recursions
  <2>4. ASSUME NEW i \in 1..Len(t) PROVE Path[t[i]] = SubSeq(t, 1, i)
    <3>1. CASE i = Len(t)
      <4>1. t \in Seq(Nat) /\ t[i] = k
        BY <2>2, <2>3, <3>1
      <4>2. SubSeq(t, 1, Len(t)) = t
        BY <4>1
      <4> QED
        BY <2>1, <3>1, <4>1, <4>2
    <3>2. CASE i # Len(t)
      <4>1. i \in 1..Len(s) /\ t[i] = s[i]
        BY <2>2, <2>3, <3>2
      <4>2. SubSeq(t, 1, i) = SubSeq(s, 1, i)
        BY <2>2, <2>3, <4>1
      <4> QED
        BY <2>2, <4>1, <4>2
    <3> QED
      BY <3>1, <3>2
  <2> QED
    BY <2>1, <2>2, <2>4
<1> HIDE DEF G
<1>3. h \in G
  BY <1>1, <1>2, FileInduction
<1> QED
  BY <1>3 DEF G

LEMMA OperationsSteps ==
  ASSUME TypeOK, FileOrdered
  PROVE  /\ OperationsOf[0] = <<>>
         /\ \A h \in 1..Len(file) : OperationsOf[h] = Recorded(h, OperationsOf[file[h].previous])
<1> DEFINE IsOps(f, n) ==
             f = [h \in 0..n |-> IF h = 0 THEN <<>> ELSE Recorded(h, f[file[h].previous])]
           Bad == {n \in 0..Len(file) : ~ \E f : IsOps(f, n)}
<1>1. /\ Len(file) \in Nat
      /\ \A k \in 1..Len(file) : file[k].previous \in 0..(k - 1)
  BY Ancestry
<1>2. Bad = {}
  <2> SUFFICES ASSUME Bad # {} PROVE FALSE
    OBVIOUS
  <2>1. Bad \subseteq Nat
    OBVIOUS
  <2>2. PICK m \in Bad : \A k \in Bad : m <= k
    <3> HIDE DEF Bad
    <3> QED
      BY <2>1, LeastElement
  <2>3. m \in 0..Len(file) /\ ~ \E f : IsOps(f, m)
    BY <2>2
  <2>4. CASE m = 0
    <3> DEFINE f == [h \in 0..0 |-> <<>>]
    <3>1. IsOps(f, 0)
      OBVIOUS
    <3> QED
      BY <2>3, <2>4, <3>1
  <2>5. CASE m # 0
    <3>1. m \in 1..Len(file) /\ m - 1 \in 0..Len(file) /\ m - 1 \notin Bad
      <4>1. m \in 1..Len(file) /\ m - 1 \in 0..Len(file) /\ ~(m <= m - 1)
        BY <1>1, <2>3, <2>5
      <4> HIDE DEF Bad
      <4> QED
        BY <2>2, <4>1
    <3>2. PICK f : IsOps(f, m - 1)
      BY <3>1
    <3> DEFINE g == [h \in 0..m |-> IF h = m THEN Recorded(m, f[file[m].previous]) ELSE f[h]]
    <3>3. \A h \in 0..m : g[h] = IF h = 0 THEN <<>> ELSE Recorded(h, g[file[h].previous])
      <4> SUFFICES ASSUME NEW h \in 0..m
                   PROVE  g[h] = IF h = 0 THEN <<>> ELSE Recorded(h, g[file[h].previous])
        OBVIOUS
      <4>1. CASE h = m
        <5>1. file[m].previous \in 0..m /\ file[m].previous # m
          BY <1>1, <3>1
        <5> QED
          BY <2>5, <4>1, <5>1
      <4>2. CASE h # m
        <5>1. h \in 0..(m - 1) /\ g[h] = f[h]
          BY <3>1, <4>2
        <5>2. f[h] = IF h = 0 THEN <<>> ELSE Recorded(h, f[file[h].previous])
          BY <3>2, <5>1
        <5>3. h # 0 => g[file[h].previous] = f[file[h].previous]
          BY <1>1, <3>1, <5>1
        <5> QED
          BY <5>1, <5>2, <5>3
      <4> QED
        BY <4>1, <4>2
    <3>4. IsOps(g, m)
      BY <3>3
    <3> QED
      BY <2>3, <3>4
  <2> QED
    BY <2>4, <2>5
<1>3. PICK f : IsOps(f, Len(file))
  BY <1>1, <1>2
<1>4. OperationsOf =
        [h \in 0..Len(file) |-> IF h = 0 THEN <<>> ELSE Recorded(h, OperationsOf[file[h].previous])]
  BY <1>3, Zenon DEF OperationsOf
<1> QED
  BY <1>1, <1>4

\* The value of outputs, one by one.
OutputValue(o) == IF o.of = Shared THEN 1 ELSE 2

LEMMA ValueOfNone == Value({}) = 0 /\ IsFiniteSet({})
<1>1. {o \in {} : o.of # Shared} = {} /\ {o \in {} : o.of = Shared} = {}
  OBVIOUS
<1>2. Cardinality({}) = 0 /\ IsFiniteSet({})
  BY FS_EmptySet
<1> QED
  BY <1>1, <1>2 DEF Value

LEMMA ValueAdded ==
  ASSUME NEW S, IsFiniteSet(S), NEW o, o \notin S
  PROVE  /\ IsFiniteSet(S \cup {o}) /\ Value(S) \in Nat
         /\ Value(S \cup {o}) = Value(S) + OutputValue(o)
<1>1. PICK A, B : A = {x \in S : x.of # Shared} /\ B = {x \in S : x.of = Shared}
  OBVIOUS
<1>2. IsFiniteSet(A) /\ IsFiniteSet(B) /\ o \notin A /\ o \notin B
  BY <1>1, FS_Subset
<1>3. Cardinality(A) \in Nat /\ Cardinality(B) \in Nat
  BY <1>2, FS_CardinalityType
<1>4. IsFiniteSet(S \cup {o})
  BY FS_AddElement
<1>5. Cardinality(A \cup {o}) = Cardinality(A) + 1 /\ Cardinality(B \cup {o}) = Cardinality(B) + 1
  BY <1>2, FS_AddElement
<1>6. Value(S) = 2 * Cardinality(A) + Cardinality(B)
  BY <1>1 DEF Value
<1>7. CASE o.of = Shared
  <2>1. /\ {x \in S \cup {o} : x.of # Shared} = A
        /\ {x \in S \cup {o} : x.of = Shared} = B \cup {o}
    BY <1>1, <1>7
  <2>2. Value(S \cup {o}) = 2 * Cardinality(A) + Cardinality(B \cup {o})
    BY <2>1 DEF Value
  <2> QED
    BY <1>3, <1>4, <1>5, <1>6, <1>7, <2>2 DEF OutputValue
<1>8. CASE o.of # Shared
  <2>1. /\ {x \in S \cup {o} : x.of # Shared} = A \cup {o}
        /\ {x \in S \cup {o} : x.of = Shared} = B
    BY <1>1, <1>8
  <2>2. Value(S \cup {o}) = 2 * Cardinality(A \cup {o}) + Cardinality(B)
    BY <2>1 DEF Value
  <2> QED
    BY <1>3, <1>4, <1>5, <1>6, <1>8, <2>2 DEF OutputValue
<1> QED
  BY <1>7, <1>8

LEMMA ValueRemoved ==
  ASSUME NEW S, IsFiniteSet(S), NEW o \in S
  PROVE  /\ IsFiniteSet(S \ {o}) /\ Value(S \ {o}) \in Nat
         /\ Value(S \ {o}) = Value(S) - OutputValue(o)
<1>1. PICK T : T = S \ {o}
  OBVIOUS
<1>2. IsFiniteSet(T) /\ o \notin T /\ T \cup {o} = S
  BY <1>1, FS_Subset
<1>3. Value(T) \in Nat /\ Value(S) = Value(T) + OutputValue(o)
  BY <1>2, ValueAdded
<1>4. OutputValue(o) \in Nat
  BY DEF OutputValue
<1> QED
  BY <1>1, <1>2, <1>3, <1>4

\* What is unspent when a block is added to a chain.
FirstOutput(s) == [of |-> s[1], height |-> 0]

LEMMA UnspentIs ==
  ASSUME NEW s, NEW o
  PROVE  o \in UnspentOn(s) <=>
           \E i \in 1..Len(s) :
             \/ /\ o = [of |-> s[i], height |-> i - 1]
                /\ Has(s[i], "own") /\ ~(OnPath(s, "shared") /\ i = 1)
             \/ o = [of |-> Shared, height |-> i - 1] /\ Has(s[i], "shared")
  BY DEF UnspentOn

LEMMA UnspentGrows ==
  ASSUME NEW s \in Seq(Nat), NEW h \in Nat, \A i \in 1..Len(s) : s[i] # Shared,
         Has(h, "shared") => ~OnPath(s, "shared") /\ s # <<>>, NEW t, t = Append(s, h)
  PROVE  UnspentOn(t) =
           ((IF Has(h, "shared") THEN UnspentOn(s) \ {FirstOutput(s)} ELSE UnspentOn(s))
              \cup (IF Has(h, "own") THEN {[of |-> h, height |-> Len(s)]} ELSE {}))
              \cup (IF Has(h, "shared") THEN {[of |-> Shared, height |-> Len(s)]} ELSE {})
<1>1. /\ Len(s) \in Nat /\ Len(t) = Len(s) + 1 /\ t[Len(s) + 1] = h
      /\ \A i \in 1..Len(s) : t[i] = s[i]
      /\ \A i \in 1..Len(t) : i \in 1..Len(s) \/ i = Len(s) + 1
      /\ \A i \in 1..Len(s) : i \in 1..Len(t)
      /\ Len(s) + 1 \in 1..Len(t)
  OBVIOUS
<1>2. OnPath(t, "shared") <=> OnPath(s, "shared") \/ Has(h, "shared")
  BY <1>1 DEF OnPath
<1>3. PICK n : n = Len(s) /\ n \in Nat
  BY <1>1
<1>4. ASSUME NEW o
      PROVE  o \in UnspentOn(t) <=>
               \/ o \in UnspentOn(s) /\ (Has(h, "shared") => o # FirstOutput(s))
               \/ Has(h, "own") /\ o = [of |-> h, height |-> n]
               \/ Has(h, "shared") /\ o = [of |-> Shared, height |-> n]
  <2>1. o \in UnspentOn(t) <=>
          \E i \in 1..Len(t) :
            \/ /\ o = [of |-> t[i], height |-> i - 1]
               /\ Has(t[i], "own") /\ ~(OnPath(t, "shared") /\ i = 1)
            \/ o = [of |-> Shared, height |-> i - 1] /\ Has(t[i], "shared")
    BY UnspentIs
  <2>2. ASSUME o \in UnspentOn(s), Has(h, "shared") => o # FirstOutput(s)
        PROVE  o \in UnspentOn(t)
    <3>1. PICK i \in 1..Len(s) :
            \/ /\ o = [of |-> s[i], height |-> i - 1]
               /\ Has(s[i], "own") /\ ~(OnPath(s, "shared") /\ i = 1)
            \/ o = [of |-> Shared, height |-> i - 1] /\ Has(s[i], "shared")
      BY <2>2, UnspentIs
    <3>2. i \in 1..Len(t) /\ t[i] = s[i]
      BY <1>1
    <3>3. CASE o = [of |-> s[i], height |-> i - 1] /\ Has(s[i], "own")
               /\ ~(OnPath(s, "shared") /\ i = 1)
      <4>1. Has(h, "shared") => i # 1
        BY <2>2, <3>3 DEF FirstOutput
      <4> QED
        BY <1>2, <2>1, <3>2, <3>3, <4>1
    <3> QED
      BY <2>1, <3>1, <3>2, <3>3
  <2>3. ASSUME Has(h, "own"), o = [of |-> h, height |-> n]
        PROVE  o \in UnspentOn(t)
    <3>1. PICK i : i = n + 1 /\ i \in 1..Len(t) /\ t[i] = h /\ i - 1 = n
      BY <1>1, <1>3
    <3>2. ~(OnPath(t, "shared") /\ i = 1)
      <4> SUFFICES ASSUME n = 0 PROVE ~OnPath(t, "shared")
        BY <1>3, <3>1
      <4>1. ~OnPath(s, "shared") /\ s = <<>>
        BY <1>3 DEF OnPath
      <4> QED
        BY <1>2, <4>1
    <3> QED
      BY <2>1, <2>3, <3>1, <3>2
  <2>4. ASSUME Has(h, "shared"), o = [of |-> Shared, height |-> n]
        PROVE  o \in UnspentOn(t)
    <3>1. PICK i : i = n + 1 /\ i \in 1..Len(t) /\ t[i] = h /\ i - 1 = n
      BY <1>1, <1>3
    <3> QED
      BY <2>1, <2>4, <3>1
  <2>5. ASSUME o \in UnspentOn(t)
        PROVE  \/ o \in UnspentOn(s) /\ (Has(h, "shared") => o # FirstOutput(s))
               \/ Has(h, "own") /\ o = [of |-> h, height |-> n]
               \/ Has(h, "shared") /\ o = [of |-> Shared, height |-> n]
    <3>1. PICK i \in 1..Len(t) :
            \/ /\ o = [of |-> t[i], height |-> i - 1]
               /\ Has(t[i], "own") /\ ~(OnPath(t, "shared") /\ i = 1)
            \/ o = [of |-> Shared, height |-> i - 1] /\ Has(t[i], "shared")
      BY <2>1, <2>5
    <3>2. CASE i = n + 1
      <4>1. t[i] = h /\ i - 1 = n
        BY <1>1, <1>3, <3>2
      <4> QED
        BY <3>1, <4>1
    <3>3. CASE i # n + 1
      <4>1. i \in 1..Len(s) /\ t[i] = s[i] /\ i \in Nat
        BY <1>1, <1>3, <3>3
      <4>2. CASE o = [of |-> s[i], height |-> i - 1] /\ Has(s[i], "own")
                 /\ ~(OnPath(t, "shared") /\ i = 1)
        <5>1. o \in UnspentOn(s)
          BY <1>2, <4>1, <4>2, UnspentIs
        <5>2. Has(h, "shared") => i - 1 # 0
          BY <1>2, <4>1, <4>2
        <5>3. Has(h, "shared") => o # FirstOutput(s)
          <6>1. o.height = i - 1 /\ FirstOutput(s).height = 0
            BY <4>2 DEF FirstOutput
          <6> QED
            BY <5>2, <6>1
        <5> QED
          BY <5>1, <5>3
      <4>3. CASE o = [of |-> Shared, height |-> i - 1] /\ Has(s[i], "shared")
        <5>1. o \in UnspentOn(s) /\ OnPath(s, "shared")
          BY <4>1, <4>3, UnspentIs DEF OnPath
        <5> QED
          BY <5>1
      <4> QED
        BY <3>1, <4>1, <4>2, <4>3
    <3> QED
      BY <3>2, <3>3
  <2> QED
    BY <2>2, <2>3, <2>4, <2>5
<1> QED
  BY <1>3, <1>4

\* Operations as they are recorded: the totals of each are those of the one below
\* it and its own amounts, and none is there twice.
Op == [of: Nat, input: Nat, output: Nat, total_input: Nat, total_output: Nat, txCount: Nat]
AmountsOf(o) ==
  /\ o.input = (IF o.of = Shared THEN 2 ELSE 0)
  /\ o.output = (IF o.of = Shared THEN 1 ELSE 2)
Below(ops, i) == IF i < Len(ops) THEN ops[i + 1] ELSE NoOperation
Recordings(ops) ==
  /\ ops \in Seq(Op)
  /\ \A i \in 1..Len(ops) :
       /\ AmountsOf(ops[i])
       /\ ops[i].total_input = Below(ops, i).total_input + ops[i].input
       /\ ops[i].total_output = Below(ops, i).total_output + ops[i].output
  /\ \A i, j \in 1..Len(ops) : ops[i].of = ops[j].of => i = j

LEMMA NoOperationTyped == NoOperation \in Op
  BY DEF NoOperation, Op

LEMMA LatestTyped ==
  ASSUME NEW ops \in Seq(Op)
  PROVE  Latest(ops) \in Op
<1>1. ops # <<>> => 1 \in 1..Len(ops)
  OBVIOUS
<1> QED
  BY <1>1, NoOperationTyped DEF Latest

LEMMA OperationTyped ==
  ASSUME NEW w \in Nat, NEW before \in Op
  PROVE  /\ Operation(w, before) \in Op /\ AmountsOf(Operation(w, before))
         /\ Operation(w, before).of = w
         /\ Operation(w, before).total_input = before.total_input + Operation(w, before).input
         /\ Operation(w, before).total_output = before.total_output + Operation(w, before).output
  BY DEF Operation, Op, AmountsOf

LEMMA PutInFront ==
  ASSUME NEW S, NEW ops \in Seq(S), NEW o \in S, NEW t, t = <<o>> \o ops
  PROVE  /\ t \in Seq(S) /\ Len(ops) \in Nat /\ Len(t) = Len(ops) + 1 /\ t[1] = o
         /\ \A i \in 1..Len(ops) : t[i + 1] = ops[i]
         /\ \A i \in 1..Len(t) : i = 1 \/ (i - 1 \in 1..Len(ops) /\ t[i] = ops[i - 1])
<1>1. <<o>> \in Seq(S) /\ Len(<<o>>) = 1 /\ <<o>>[1] = o
  OBVIOUS
<1>2. /\ t \in Seq(S) /\ Len(ops) \in Nat /\ Len(t) = Len(ops) + 1
      /\ \A i \in 1..Len(t) : t[i] = IF i <= 1 THEN <<o>>[i] ELSE ops[i - 1]
  BY <1>1, ConcatProperties
<1>3. \A i \in 1..Len(ops) : i + 1 \in 1..Len(t) /\ ~(i + 1 <= 1) /\ (i + 1) - 1 = i
  BY <1>2
<1>4. 1 \in 1..Len(t)
  BY <1>2
<1>5. \A i \in 1..Len(t) : i = 1 \/ (i - 1 \in 1..Len(ops) /\ ~(i <= 1))
  BY <1>2
<1> QED
  BY <1>1, <1>2, <1>3, <1>4, <1>5

LEMMA AddedOperation ==
  ASSUME NEW ops, Recordings(ops), NEW w \in Nat, \A i \in 1..Len(ops) : ops[i].of # w,
         NEW t, t = WithOperation(ops, w)
  PROVE  /\ Recordings(t) /\ Latest(t) = Operation(w, Latest(ops))
         /\ Len(ops) \in Nat /\ Len(t) = Len(ops) + 1 /\ t[1] = Operation(w, Latest(ops))
         /\ \A i \in 1..Len(ops) : t[i + 1] = ops[i]
         /\ \A i \in 1..Len(t) : i = 1 \/ (i - 1 \in 1..Len(ops) /\ t[i] = ops[i - 1])
<1>1. PICK b, o : b = Latest(ops) /\ o = Operation(w, b)
  OBVIOUS
<1>2. ops \in Seq(Op) /\ b \in Op
  BY <1>1, LatestTyped DEF Recordings
<1>3. /\ o \in Op /\ AmountsOf(o) /\ o.of = w
      /\ o.total_input = b.total_input + o.input /\ o.total_output = b.total_output + o.output
  BY <1>1, <1>2, OperationTyped
<1>4. /\ t \in Seq(Op) /\ Len(ops) \in Nat /\ Len(t) = Len(ops) + 1 /\ t[1] = o
      /\ \A i \in 1..Len(ops) : t[i + 1] = ops[i]
      /\ \A i \in 1..Len(t) : i = 1 \/ (i - 1 \in 1..Len(ops) /\ t[i] = ops[i - 1])
  <2>1. t = <<o>> \o ops
    BY <1>1 DEF WithOperation
  <2> QED
    BY <1>2, <1>3, <2>1, PutInFront
<1>5. Below(t, 1) = b
  <2>1. CASE ops = <<>>
    BY <1>1, <1>4, <2>1 DEF Below, Latest
  <2>2. CASE ops # <<>>
    <3>1. 1 \in 1..Len(ops) /\ 1 < Len(t) /\ b = ops[1] /\ t[1 + 1] = ops[1]
      BY <1>1, <1>2, <1>4, <2>2 DEF Latest
    <3> QED
      BY <3>1 DEF Below
  <2> QED
    BY <2>1, <2>2
<1>6. ASSUME NEW i \in 1..Len(t), i # 1
      PROVE  i - 1 \in 1..Len(ops) /\ t[i] = ops[i - 1] /\ Below(t, i) = Below(ops, i - 1)
  <2>1. i - 1 \in 1..Len(ops) /\ t[i] = ops[i - 1]
    BY <1>4, <1>6
  <2>2. CASE i < Len(t)
    <3>1. i \in 1..Len(ops) /\ i - 1 < Len(ops) /\ (i - 1) + 1 = i /\ t[i + 1] = ops[i]
      BY <1>4, <2>2
    <3> QED
      BY <2>1, <2>2, <3>1 DEF Below
  <2>3. CASE ~(i < Len(t))
    <3>1. ~(i - 1 < Len(ops))
      BY <1>4, <2>3
    <3> QED
      BY <2>1, <2>3, <3>1 DEF Below
  <2> QED
    BY <2>2, <2>3
<1>7. ASSUME NEW i \in 1..Len(t)
      PROVE  /\ AmountsOf(t[i])
             /\ t[i].total_input = Below(t, i).total_input + t[i].input
             /\ t[i].total_output = Below(t, i).total_output + t[i].output
  <2>1. CASE i = 1
    BY <1>3, <1>4, <1>5, <2>1
  <2>2. CASE i # 1
    BY <1>6, <2>2 DEF Recordings
  <2> QED
    BY <2>1, <2>2
<1>8. ASSUME NEW i \in 1..Len(t), NEW j \in 1..Len(t), t[i].of = t[j].of PROVE i = j
  <2>1. \A x \in 1..Len(t) : t[x].of = w <=> x = 1
    BY <1>3, <1>4
  <2>2. CASE i = 1 \/ j = 1
    BY <1>8, <2>1, <2>2
  <2>3. CASE i # 1 /\ j # 1
    <3>1. i - 1 \in 1..Len(ops) /\ j - 1 \in 1..Len(ops) /\ ops[i - 1].of = ops[j - 1].of
      BY <1>4, <1>8, <2>3
    <3>2. i - 1 = j - 1
      BY <3>1 DEF Recordings
    <3> QED
      BY <3>2
  <2> QED
    BY <2>2, <2>3
<1>9. Latest(t) = o
  BY <1>4 DEF Latest
<1> QED
  BY <1>1, <1>4, <1>7, <1>8, <1>9 DEF Recordings

\* The operations of a chain, with what of it is unspent.
Balance(ops) == Latest(ops).total_output - Latest(ops).total_input
Booked(ops, s, h) ==
  /\ Recordings(ops)
  /\ \A i \in 1..Len(ops) :
       IF ops[i].of = Shared THEN OnPath(s, "shared") ELSE ops[i].of \in 1..h
  /\ IsFiniteSet(UnspentOn(s)) /\ Value(UnspentOn(s)) \in Nat
  /\ Balance(ops) = Value(UnspentOn(s))

LEMMA BalanceGrows ==
  ASSUME NEW ops, Recordings(ops), NEW w \in Nat, \A i \in 1..Len(ops) : ops[i].of # w
  PROVE  /\ Balance(ops) \in Int
         /\ Balance(WithOperation(ops, w)) =
              IF w = Shared THEN Balance(ops) - 1 ELSE Balance(ops) + 2
<1>1. PICK b, o : b = Latest(ops) /\ o = Operation(w, b)
  OBVIOUS
<1>2. b \in Op /\ Latest(WithOperation(ops, w)) = o
  BY <1>1, LatestTyped, AddedOperation DEF Recordings
<1>3. /\ b.total_output \in Nat /\ b.total_input \in Nat
      /\ o.total_output = b.total_output + (IF w = Shared THEN 1 ELSE 2)
      /\ o.total_input = b.total_input + (IF w = Shared THEN 2 ELSE 0)
  BY <1>1, <1>2 DEF Operation, Op
<1> QED
  BY <1>1, <1>2, <1>3 DEF Balance

LEMMA BookedStep ==
  ASSUME NEW s \in Seq(Nat), NEW p \in Nat, NEW h \in Nat, p < h, h < Shared, Shared \in Nat,
         NEW ops, Booked(ops, s, p), \A i \in 1..Len(s) : s[i] # Shared,
         Has(h, "shared") => ~OnPath(s, "shared") /\ s # <<>> /\ Has(s[1], "own"),
         NEW t, t = Append(s, h)
  PROVE  Booked(Recorded(h, ops), t, h)
<1>1. PICK own \in BOOLEAN, sha \in BOOLEAN, n \in Nat :
        (own <=> Has(h, "own")) /\ (sha <=> Has(h, "shared")) /\ n = Len(s)
  <2>1. Len(s) \in Nat
    OBVIOUS
  <2>2. PICK own \in BOOLEAN : own <=> Has(h, "own")
    OBVIOUS
  <2>3. PICK sha \in BOOLEAN : sha <=> Has(h, "shared")
    OBVIOUS
  <2> QED
    BY <2>1, <2>2, <2>3
<1>2. PICK ops1, ops2 : /\ ops1 = IF own THEN WithOperation(ops, h) ELSE ops
                        /\ ops2 = IF sha THEN WithOperation(ops1, Shared) ELSE ops1
  OBVIOUS
<1>3. Recorded(h, ops) = ops2
  BY <1>1, <1>2 DEF Recorded
<1>4. /\ Recordings(ops1) /\ Balance(ops) \in Int
      /\ Balance(ops1) = IF own THEN Balance(ops) + 2 ELSE Balance(ops)
      /\ \A i \in 1..Len(ops1) :
           IF ops1[i].of = Shared THEN OnPath(s, "shared") ELSE ops1[i].of \in 1..h
  <2>1. \A i \in 1..Len(ops) :
          /\ ops[i].of # h
          /\ IF ops[i].of = Shared THEN OnPath(s, "shared") ELSE ops[i].of \in 1..h
    BY DEF Booked
  <2>2. Recordings(ops)
    BY DEF Booked
  <2>3. CASE ~own
    BY <1>2, <2>1, <2>2, <2>3, BalanceGrows
  <2>4. CASE own
    <3>1. /\ Recordings(ops1) /\ Len(ops) \in Nat
          /\ ops1[1] = Operation(h, Latest(ops))
          /\ \A i \in 1..Len(ops1) : i = 1 \/ (i - 1 \in 1..Len(ops) /\ ops1[i] = ops[i - 1])
      BY <1>2, <2>1, <2>2, <2>4, AddedOperation
    <3>2. Balance(ops) \in Int /\ Balance(ops1) = Balance(ops) + 2
      <4>1. h # Shared /\ \A i \in 1..Len(ops) : ops[i].of # h
        BY <2>1
      <4>2. ops1 = WithOperation(ops, h)
        BY <1>2, <2>4
      <4> QED
        BY <2>2, <4>1, <4>2, BalanceGrows
    <3>3. ops1[1].of = h /\ h # Shared /\ h \in 1..h
      BY <3>1 DEF Operation
    <3> QED
      BY <2>1, <2>4, <3>1, <3>2, <3>3
  <2> QED
    BY <2>3, <2>4
<1>5. /\ Recordings(ops2) /\ Balance(ops1) \in Int
      /\ Balance(ops2) = IF sha THEN Balance(ops1) - 1 ELSE Balance(ops1)
      /\ \A i \in 1..Len(ops2) :
           IF ops2[i].of = Shared THEN OnPath(t, "shared") ELSE ops2[i].of \in 1..h
  <2>1. /\ Len(t) = n + 1 /\ t[n + 1] = h /\ n + 1 \in 1..Len(t)
        /\ \A i \in 1..n : i \in 1..Len(t) /\ t[i] = s[i]
    BY <1>1
  <2>2. /\ OnPath(s, "shared") => OnPath(t, "shared")
        /\ sha => OnPath(t, "shared")
    BY <1>1, <2>1 DEF OnPath
  <2>3. CASE ~sha
    BY <1>2, <1>4, <2>2, <2>3
  <2>4. CASE sha
    <3>1. \A i \in 1..Len(ops1) : ops1[i].of # Shared
      BY <1>1, <1>4, <2>4
    <3>2. /\ Recordings(ops2) /\ Len(ops1) \in Nat
          /\ ops2[1] = Operation(Shared, Latest(ops1))
          /\ \A i \in 1..Len(ops2) : i = 1 \/ (i - 1 \in 1..Len(ops1) /\ ops2[i] = ops1[i - 1])
      <4>1. Recordings(ops1) /\ ops2 = WithOperation(ops1, Shared)
        BY <1>2, <1>4, <2>4
      <4> QED
        BY <3>1, <4>1, AddedOperation
    <3>3. Balance(ops2) = Balance(ops1) - 1
      BY <1>2, <1>4, <2>4, <3>1, BalanceGrows
    <3>4. ops2[1].of = Shared
      BY <3>2 DEF Operation
    <3>5. Balance(ops1) \in Int
      BY <1>4
    <3> QED
      BY <1>4, <2>2, <2>4, <3>1, <3>2, <3>3, <3>4, <3>5
  <2> QED
    BY <2>3, <2>4
<1>6. PICK x, y, U : /\ x = [of |-> h, height |-> n] /\ y = [of |-> Shared, height |-> n]
                     /\ U = UnspentOn(s)
  OBVIOUS
<1>7. PICK U1 : U1 = IF sha THEN U \ {FirstOutput(s)} ELSE U
  OBVIOUS
<1>8. PICK U2 : U2 = IF own THEN U1 \cup {x} ELSE U1
  OBVIOUS
<1>9. PICK U3 : U3 = IF sha THEN U2 \cup {y} ELSE U2
  OBVIOUS
<1>10. /\ x = [of |-> h, height |-> n] /\ y = [of |-> Shared, height |-> n]
       /\ U = UnspentOn(s)
       /\ U1 = IF sha THEN U \ {FirstOutput(s)} ELSE U
       /\ U2 = IF own THEN U1 \cup {x} ELSE U1
       /\ U3 = IF sha THEN U2 \cup {y} ELSE U2
  BY <1>6, <1>7, <1>8, <1>9
<1>11. UnspentOn(t) = U3
  <2>1. UnspentOn(t) = (U1 \cup (IF own THEN {x} ELSE {})) \cup (IF sha THEN {y} ELSE {})
    BY <1>1, <1>10, UnspentGrows
  <2> QED
    BY <1>10, <2>1
<1>12. IsFiniteSet(U) /\ Value(U) \in Nat /\ Balance(ops) = Value(U)
  BY <1>10 DEF Booked
<1>13. \A o \in U : o.height # n
  BY <1>1, <1>10, UnspentIs
<1>14. /\ IsFiniteSet(U1) /\ Value(U1) \in Nat /\ \A o \in U1 : o.height # n
       /\ Value(U1) = IF sha THEN Value(U) - 2 ELSE Value(U)
  <2>1. CASE ~sha
    BY <1>10, <1>12, <1>13, <2>1
  <2>2. CASE sha
    <3>1. 1 \in 1..Len(s) /\ ~OnPath(s, "shared") /\ Has(s[1], "own")
      BY <1>1, <2>2
    <3>2. FirstOutput(s) = [of |-> s[1], height |-> 1 - 1] /\ s[1] # Shared
      BY <3>1 DEF FirstOutput
    <3>3. FirstOutput(s) \in U
      BY <1>10, <3>1, <3>2, UnspentIs
    <3>4. OutputValue(FirstOutput(s)) = 2
      BY <3>2 DEF OutputValue
    <3>5. /\ IsFiniteSet(U1) /\ Value(U1) \in Nat /\ Value(U1) = Value(U) - 2
      BY <1>10, <1>12, <2>2, <3>3, <3>4, ValueRemoved
    <3> QED
      BY <1>10, <1>13, <2>2, <3>5
  <2> QED
    BY <2>1, <2>2
<1>15. /\ IsFiniteSet(U2) /\ Value(U2) \in Nat /\ y \notin U2
       /\ Value(U2) = IF own THEN Value(U1) + 2 ELSE Value(U1)
  <2>1. x.height = n /\ y.height = n /\ x # y /\ OutputValue(x) = 2
    <3>1. x.of = h /\ y.of = Shared
      BY <1>10
    <3> QED
      BY <1>10, <3>1 DEF OutputValue
  <2>2. x \notin U1 /\ y \notin U1
    BY <1>14, <2>1
  <2>3. CASE ~own
    BY <1>10, <1>14, <2>2, <2>3
  <2>4. CASE own
    <3>1. IsFiniteSet(U2) /\ Value(U2) = Value(U1) + 2
      BY <1>10, <1>14, <2>1, <2>2, <2>4, ValueAdded
    <3> QED
      BY <1>10, <1>14, <2>1, <2>2, <2>4, <3>1
  <2> QED
    BY <2>3, <2>4
<1>16. /\ IsFiniteSet(U3) /\ Value(U3) \in Nat
       /\ Value(U3) = IF sha THEN Value(U2) + 1 ELSE Value(U2)
  <2>1. CASE ~sha
    BY <1>10, <1>15, <2>1
  <2>2. CASE sha
    <3>1. OutputValue(y) = 1
      BY <1>10 DEF OutputValue
    <3>2. IsFiniteSet(U3) /\ Value(U3) = Value(U2) + 1
      <4>1. U3 = U2 \cup {y} /\ IsFiniteSet(U2) /\ y \notin U2
        BY <1>10, <1>15, <2>2
      <4> QED
        BY <3>1, <4>1, ValueAdded
    <3> QED
      BY <1>15, <2>2, <3>2
  <2> QED
    BY <2>1, <2>2
<1>17. Balance(ops2) = Value(U3)
  BY <1>1, <1>4, <1>5, <1>12, <1>14, <1>15, <1>16
<1> QED
  BY <1>3, <1>5, <1>11, <1>16, <1>17 DEF Booked

\* bitcoind writes a block of the first payment first, and the shared transaction
\* once on every branch.
ContentsSound ==
  /\ \A h \in 1..Len(file) : Has(h, "shared") => ~OnPath(Path[file[h].previous], "shared")
  /\ file # <<>> => contents[1] = {"own"}

\* The parents of blocks, and their operations, before and after a step.
Parents == Len(file) \in Nat /\ \A h \in 1..Len(file) : file[h].previous \in 0..(h - 1)
OperationsOfParents ==
  /\ OperationsOf[0] = <<>>
  /\ \A h \in 1..Len(file) : OperationsOf[h] = Recorded(h, OperationsOf[file[h].previous])

LEMMA ParentsHold == TypeOK /\ FileOrdered => Parents /\ OperationsOfParents
  BY Ancestry, OperationsSteps DEF Parents, OperationsOfParents

LEMMA ParentsNext == TypeOK' /\ FileOrdered' => Parents' /\ OperationsOfParents'
  BY ParentsHold, PTL

LEMMA PathsKept ==
  ASSUME Inv, Inv', ContentsOK, RpcNext
  PROVE  /\ Len(file) <= Len(file') /\ \A h \in 1..Len(file) : file'[h] = file[h]
         /\ \A h \in 0..Len(file) :
              /\ Path'[h] = Path[h]
              /\ \A i \in 1..Len(Path[h]) :
                   Path[h][i] \in 1..Len(file) /\ contents'[Path[h][i]] = contents[Path[h][i]]
<1>1. file' = file \/ BlockArrives
  BY FilesKept DEF BlockWritten
<1>2. /\ Len(file) <= Len(file') /\ \A h \in 1..Len(file) : file'[h] = file[h]
      /\ \A h \in 0..Len(file) : Path'[h] = Path[h]
  BY <1>1, HistoryKept DEF Inv
<1>3. \A h \in 0..Len(file) : \A i \in 1..Len(Path[h]) : Path[h][i] \in 1..Len(file)
  BY PathElements DEF Inv
<1>4. \A b \in 1..Len(file) : contents'[b] = contents[b]
  BY ContentsNext
<1> QED
  BY <1>2, <1>3, <1>4

LEMMA OnPathKept ==
  ASSUME NEW s, \A i \in 1..Len(s) : contents'[s[i]] = contents[s[i]], NEW w
  PROVE  OnPath(s, w)' <=> OnPath(s, w)
  BY DEF OnPath, Has

LEMMA ContentsSoundNext ==
  ASSUME Inv, Inv', ContentsOK, ContentsSound, RpcNext
  PROVE  ContentsSound'
<1>1. /\ Len(file) \in Nat /\ Len(file') \in Nat
      /\ \A h \in 1..Len(file') : file'[h].previous \in 0..(h - 1)
      /\ \A h \in 1..Len(file) : file[h].previous \in 0..(h - 1) /\ h \in 1..Len(file')
  <2>1. Parents /\ Parents'
    BY ParentsHold, ParentsNext DEF Inv
  <2>2. Len(file) <= Len(file')
    BY PathsKept
  <2> QED
    BY <2>1, <2>2 DEF Parents
<1>2. CASE ~BlockWritten
  <2>1. UNCHANGED <<file, contents>>
    BY <1>2, FilesKept
  <2>2. Path' = Path
    BY <2>1 DEF Path
  <2> QED
    BY <2>1, <2>2 DEF ContentsSound, Has, OnPath
<1>3. CASE BlockWritten
  <2>1. PICK c : /\ c \in IF file = <<>> THEN {{"own"}} ELSE Contents
                 /\ "shared" \in c => ~OnPath(Path[file'[Len(file')].previous], "shared")
                 /\ contents' = Append(contents, c)
    BY <1>3 DEF BlockWritten
  <2>2. PICK n : n = Len(file) + 1 /\ n \in Nat
    BY <1>1
  <2>3. /\ Len(file') = n /\ contents'[n] = c /\ n \in 1..Len(file')
        /\ \A h \in 1..Len(file) : contents'[h] = contents[h]
        /\ \A h \in 1..Len(file') : h \in 1..Len(file) \/ h = n
    <3>1. PICK r : file' = Append(file, r)
      BY <1>3 DEF BlockWritten, BlockArrives
    <3>2. Len(file') = n
      BY <2>2, <3>1 DEF Inv, TypeOK
    <3>3. Len(contents) + 1 = n /\ contents'[n] = c
      BY <2>1, <2>2 DEF ContentsOK
    <3>4. \A h \in 1..Len(file) : contents'[h] = contents[h]
      BY ContentsNext
    <3> QED
      BY <1>1, <2>2, <3>2, <3>3, <3>4
  <2>4. ASSUME NEW h \in 1..Len(file'), Has(h, "shared")'
        PROVE  ~OnPath(Path[file[h].previous], "shared")'
    <3>1. PICK p, s : p = file'[h].previous /\ s = Path[p]
      OBVIOUS
    <3>2. p \in 0..Len(file)
      BY <1>1, <2>2, <2>3, <3>1
    <3>3. Path'[p] = s /\ \A i \in 1..Len(s) : contents'[s[i]] = contents[s[i]]
      BY <3>1, <3>2, PathsKept
    <3>4. ~OnPath(s, "shared")
      <4>1. CASE h \in 1..Len(file)
        <5>1. Has(h, "shared") /\ file'[h] = file[h]
          BY <2>3, <2>4, <4>1, PathsKept DEF Has
        <5> QED
          BY <3>1, <4>1, <5>1 DEF ContentsSound
      <4>2. CASE h = n
        <5>1. "shared" \in c
          BY <2>3, <2>4, <4>2 DEF Has
        <5> QED
          BY <2>1, <2>3, <3>1, <4>2, <5>1
      <4> QED
        BY <2>3, <4>1, <4>2
    <3>5. ~OnPath(s, "shared")'
      BY <3>3, <3>4, OnPathKept
    <3> QED
      BY <3>1, <3>3, <3>5 DEF OnPath, Has
  <2>5. contents'[1] = {"own"}
    <3>1. CASE file = <<>>
      <4>1. n = 1 /\ c = {"own"}
        BY <2>1, <2>2, <3>1
      <4> QED
        BY <2>3, <4>1
    <3>2. CASE file # <<>>
      <4>1. 1 \in 1..Len(file)
        BY <1>1, <3>2 DEF Inv, TypeOK
      <4> QED
        BY <2>3, <3>2, <4>1 DEF ContentsSound
    <3> QED
      BY <3>1, <3>2
  <2> QED
    BY <2>4, <2>5 DEF ContentsSound
<1> QED
  BY <1>2, <1>3

\* So the operations of every chain are booked.
LEMMA AllBooked ==
  ASSUME Inv, ContentsSound
  PROVE  \A h \in 0..Len(file) : /\ Booked(OperationsOf[h], Path[h], h)
                                 /\ \A i \in 1..Len(Path[h]) : Path[h][i] # Shared
                                 /\ h # 0 => Path[h][1] = 1 /\ Has(Path[h][1], "own")
<1>1. TypeOK /\ FileOrdered
  BY DEF Inv
<1>2. /\ Len(file) \in Nat /\ Len(file) <= MaxFile /\ MaxFile \in Nat
      /\ Shared \in Nat /\ Len(file) < Shared
      /\ \A k \in 1..Len(file) : file[k].previous \in 0..(k - 1)
      /\ \A k \in 1..Len(file) : file[k].previous = 0 <=> k = 1
  BY <1>1, Ancestry, ConstantsAssumption DEF FileOrdered, Shared
<1>3. \A h \in 0..Len(file) : \A i \in 1..Len(Path[h]) :
        Path[h][i] \in 1..Len(file) /\ Path[h][i] # Shared
  BY <1>1, <1>2, PathElements
<1>4. \A h \in 1..Len(file) : Len(Path[h]) \in Nat \ {0} /\ Path[h] # <<>>
  <2> TAKE h \in 1..Len(file)
  <2>1. Len(Path[h]) = Len(Path[file[h].previous]) + 1 /\ Len(Path[file[h].previous]) \in Nat
    BY <1>1, PathTypes
  <2> QED
    BY <2>1
<1>5. ASSUME NEW h \in 1..Len(file) PROVE Path[h][1] = 1 /\ Has(Path[h][1], "own")
  <2>1. 1 \in 1..Len(Path[h]) /\ h \in 0..Len(file)
    BY <1>2, <1>4
  <2>2. Path[h][1] \in 1..Len(file) /\ file[Path[h][1]].previous = 0
    BY <1>1, <2>1, PathElements
  <2>3. Path[h][1] = 1 /\ file # <<>>
    BY <1>2, <2>2
  <2> QED
    BY <2>3 DEF ContentsSound, Has
<1> DEFINE G == {h \in 0..Len(file) : Booked(OperationsOf[h], Path[h], h)}
<1>6. 0 \in G
  <2>1. Path[0] = <<>> /\ OperationsOf[0] = <<>> /\ 0 \in 0..Len(file)
    BY <1>1, <1>2, RecursionsHold, OperationsSteps DEF Recursions
  <2>2. UnspentOn(<<>>) = {}
    BY UnspentIs
  <2>3. Recordings(<<>>)
    BY DEF Recordings
  <2>4. Balance(<<>>) = 0
    BY DEF Balance, Latest, NoOperation
  <2>5. Booked(<<>>, <<>>, 0)
    <3>1. PICK e, U : e = <<>> /\ U = UnspentOn(e)
      OBVIOUS
    <3>2. 1..Len(e) = {}
      BY <3>1
    <3>3. IsFiniteSet(U) /\ Value(U) = 0 /\ Balance(e) = 0 /\ Recordings(e)
      BY <2>2, <2>3, <2>4, <3>1, ValueOfNone
    <3>4. Booked(e, e, 0)
      BY <3>1, <3>2, <3>3 DEF Booked
    <3> QED
      BY <3>1, <3>4
  <2> QED
    BY <2>1, <2>5
<1>7. ASSUME NEW h \in 1..Len(file), file[h].previous \in G PROVE h \in G
  <2>1. PICK p, s, ops : p = file[h].previous /\ s = Path[p] /\ ops = OperationsOf[p]
    OBVIOUS
  <2>2. /\ p \in 0..Len(file) /\ p \in Nat /\ h \in Nat /\ p < h /\ h < Shared
        /\ h \in 0..Len(file)
    BY <1>2, <2>1
  <2>3. Booked(ops, s, p) /\ s \in Seq(Nat) /\ \A i \in 1..Len(s) : s[i] # Shared
    BY <1>1, <1>3, <1>7, <2>1, <2>2, PathTypes
  <2>4. Has(h, "shared") => ~OnPath(s, "shared") /\ s # <<>> /\ Has(s[1], "own")
    <3> SUFFICES ASSUME Has(h, "shared")
                 PROVE  ~OnPath(s, "shared") /\ s # <<>> /\ Has(s[1], "own")
      OBVIOUS
    <3>1. ~OnPath(s, "shared")
      BY <2>1 DEF ContentsSound
    <3>2. h # 1
      BY <1>2 DEF ContentsSound, Has
    <3>3. p \in 1..Len(file)
      BY <1>2, <2>1, <2>2, <3>2
    <3> QED
      BY <1>4, <1>5, <2>1, <3>1, <3>3
  <2>5. Booked(Recorded(h, ops), Append(s, h), h)
    BY <1>2, <2>2, <2>3, <2>4, BookedStep
  <2>6. OperationsOf[h] = Recorded(h, ops) /\ Path[h] = Append(s, h)
    BY <1>1, <2>1, OperationsSteps, RecursionsHold DEF Recursions
  <2> QED
    BY <2>2, <2>5, <2>6
<1>8. \A h \in 0..Len(file) : h \in G
  <2> HIDE DEF G
  <2> QED
    BY <1>1, <1>6, <1>7, FileInduction
<1>9. \A h \in 0..Len(file) : h # 0 => h \in 1..Len(file)
  BY <1>2
<1> QED
  BY <1>3, <1>5, <1>8, <1>9

\* What bitcoind writes later changes no operations.
LEMMA OperationsKept ==
  ASSUME Inv, Inv', ContentsOK, RpcNext
  PROVE  \A h \in 0..Len(file) : OperationsOf'[h] = OperationsOf[h]
<1>1. TypeOK /\ FileOrdered
  BY DEF Inv
<1>2. /\ Len(file) \in Nat /\ Len(file') \in Nat /\ Len(file) <= Len(file')
      /\ \A k \in 1..Len(file) : /\ file[k].previous \in 0..(k - 1) /\ file'[k] = file[k]
                                 /\ k \in 1..Len(file') /\ contents'[k] = contents[k]
  <2>1. Parents /\ Parents'
    BY ParentsHold, ParentsNext DEF Inv
  <2>2. /\ Len(file) <= Len(file')
        /\ \A k \in 1..Len(file) : file'[k] = file[k] /\ contents'[k] = contents[k]
    BY PathsKept, ContentsNext
  <2> QED
    BY <2>1, <2>2 DEF Parents
<1>3. OperationsOfParents /\ OperationsOfParents'
  BY ParentsHold, ParentsNext DEF Inv
<1> DEFINE G == {h \in 0..Len(file) : OperationsOf'[h] = OperationsOf[h]}
<1>5. 0 \in G
  BY <1>2, <1>3 DEF OperationsOfParents
<1>6. ASSUME NEW h \in 1..Len(file), file[h].previous \in G PROVE h \in G
  <2>1. PICK p, ops : p = file[h].previous /\ ops = OperationsOf[p]
    OBVIOUS
  <2>2. file'[h].previous = p /\ OperationsOf'[p] = ops
    BY <1>2, <1>6, <2>1
  <2>3. Recorded(h, ops)' = Recorded(h, ops)
    BY <1>2 DEF Recorded, Has, WithOperation, Latest, Operation, NoOperation, Shared
  <2>4. Recorded(h, OperationsOf[file[h].previous])' = Recorded(h, ops)'
    BY <2>2 DEF Recorded, Has, WithOperation, Latest, Operation, NoOperation, Shared
  <2> QED
    BY <1>2, <1>3, <2>1, <2>3, <2>4 DEF OperationsOfParents
<1> HIDE DEF G
<1>7. \A h \in 0..Len(file) : h \in G
  BY <1>1, <1>5, <1>6, FileInduction
<1> QED
  BY <1>7 DEF G

-----------------------------------------------------------------------------
(* What is shown of the operations of a chain.                             *)

\* Each operation with its own amounts, and none twice.
Shows(t) ==
  /\ t \in Seq(Op) /\ \A i \in 1..Len(t) : AmountsOf(t[i])
  /\ \A i, j \in 1..Len(t) : t[i].of = t[j].of => i = j

LEMMA ShorterIs ==
  ASSUME NEW S, NEW t \in Seq(S), NEW n \in Nat
  PROVE  /\ Shorter(n, t) \in Seq(S) /\ Len(t) \in Nat
         /\ Len(Shorter(n, t)) = IF Len(t) <= n THEN Len(t) ELSE n
         /\ \A i \in 1..Len(Shorter(n, t)) : i \in 1..Len(t) /\ Shorter(n, t)[i] = t[i]
<1>1. CASE Len(t) <= n
  BY <1>1 DEF Shorter
<1>2. CASE ~(Len(t) <= n)
  <2>1. PICK u : u = SubSeq(t, 1, n)
    OBVIOUS
  <2>2. u \in Seq(S) /\ Len(u) = n /\ \A i \in 1..n : i \in 1..Len(t) /\ u[i] = t[i]
    BY <1>2, <2>1
  <2>3. Shorter(n, t) = u
    BY <1>2, <2>1 DEF Shorter
  <2> QED
    BY <1>2, <2>2, <2>3
<1> QED
  BY <1>1, <1>2

LEMMA ShorterShows ==
  ASSUME NEW t, Shows(t), NEW n \in Nat \ {0}, NEW u, u = Shorter(n, t)
  PROVE  /\ Shows(u) /\ Latest(u) = Latest(t)
         /\ \A i \in 1..Len(u) : i \in 1..Len(t) /\ u[i] = t[i]
<1>1. t \in Seq(Op)
  BY DEF Shows
<1>2. /\ u \in Seq(Op) /\ Len(t) \in Nat
      /\ Len(u) = IF Len(t) <= n THEN Len(t) ELSE n
      /\ \A i \in 1..Len(u) : i \in 1..Len(t) /\ u[i] = t[i]
  BY <1>1, ShorterIs
<1>3. Latest(u) = Latest(t)
  <2>1. CASE t = <<>>
    BY <1>2, <2>1 DEF Latest
  <2>2. CASE t # <<>>
    <3>1. Len(t) > 0 /\ Len(u) > 0
      BY <1>1, <1>2, <2>2
    <3>2. 1 \in 1..Len(u) /\ u # <<>>
      BY <1>2, <3>1
    <3> QED
      BY <1>2, <2>2, <3>2 DEF Latest
  <2> QED
    BY <2>1, <2>2
<1>4. \A i \in 1..Len(u) : AmountsOf(u[i])
  BY <1>2 DEF Shows
<1>5. \A i, j \in 1..Len(u) : u[i].of = u[j].of => i = j
  BY <1>2 DEF Shows
<1> QED
  BY <1>2, <1>3, <1>4, <1>5 DEF Shows

LEMMA RecordingsShow == ASSUME NEW ops, Recordings(ops) PROVE Shows(ops)
  BY DEF Recordings, Shows

\* An operation more, of what is not there yet.
LEMMA OnTopShows ==
  ASSUME NEW t, Shows(t), Shared \in Nat, \A i \in 1..Len(t) : t[i].of # Shared
  PROVE  Shows(OnTop(t)) /\ Latest(OnTop(t)) = Operation(Shared, Latest(t))
<1>1. PICK o, u : o = Operation(Shared, Latest(t)) /\ u = OnTop(t)
  OBVIOUS
<1>2. t \in Seq(Op) /\ o \in Op /\ AmountsOf(o) /\ o.of = Shared
  BY <1>1, LatestTyped, OperationTyped DEF Shows
<1>3. /\ u \in Seq(Op) /\ Len(u) = Len(t) + 1 /\ Len(t) \in Nat /\ u[1] = o
      /\ \A i \in 1..Len(u) : i = 1 \/ (i - 1 \in 1..Len(t) /\ u[i] = t[i - 1])
  <2>1. u = <<o>> \o t
    BY <1>1 DEF OnTop, WithOperation
  <2> QED
    BY <1>2, <2>1, PutInFront
<1>4. \A i \in 1..Len(u) : AmountsOf(u[i])
  BY <1>2, <1>3 DEF Shows
<1>5. ASSUME NEW i \in 1..Len(u), NEW j \in 1..Len(u), u[i].of = u[j].of PROVE i = j
  <2>1. \A x \in 1..Len(u) : u[x].of = Shared <=> x = 1
    BY <1>2, <1>3
  <2>2. CASE i = 1 \/ j = 1
    BY <1>5, <2>1, <2>2
  <2>3. CASE i # 1 /\ j # 1
    <3>1. i - 1 \in 1..Len(t) /\ j - 1 \in 1..Len(t) /\ t[i - 1].of = t[j - 1].of
      BY <1>3, <1>5, <2>3
    <3>2. i - 1 = j - 1
      BY <3>1 DEF Shows
    <3> QED
      BY <3>2
  <2> QED
    BY <2>2, <2>3
<1>6. Latest(u) = o
  BY <1>3 DEF Latest
<1> QED
  BY <1>1, <1>3, <1>4, <1>5, <1>6 DEF Shows

\* The differences of totals are the amounts of the operations, also of the last
\* one of a page: one more than is shown has been read.
LEMMA PageIs ==
  ASSUME NEW ops, Recordings(ops)
  PROVE  PageOf(ops) = Shorter(MaxOps, ops)
<1>1. MaxOps \in Nat \ {0} /\ MaxOps + 1 \in Nat /\ ops \in Seq(Op) /\ Len(ops) \in Nat
  BY RpcAssumption DEF Recordings
<1>2. PICK w, d, n : w = Shorter(MaxOps + 1, ops) /\ d = Differences(w) /\ n = Len(w)
  OBVIOUS
<1>3. /\ w \in Seq(Op) /\ n \in Nat
      /\ n = IF Len(ops) <= MaxOps + 1 THEN Len(ops) ELSE MaxOps + 1
      /\ \A i \in 1..n : i \in 1..Len(ops) /\ w[i] = ops[i]
  BY <1>1, <1>2, ShorterIs
<1>4. ASSUME NEW i \in 1..n, i <= MaxOps
      PROVE  d[i] = ops[i] /\ ops[i] \in Op
  <2>1. PICK o, b : o = ops[i] /\ b = IF i < n THEN w[i + 1] ELSE NoOperation
    OBVIOUS
  <2>2. b = Below(ops, i)
    <3>1. CASE i < n
      <4>1. i + 1 \in 1..n /\ i < Len(ops)
        BY <1>1, <1>3, <3>1
      <4> QED
        BY <1>3, <2>1, <3>1, <4>1 DEF Below
    <3>2. CASE ~(i < n)
      <4>1. i = n /\ ~(i < Len(ops))
        BY <1>1, <1>3, <1>4, <3>2
      <4> QED
        BY <2>1, <3>2, <4>1 DEF Below
    <3> QED
      BY <3>1, <3>2
  <2>3. o \in Op /\ b \in Op
    <3>1. i \in 1..Len(ops) /\ (i < n => i + 1 \in 1..n)
      BY <1>3
    <3> QED
      BY <1>1, <1>3, <2>1, <3>1, NoOperationTyped
  <2>4. /\ o.total_input = b.total_input + o.input
        /\ o.total_output = b.total_output + o.output
    BY <1>3, <2>1, <2>2 DEF Recordings
  <2>5. o.total_input - b.total_input = o.input /\ o.total_output - b.total_output = o.output
    BY <2>3, <2>4 DEF Op
  <2>6. d[i] = [o EXCEPT !.input = o.total_input - b.total_input,
                         !.output = o.total_output - b.total_output]
    BY <1>2, <1>3, <2>1 DEF Differences
  <2>7. d[i] = [o EXCEPT !.input = o.input, !.output = o.output]
    BY <2>5, <2>6
  <2>8. [o EXCEPT !.input = o.input, !.output = o.output] = o
    BY <2>3 DEF Op
  <2> QED
    BY <2>1, <2>3, <2>7, <2>8
<1>5. PICK S : S = {d[i] : i \in 1..n}
  OBVIOUS
<1>6. d \in Seq(S) /\ Len(d) = n
  <2>1. PICK g : g = [i \in 1..n |-> d[i]]
    OBVIOUS
  <2>2. d = g
    BY <1>2, <2>1 DEF Differences
  <2>3. g \in Seq(S) /\ Len(g) = n
    BY <1>3, <1>5, <2>1
  <2> QED
    BY <2>2, <2>3
<1>7. PICK u, v : u = Shorter(MaxOps, d) /\ v = Shorter(MaxOps, ops)
  OBVIOUS
<1>8. /\ u \in Seq(S) /\ Len(u) = (IF n <= MaxOps THEN n ELSE MaxOps)
      /\ \A i \in 1..Len(u) : i \in 1..n /\ u[i] = d[i]
  BY <1>1, <1>6, <1>7, ShorterIs
<1>9. /\ v \in Seq(Op) /\ Len(v) = (IF Len(ops) <= MaxOps THEN Len(ops) ELSE MaxOps)
      /\ \A i \in 1..Len(v) : v[i] = ops[i]
  BY <1>1, <1>7, ShorterIs
<1>10. Len(u) = Len(v) /\ Len(u) <= MaxOps
  BY <1>1, <1>3, <1>8, <1>9
<1>11. \A i \in 1..Len(u) : u[i] = v[i]
  BY <1>1, <1>3, <1>4, <1>8, <1>9, <1>10
<1>12. u \in Seq(S \cup Op) /\ v \in Seq(S \cup Op)
  BY <1>8, <1>9
<1>13. u = v
  BY <1>10, <1>11, <1>12, SeqEqual
<1> QED
  BY <1>2, <1>7, <1>13 DEF PageOf

-----------------------------------------------------------------------------
(* What is asked of the balance, and what is answered.                     *)

LEMMA TipOfPath ==
  ASSUME TypeOK, FileOrdered, NEW h \in 0..Len(file)
  PROVE  TipOf(Path[h]) = h
<1>1. CASE h = 0
  BY <1>1, RecursionsHold DEF Recursions, TipOf
<1>2. CASE h # 0
  <2>1. h \in 1..Len(file)
    BY <1>2, Ancestry
  <2>2. Path[h][Len(Path[h])] = h /\ Len(Path[h]) # 0
    BY <2>1, PathTypes
  <2> QED
    BY <2>2 DEF TipOf
<1> QED
  BY <1>1, <1>2

\* The blocks with so many confirmations are the path of one of them.
LEMMA ConfirmedIsPath ==
  ASSUME TypeOK, FileOrdered, NEW h \in 0..Len(file), NEW c \in Nat
  PROVE  /\ \E g \in 0..Len(file) : ConfirmedPath(Path[h], c) = Path[g]
         /\ c = 0 => ConfirmedPath(Path[h], c) = Path[h]
<1>1. PICK s, m : s = Path[h] /\ m = Len(s) + 1 - (IF c = 0 THEN 1 ELSE c)
  OBVIOUS
<1>2. s \in Seq(Nat) /\ Len(s) \in Nat /\ m \in Int /\ m <= Len(s)
  BY <1>1, PathTypes
<1>3. ConfirmedPath(s, c) = SubSeq(s, 1, m)
  BY <1>1 DEF ConfirmedPath
<1>4. CASE m < 1
  <2>1. SubSeq(s, 1, m) = <<>>
    BY <1>2, <1>4
  <2>2. Path[0] = <<>> /\ 0 \in 0..Len(file)
    BY Ancestry, RecursionsHold DEF Recursions
  <2>3. c = 0 => s = <<>>
    BY <1>1, <1>2, <1>4
  <2> QED
    BY <1>1, <1>3, <2>1, <2>2, <2>3
<1>5. CASE ~(m < 1)
  <2>1. m \in 1..Len(s)
    BY <1>2, <1>5
  <2>2. SubSeq(s, 1, m) = Path[s[m]] /\ s[m] \in 1..Len(file)
    BY <1>1, <2>1, PathBeginning, PathElements
  <2>3. s[m] \in 0..Len(file)
    BY <2>2, Ancestry
  <2>4. c = 0 => SubSeq(s, 1, m) = s
    BY <1>1, <1>2
  <2> QED
    BY <1>1, <1>3, <2>2, <2>3, <2>4
<1> QED
  BY <1>4, <1>5

\* The operations of the chain that a query finds, and what it does with them.
ShownOf(q) ==
  IF q.kind = "address" THEN PageOf(OperationsOn(q.start))
  ELSE LatestOf(OperationsOn(ConfirmedPath(q.start, q.arg)))
AsksLive(q) == q.kind = "address" \/ q.arg = 0
BalanceSound(q) ==
  /\ q.pc \in {"scan", "live", "confirm", "done"}
  /\ TipOf(q.start) \in 1..Len(file) /\ q.start = Path[TipOf(q.start)]
  /\ q.pc = "live" => AsksLive(q)
  /\ q.pc # "scan" =>
       \/ ~q.live /\ q.ops = ShownOf(q)
       \/ /\ q.live /\ q.pc # "live" /\ AsksLive(q)
          /\ q.ops = Shown(OnTop(ShownOf(q)))
  /\ q.pc = "scan" => ~q.live
BalanceOK == Undisturbed /\ query.kind \in {"address", "balance"} => BalanceSound(query)

AboutPath(q) == IF q.kind = "address" THEN q.start ELSE ConfirmedPath(q.start, q.arg)

LEMMA ShownIs ==
  ASSUME Inv, ContentsSound, NEW q, q.arg \in Nat,
         TipOf(q.start) \in 1..Len(file), q.start = Path[TipOf(q.start)]
  PROVE  \E g \in 0..Len(file), n \in 1..MaxOps :
           /\ AboutPath(q) = Path[g] /\ OperationsOn(AboutPath(q)) = OperationsOf[g]
           /\ ShownOf(q) = Shorter(n, OperationsOf[g]) /\ n \in Nat \ {0}
           /\ AsksLive(q) => Path[g] = q.start
           /\ Booked(OperationsOf[g], Path[g], g)
<1>1. TypeOK /\ FileOrdered /\ MaxOps \in Nat \ {0}
  BY RpcAssumption DEF Inv
<1>2. PICK h \in 0..Len(file) : h = TipOf(q.start) /\ q.start = Path[h]
  BY <1>1, Ancestry
<1>3. CASE q.kind = "address"
  <2>1. AboutPath(q) = Path[h] /\ OperationsOn(AboutPath(q)) = OperationsOf[h]
    BY <1>2, <1>3 DEF AboutPath, OperationsOn
  <2>2. Booked(OperationsOf[h], Path[h], h)
    BY AllBooked
  <2>3. ShownOf(q) = Shorter(MaxOps, OperationsOf[h])
    <3>1. ShownOf(q) = PageOf(OperationsOf[h])
      BY <1>2, <1>3 DEF ShownOf, OperationsOn
    <3> QED
      BY <2>2, <3>1, PageIs DEF Booked
  <2>4. MaxOps \in 1..MaxOps
    BY <1>1
  <2> QED
    BY <1>1, <1>2, <2>1, <2>2, <2>3, <2>4
<1>4. CASE q.kind # "address"
  <2>1. /\ \E g \in 0..Len(file) : ConfirmedPath(Path[h], q.arg) = Path[g]
        /\ q.arg = 0 => ConfirmedPath(Path[h], q.arg) = Path[h]
    BY <1>1, ConfirmedIsPath
  <2>2. PICK g \in 0..Len(file) : AboutPath(q) = Path[g] /\ (q.arg = 0 => Path[g] = q.start)
    BY <1>2, <1>4, <2>1 DEF AboutPath
  <2>3. OperationsOn(AboutPath(q)) = OperationsOf[g]
    BY <1>1, <2>2, TipOfPath DEF OperationsOn
  <2>4. ShownOf(q) = Shorter(1, OperationsOf[g])
    BY <1>4, <2>3 DEF ShownOf, AboutPath, LatestOf
  <2>5. Booked(OperationsOf[g], Path[g], g)
    BY AllBooked
  <2>6. 1 \in 1..MaxOps /\ 1 \in Nat \ {0}
    BY <1>1
  <2>7. AsksLive(q) => Path[g] = q.start
    BY <1>4, <2>2 DEF AsksLive
  <2> QED
    BY <2>2, <2>3, <2>4, <2>5, <2>6, <2>7
<1> QED
  BY <1>3, <1>4

\* What a query has found stays so, whatever step is taken.
LEMMA BalanceKept ==
  ASSUME Inv, Inv', ContentsOK, ContentsSound, RpcNext, NEW q, q.arg \in Nat, BalanceSound(q)
  PROVE  BalanceSound(q)'
<1>1. TypeOK /\ FileOrdered
  BY DEF Inv
<1>2. PICK h : h = TipOf(q.start) /\ h \in 1..Len(file) /\ q.start = Path[h]
  BY DEF BalanceSound
<1>3. h \in 0..Len(file) /\ h \in 1..Len(file')
  <2>1. Parents /\ Parents' /\ Len(file) <= Len(file')
    BY <1>1, ParentsHold, ParentsNext, PathsKept DEF Inv
  <2> QED
    BY <1>2, <2>1 DEF Parents
<1>4. /\ Path'[h] = q.start
      /\ \A i \in 1..Len(q.start) : contents'[q.start[i]] = contents[q.start[i]]
  BY <1>2, <1>3, PathsKept
<1>6. OperationsOn(AboutPath(q))' = OperationsOn(AboutPath(q))
  <2>1. PICK p, g : p = AboutPath(q) /\ g = TipOf(p)
    OBVIOUS
  <2>2. g \in 0..Len(file)
    <3>1. PICK k \in 0..Len(file) : p = Path[k]
      BY <1>2, <1>3, <2>1, ShownIs
    <3> QED
      BY <1>1, <2>1, <3>1, TipOfPath
  <2>3. AboutPath(q)' = p
    BY <2>1 DEF AboutPath, ConfirmedPath
  <2>4. OperationsOn(AboutPath(q))' = OperationsOf'[g]
    BY <2>1, <2>3 DEF OperationsOn, TipOf
  <2>5. OperationsOn(AboutPath(q)) = OperationsOf[g]
    BY <2>1 DEF OperationsOn
  <2> QED
    BY <2>2, <2>4, <2>5, OperationsKept
<1>7. ShownOf(q)' = ShownOf(q)
  <2>1. PICK ops : ops = OperationsOn(AboutPath(q))
    OBVIOUS
  <2>2. ShownOf(q) = IF q.kind = "address" THEN PageOf(ops) ELSE LatestOf(ops)
    BY <2>1 DEF ShownOf, AboutPath
  <2>3. ShownOf(q)' = (IF q.kind = "address" THEN PageOf(OperationsOn(AboutPath(q)))
                       ELSE LatestOf(OperationsOn(AboutPath(q))))'
    BY DEF ShownOf, AboutPath
  <2>4. PageOf(OperationsOn(AboutPath(q)))' = PageOf(ops)
    BY <1>6, <2>1 DEF PageOf, Shorter, Differences, NoOperation
  <2>5. LatestOf(OperationsOn(AboutPath(q)))' = LatestOf(ops)
    BY <1>6, <2>1 DEF LatestOf, Shorter
  <2> QED
    BY <2>2, <2>3, <2>4, <2>5
<1>8. Shown(OnTop(ShownOf(q)))' = Shown(OnTop(ShownOf(q)))
  BY <1>7 DEF Shown, OnTop, WithOperation, Operation, Latest, NoOperation, Shorter, Shared
<1>9. TipOf(q.start)' = h
  BY <1>2 DEF TipOf
<1>10. /\ q.pc \in {"scan", "live", "confirm", "done"} /\ (q.pc = "live" => AsksLive(q))
       /\ q.pc # "scan" =>
            \/ ~q.live /\ q.ops = ShownOf(q)
            \/ /\ q.live /\ q.pc # "live" /\ AsksLive(q)
               /\ q.ops = Shown(OnTop(ShownOf(q)))
       /\ q.pc = "scan" => ~q.live
  BY DEF BalanceSound
<1>11. AsksLive(q)' <=> AsksLive(q)
  BY DEF AsksLive
<1> QED
  BY <1>3, <1>4, <1>7, <1>8, <1>9, <1>10, <1>11 DEF BalanceSound

\* A step of the query itself.
LEMMA BalanceHandled ==
  ASSUME LoopInv, QueryTyped, ContentsSound, Undisturbed,
         query.kind \in {"address", "balance"}, BalanceSound(query), Handles,
         NEW q, q = query'
  PROVE  BalanceSound(q) /\ q.arg = query.arg
<1>1. /\ query.pc \in {"scan", "live", "confirm", "done"}
      /\ TipOf(query.start) \in 1..Len(file) /\ query.start = Path[TipOf(query.start)]
      /\ query.pc = "live" => AsksLive(query)
      /\ query.pc # "scan" =>
           \/ ~query.live /\ query.ops = ShownOf(query)
           \/ /\ query.live /\ query.pc # "live" /\ AsksLive(query)
              /\ query.ops = Shown(OnTop(ShownOf(query)))
      /\ query.pc = "scan" => ~query.live
  BY DEF BalanceSound
<1>2. ASSUME q.kind = query.kind, q.arg = query.arg, q.start = query.start
      PROVE  ShownOf(q) = ShownOf(query) /\ (AsksLive(q) <=> AsksLive(query))
  BY <1>2 DEF ShownOf, AsksLive
<1>3. CASE Scan
  <2>1. /\ query.pc = "scan" /\ q.kind = query.kind /\ q.arg = query.arg
        /\ q.start = query.start /\ q.ops = ShownOf(query) /\ q.live = query.live
        /\ q.pc = IF AsksLive(query) THEN "live" ELSE "done"
    BY <1>3 DEF Scan, Steps, Becomes, QueryTyped, Fields, ShownOf, AsksLive
  <2> QED
    BY <1>1, <1>2, <2>1 DEF BalanceSound
<1>4. CASE AddLive
  <2>1. /\ query.pc = "live" /\ q.kind = query.kind /\ q.arg = query.arg
        /\ q.start = query.start /\ q.pc \in {"confirm", "done"} /\ q.live = listed
        /\ q.ops = Shown(IF listed THEN OnTop(query.ops) ELSE query.ops)
    BY <1>4 DEF AddLive, Steps, Becomes, QueryTyped, Fields
  <2>2. query.ops = ShownOf(query) /\ AsksLive(query)
    BY <1>1, <2>1
  <2>3. CASE listed
    BY <1>1, <1>2, <2>1, <2>2, <2>3 DEF BalanceSound
  <2>4. CASE ~listed
    <3>1. Shown(ShownOf(query)) = ShownOf(query)
      <4>1. PICK g \in 0..Len(file), n \in 1..MaxOps :
              /\ ShownOf(query) = Shorter(n, OperationsOf[g]) /\ n \in Nat
              /\ Booked(OperationsOf[g], Path[g], g)
        BY <1>1, ShownIs DEF LoopInv, QueryTyped
      <4>2. Len(ShownOf(query)) \in Nat /\ Len(ShownOf(query)) <= n
        <5>1. OperationsOf[g] \in Seq(Op)
          BY <4>1 DEF Booked, Recordings
        <5> QED
          BY <4>1, <5>1, ShorterIs
      <4>3. Len(ShownOf(query)) <= MaxOps
        BY <4>2, RpcAssumption
      <4> QED
        BY <4>3 DEF Shown, Shorter
    <3> QED
      BY <1>1, <1>2, <2>1, <2>2, <2>4, <3>1 DEF BalanceSound
  <2> QED
    BY <2>3, <2>4
<1>5. CASE ConfirmOperation \/ Confirmed
  <2>1. /\ query.pc = "confirm" /\ q.kind = query.kind /\ q.arg = query.arg
        /\ q.start = query.start /\ q.pc \in {"confirm", "done"} /\ q.ops = query.ops
        /\ q.live = query.live
    BY <1>5 DEF ConfirmOperation, Confirmed, Steps, Becomes, QueryTyped, Fields, AnswerWith
  <2> QED
    BY <1>1, <1>2, <2>1 DEF BalanceSound
<1>6. CASE FindBlock \/ LoadBlock \/ LoadLinks \/ ConvertLink \/ Converted \/ GetPage
           \/ CollectOutputs \/ AddPending
  BY <1>1, <1>6 DEF FindBlock, LoadBlock, LoadLinks, ConvertLink, Converted, GetPage,
    CollectOutputs, AddPending, Steps
<1> QED
  BY <1>3, <1>4, <1>5, <1>6 DEF Handles

LEMMA BalanceNext ==
  ASSUME LoopInv, LoopInv', QueryTyped, QueryTyped', ContentsOK, ContentsSound, BalanceOK,
         RpcNext
  PROVE  BalanceOK'
<1>1. PICK q : q = query'
  OBVIOUS
<1>2. BalanceSound(q)' => BalanceSound(query)'
  BY <1>1 DEF BalanceSound, AsksLive, ShownOf, OperationsOn, ConfirmedPath, OnPath, TipOf
<1> SUFFICES ASSUME Undisturbed', q.kind \in {"address", "balance"} PROVE BalanceSound(q)'
  BY <1>1, <1>2 DEF BalanceOK
<1>3. ASSUME BalanceSound(q) PROVE BalanceSound(q)'
  <2>1. q.arg \in Nat
    BY <1>1 DEF QueryTyped
  <2> QED
    BY <1>3, <2>1, BalanceKept DEF LoopInv
<1> USE DEF Undisturbed
<1>4. CASE query' = NoQuery
  BY <1>4, NoQueryFields
<1>5. CASE Ask
  <2>1. PICK kind, at : AsksFor(q, kind, at)
    BY <1>1, <1>5, Asking
  <2>2. /\ q.pc = "scan" /\ q.start = currentChain /\ LockFree /\ currentChain # <<>>
        /\ ~q.live
    BY <2>1 DEF AsksFor
  <2>3. PathAbove(currentChain, 0, Null)
    BY <2>2, Zenon DEF LoopInv, Inv, ChainOK, LockFree
  <2>4. TipOf(currentChain) \in DOMAIN blocks \cup {Null} /\ currentChain = Path[TipOf(currentChain)]
    BY <2>3, ChainIsPath DEF LoopInv
  <2>5. TipOf(currentChain) # Null
    <3>1. Path[0] = <<>>
      BY RecursionsHold DEF LoopInv, Inv, Recursions
    <3> QED
      BY <2>2, <2>4, <3>1
  <2>6. TipOf(currentChain) \in 1..Len(file)
    BY <2>4, <2>5, TreeFacts DEF LoopInv
  <2> QED
    BY <1>3, <2>2, <2>4, <2>6 DEF BalanceSound
<1>6. CASE Handles
  <2>1. KeepsQuestion(q) /\ query.pc # "idle"
    BY <1>1, <1>6, HandlesKeeps
  <2>2. Undisturbed /\ query.kind = q.kind
    BY <1>1, <2>1 DEF KeepsQuestion
  <2>3. BalanceSound(query)
    BY <2>2 DEF BalanceOK
  <2> QED
    BY <1>1, <1>3, <1>6, <2>2, <2>3, BalanceHandled
<1>7. CASE query.pc # "idle" /\ GoesOn(q)
  <2>1. Undisturbed /\ query.kind = q.kind
    BY <1>1, <1>7 DEF GoesOn, QueryTyped
  <2>2. BalanceSound(query)
    BY <2>1 DEF BalanceOK
  <2>3. /\ q.pc = query.pc /\ q.kind = query.kind /\ q.arg = query.arg
        /\ q.start = query.start /\ q.ops = query.ops /\ q.live = query.live
    BY <1>7 DEF GoesOn
  <2>4. BalanceSound(q)
    BY <2>2, <2>3 DEF BalanceSound, AsksLive, ShownOf
  <2> QED
    BY <1>3, <2>4
<1> QED
  BY <1>1, <1>4, <1>5, <1>6, <1>7, Meanwhile, RpcCases DEF Ends, Returns, NotPromised, Becomes
\* A chain whose shared transaction is live has the output that it spends, the
\* first one, and no other of the first block.
LEMMA FirstIsUnspent ==
  ASSUME Inv, ContentsSound, NEW g \in 1..Len(file), NEW s, s = Path[g], ~OnPath(s, "shared")
  PROVE  /\ FirstOutput(s) \in UnspentOn(s) /\ OutputValue(FirstOutput(s)) = 2
         /\ {o \in UnspentOn(s) : o.of # s[1]} = UnspentOn(s) \ {FirstOutput(s)}
<1>1. TypeOK /\ FileOrdered
  BY DEF Inv
<1>2. /\ g \in 0..Len(file) /\ g # 0
      /\ s[1] # Shared /\ Has(s[1], "own") /\ s \in Seq(Nat) /\ Len(s) \in Nat /\ Len(s) # 0
      /\ \A i \in 1..Len(s) : Len(Path[s[i]]) = i
  <2>1. g \in 0..Len(file) /\ g # 0
    BY <1>1, Ancestry
  <2>2. s \in Seq(Nat) /\ Len(s) # 0
    BY <1>1, <2>1, PathTypes
  <2>3. 1 \in 1..Len(s)
    BY <2>2
  <2>4. s[1] # Shared /\ Has(s[1], "own")
    BY <2>1, <2>3, AllBooked
  <2>5. \A i \in 1..Len(s) : Len(Path[s[i]]) = i
    BY <1>1, <2>1, PathElements
  <2> QED
    BY <2>1, <2>2, <2>4, <2>5
<1>3. 1 \in 1..Len(s) /\ FirstOutput(s) = [of |-> s[1], height |-> 1 - 1]
  BY <1>2 DEF FirstOutput
<1>4. FirstOutput(s) \in UnspentOn(s)
  BY <1>2, <1>3, UnspentIs
<1>5. OutputValue(FirstOutput(s)) = 2
  BY <1>2 DEF OutputValue, FirstOutput
<1>6. ASSUME NEW o \in UnspentOn(s) PROVE o.of # s[1] <=> o # FirstOutput(s)
  <2>1. PICK i \in 1..Len(s) : o = [of |-> s[i], height |-> i - 1]
    <3>1. \A i \in 1..Len(s) : ~Has(s[i], "shared")
      BY DEF OnPath
    <3> QED
      BY <1>6, <3>1, UnspentIs
  <2>2. s[i] = s[1] => i = 1
    BY <1>2, <1>3
  <2> QED
    BY <1>3, <2>1, <2>2 DEF FirstOutput
<1> QED
  BY <1>4, <1>5, <1>6

\* What is answered of a chain, when it is answered.
LEMMA BalanceAnswered ==
  ASSUME Inv, ContentsSound, NEW q, q.arg \in Nat, BalanceSound(q), q.pc = "done",
         NEW s, s = AboutPath(q), ~(q.live /\ OnPath(s, "shared"))
  PROVE  /\ Shows(q.ops)
         /\ Balance(q.ops) =
              IF q.live THEN Value({o \in UnspentOn(s) : o.of # FirstBlock}) + 1
              ELSE Value(UnspentOn(s))
<1>1. /\ TipOf(q.start) \in 1..Len(file) /\ q.start = Path[TipOf(q.start)]
      /\ \/ ~q.live /\ q.ops = ShownOf(q)
         \/ /\ q.live /\ AsksLive(q) /\ q.ops = Shown(OnTop(ShownOf(q)))
  BY DEF BalanceSound
<1>2. PICK g \in 0..Len(file), n \in 1..MaxOps :
        /\ s = Path[g] /\ ShownOf(q) = Shorter(n, OperationsOf[g]) /\ n \in Nat \ {0}
        /\ AsksLive(q) => Path[g] = q.start
        /\ Booked(OperationsOf[g], Path[g], g)
  BY <1>1, ShownIs
<1>3. PICK ops : ops = OperationsOf[g]
  OBVIOUS
<1>4. /\ Recordings(ops) /\ Balance(ops) = Value(UnspentOn(s))
      /\ IsFiniteSet(UnspentOn(s)) /\ Value(UnspentOn(s)) \in Nat
      /\ \A i \in 1..Len(ops) :
           IF ops[i].of = Shared THEN OnPath(s, "shared") ELSE ops[i].of \in 1..g
  BY <1>2, <1>3 DEF Booked
<1>5. PICK t : t = ShownOf(q)
  OBVIOUS
<1>6. /\ Shows(t) /\ Latest(t) = Latest(ops)
      /\ \A i \in 1..Len(t) : i \in 1..Len(ops) /\ t[i] = ops[i]
  BY <1>2, <1>3, <1>4, <1>5, RecordingsShow, ShorterShows
<1>7. /\ Shared \in Nat /\ Shared # Null /\ MaxOps \in Nat \ {0}
      /\ Latest(ops) \in Op
  BY <1>4, ConstantsAssumption, RpcAssumption, LatestTyped DEF Shared, Recordings
<1>8. CASE ~q.live /\ q.ops = t
  BY <1>4, <1>6, <1>8 DEF Balance
<1>9. CASE q.live /\ AsksLive(q) /\ q.ops = Shown(OnTop(t))
  <2>1. s = q.start /\ ~OnPath(s, "shared")
    BY <1>2, <1>9
  <2>2. \A i \in 1..Len(ops) : ops[i].of # Shared
    BY <1>4, <2>1
  <2>3. Shows(OnTop(t)) /\ Latest(OnTop(t)) = Operation(Shared, Latest(t))
    BY <1>6, <1>7, <2>2, OnTopShows
  <2>4. Shows(q.ops) /\ Latest(q.ops) = Operation(Shared, Latest(ops))
    <3>1. Shown(OnTop(t)) = Shorter(MaxOps, OnTop(t))
      BY DEF Shown
    <3> QED
      BY <1>6, <1>7, <1>9, <2>3, <3>1, ShorterShows
  <2>6. Balance(q.ops) = Balance(ops) - 1
    <3>1. Latest(WithOperation(ops, Shared)) = Operation(Shared, Latest(ops))
      BY <1>4, <1>7, <2>2, AddedOperation
    <3>2. Balance(WithOperation(ops, Shared)) = Balance(ops) - 1
      BY <1>4, <1>7, <2>2, BalanceGrows
    <3> QED
      BY <2>4, <3>1, <3>2 DEF Balance
  <2>7. PICK h \in 1..Len(file) : s = Path[h]
    BY <1>1, <2>1
  <2>8. /\ FirstOutput(s) \in UnspentOn(s) /\ OutputValue(FirstOutput(s)) = 2
        /\ {o \in UnspentOn(s) : o.of # s[1]} = UnspentOn(s) \ {FirstOutput(s)}
    BY <2>1, <2>7, FirstIsUnspent
  <2>9. /\ Value({o \in UnspentOn(s) : o.of # s[1]}) = Value(UnspentOn(s)) - 2
        /\ s[1] = FirstBlock
    <3>1. h \in 0..Len(file) /\ h # 0
      BY Ancestry DEF Inv
    <3>2. s[1] = FirstBlock
      BY <2>7, <3>1, AllBooked DEF FirstBlock
    <3> QED
      BY <1>4, <2>8, <3>2, ValueRemoved
  <2>10. PICK v, w : /\ v = Value(UnspentOn(s)) /\ v \in Nat
                     /\ w = Value({o \in UnspentOn(s) : o.of # FirstBlock})
    BY <1>4
  <2>11. w = v - 2 /\ Balance(q.ops) = v - 1 /\ v \in Nat
    BY <1>4, <2>1, <2>6, <2>9, <2>10
  <2>12. Balance(q.ops) = w + 1
    BY <2>11
  <2> QED
    BY <1>9, <2>4, <2>10, <2>12
<1> QED
  BY <1>1, <1>5, <1>8, <1>9

-----------------------------------------------------------------------------
(* The index of unspent outputs, as blocks are processed and undone.       *)

\* What a block adds to the chain of its parent.
NewOn(s, h) ==
  /\ s \in Seq(Nat) /\ h \in Nat /\ h # Shared /\ FirstBlock # Shared
  /\ \A i \in 1..Len(s) : s[i] # Shared /\ s[i] # h
  /\ \A i, j \in 1..Len(s) : s[i] = s[j] => i = j
  /\ s # <<>> => s[1] = FirstBlock /\ Has(FirstBlock, "own")
  /\ Has(h, "shared") => ~OnPath(s, "shared") /\ s # <<>>

LEMMA AddedBlock ==
  ASSUME Inv, ContentsSound, NEW h \in 1..Len(file), NEW s, s = Path[file[h].previous]
  PROVE  NewOn(s, h) /\ Path[h] = Append(s, h)
<1>1. /\ TypeOK /\ FileOrdered /\ Len(file) \in Nat
      /\ h \in 0..Len(file) /\ h # 0 /\ file[h].previous \in 0..Len(file)
  BY Ancestry DEF Inv
<1>2. Path[h] = Append(s, h) /\ s \in Seq(Nat)
  BY <1>1, RecursionsHold, PathTypes DEF Recursions
<1>3. /\ Len(s) \in Nat /\ Path[h][Len(s) + 1] = h /\ Len(s) + 1 \in 1..Len(Path[h])
      /\ \A i \in 1..Len(s) : i \in 1..Len(Path[h]) /\ Path[h][i] = s[i]
  BY <1>1, <1>2
<1>4. \A i \in 1..Len(Path[h]) : /\ Path[h][i] # Shared
                                 /\ Len(Path[Path[h][i]]) = i
  BY <1>1, AllBooked, PathElements
<1>5. h # Shared /\ FirstBlock # Shared
  BY <1>1, ConstantsAssumption DEF Shared, FirstBlock, Inv, FileOrdered
<1>6. \A i \in 1..Len(s) : s[i] # Shared /\ s[i] # h
  <2> TAKE i \in 1..Len(s)
  <2>1. Len(Path[s[i]]) = i /\ Len(Path[h]) = Len(s) + 1 /\ s[i] # Shared
    BY <1>2, <1>3, <1>4
  <2> QED
    BY <1>3, <2>1
<1>7. ASSUME NEW i \in 1..Len(s), NEW j \in 1..Len(s), s[i] = s[j] PROVE i = j
  <2>1. Len(Path[s[i]]) = i /\ Len(Path[s[j]]) = j
    BY <1>3, <1>4
  <2> QED
    BY <1>7, <2>1
<1>8. s # <<>> => s[1] = FirstBlock /\ Has(FirstBlock, "own")
  <2> SUFFICES ASSUME s # <<>> PROVE s[1] = FirstBlock /\ Has(FirstBlock, "own")
    OBVIOUS
  <2>1. file[h].previous # 0
    BY <1>1, RecursionsHold DEF Recursions
  <2> QED
    BY <1>1, <2>1, AllBooked DEF FirstBlock
<1>9. Has(h, "shared") => ~OnPath(s, "shared") /\ s # <<>>
  <2> SUFFICES ASSUME Has(h, "shared") PROVE ~OnPath(s, "shared") /\ s # <<>>
    OBVIOUS
  <2>1. ~OnPath(s, "shared")
    BY DEF ContentsSound
  <2>2. h # 1
    <3>1. file # <<>>
      BY <1>1
    <3> QED
      BY <3>1 DEF ContentsSound, Has
  <2>3. file[h].previous \in 1..Len(file)
    BY <1>1, <2>2 DEF FileOrdered
  <2>4. Len(s) \in Nat \ {0}
    <3>1. PICK p : p = file[h].previous
      OBVIOUS
    <3>2. Len(Path[p]) = Len(Path[file[p].previous]) + 1 /\ Len(Path[file[p].previous]) \in Nat
      BY <1>1, <2>3, <3>1, PathTypes
    <3>3. PICK n \in Nat : n = Len(Path[file[p].previous])
      BY <3>2
    <3>4. Len(s) = n + 1
      BY <3>1, <3>2, <3>3
    <3> QED
      BY <3>4
  <2> QED
    BY <2>1, <2>4
<1> QED
  BY <1>1, <1>2, <1>5, <1>6, <1>7, <1>8, <1>9 DEF NewOn

\* The unspent outputs of the parent's chain that the block touches.
LEMMA TouchedOutputs ==
  ASSUME NEW s, NEW h, NewOn(s, h)
  PROVE  /\ \A o \in UnspentOn(s) :
              /\ o.of # h
              /\ Has(h, "shared") => o.of # Shared /\ (o.of = FirstBlock <=> o = FirstOutput(s))
         /\ Has(h, "shared") => /\ FirstOutput(s) \in UnspentOn(s) /\ h # FirstBlock
                                /\ FirstOutput(s) = [of |-> FirstBlock, height |-> 0]
         /\ \A o \in UnspentOn(s) : o.of = h => Has(h, "own")
<1>1. /\ Len(s) \in Nat /\ h # Shared /\ FirstBlock # Shared
      /\ \A i \in 1..Len(s) : s[i] # Shared /\ s[i] # h
      /\ \A i, j \in 1..Len(s) : s[i] = s[j] => i = j
  BY DEF NewOn
<1>2. ASSUME NEW o \in UnspentOn(s)
      PROVE  /\ o.of # h
             /\ Has(h, "shared") => o.of # Shared /\ (o.of = FirstBlock <=> o = FirstOutput(s))
  <2>1. PICK i \in 1..Len(s) :
          \/ /\ o = [of |-> s[i], height |-> i - 1]
             /\ Has(s[i], "own") /\ ~(OnPath(s, "shared") /\ i = 1)
          \/ o = [of |-> Shared, height |-> i - 1] /\ Has(s[i], "shared")
    BY UnspentIs
  <2>2. o.of = s[i] \/ o.of = Shared
    BY <2>1
  <2>3. o.of # h
    BY <1>1, <2>2
  <2>4. ASSUME Has(h, "shared")
        PROVE  o.of # Shared /\ (o.of = FirstBlock <=> o = FirstOutput(s))
    <3>1. ~OnPath(s, "shared") /\ s # <<>> /\ s[1] = FirstBlock /\ 1 \in 1..Len(s)
      BY <1>1, <2>4 DEF NewOn
    <3>2. o = [of |-> s[i], height |-> i - 1]
      BY <2>1, <3>1 DEF OnPath
    <3>3. o.of = FirstBlock <=> i = 1
      BY <1>1, <3>1, <3>2
    <3>4. i = 1 <=> o = FirstOutput(s)
      BY <3>1, <3>2, <3>3 DEF FirstOutput
    <3> QED
      BY <1>1, <3>2, <3>3, <3>4
  <2> QED
    BY <2>3, <2>4
<1>3. ASSUME Has(h, "shared")
      PROVE  /\ FirstOutput(s) \in UnspentOn(s) /\ h # FirstBlock
             /\ FirstOutput(s) = [of |-> FirstBlock, height |-> 0]
  <2>1. /\ ~OnPath(s, "shared") /\ s # <<>> /\ s[1] = FirstBlock /\ Has(s[1], "own")
        /\ 1 \in 1..Len(s)
    BY <1>1, <1>3 DEF NewOn
  <2>2. FirstOutput(s) = [of |-> s[1], height |-> 1 - 1]
    BY DEF FirstOutput
  <2> QED
    BY <1>1, <2>1, <2>2, UnspentIs
<1> QED
  BY <1>2, <1>3

LEMMA OutputsWith ==
  ASSUME NEW s, NEW h, NewOn(s, h), NEW o
  PROVE  o \in UnspentOn(Append(s, h)) <=>
           \/ o \in UnspentOn(s) /\ (Has(h, "shared") => o # FirstOutput(s))
           \/ Has(h, "own") /\ o = [of |-> h, height |-> Len(s)]
           \/ Has(h, "shared") /\ o = [of |-> Shared, height |-> Len(s)]
<1>1. PICK t : t = Append(s, h)
  OBVIOUS
<1>2. UnspentOn(t) =
        ((IF Has(h, "shared") THEN UnspentOn(s) \ {FirstOutput(s)} ELSE UnspentOn(s))
           \cup (IF Has(h, "own") THEN {[of |-> h, height |-> Len(s)]} ELSE {}))
           \cup (IF Has(h, "shared") THEN {[of |-> Shared, height |-> Len(s)]} ELSE {})
  BY <1>1, UnspentGrows DEF NewOn
<1> QED
  BY <1>1, <1>2

LEMMA UtxoGrows ==
  ASSUME NEW s, NEW h, NewOn(s, h), NEW u, NEW lost, Agrees(u, s, lost)
  PROVE  Agrees(ProcessUTXO(u, h, Len(s)), Append(s, h), lost)
<1>1. PICK n, v : n = Len(s) /\ v = ProcessUTXO(u, h, n)
  OBVIOUS
<1> SUFFICES ASSUME NEW o, o.of \notin lost
             PROVE  o \in v <=> o \in UnspentOn(Append(s, h))
  BY <1>1 DEF Agrees
<1>2. o \in u <=> o \in UnspentOn(s)
  BY DEF Agrees
<1>3. PICK own : own = IF Has(h, "own") THEN Put(u, h, n) ELSE u
  OBVIOUS
<1>4. o \in own <=> IF Has(h, "own") THEN (o \in u /\ o.of # h) \/ o = [of |-> h, height |-> n]
                    ELSE o \in u
  BY <1>3 DEF Put, Without
<1>5. v = IF Has(h, "shared") THEN Without(Put(own, Shared, n), FirstBlock) ELSE own
  BY <1>1, <1>3 DEF ProcessUTXO
<1>6. o \in v <=> IF Has(h, "shared")
                  THEN /\ (o \in own /\ o.of # Shared) \/ o = [of |-> Shared, height |-> n]
                       /\ o.of # FirstBlock
                  ELSE o \in own
  BY <1>5 DEF Put, Without
<1>7. /\ o \in UnspentOn(s) =>
           /\ o.of # h
           /\ Has(h, "shared") => o.of # Shared /\ (o.of = FirstBlock <=> o = FirstOutput(s))
      /\ Has(h, "shared") => h # FirstBlock
      /\ h # Shared /\ FirstBlock # Shared
  BY TouchedOutputs DEF NewOn
<1>8. /\ o = [of |-> h, height |-> n] => o.of = h
      /\ o = [of |-> Shared, height |-> n] => o.of = Shared
  OBVIOUS
<1>9. o \in UnspentOn(Append(s, h)) <=>
        \/ o \in UnspentOn(s) /\ (Has(h, "shared") => o # FirstOutput(s))
        \/ Has(h, "own") /\ o = [of |-> h, height |-> n]
        \/ Has(h, "shared") /\ o = [of |-> Shared, height |-> n]
  BY <1>1, OutputsWith
<1> QED
  BY <1>2, <1>4, <1>6, <1>7, <1>8, <1>9

LEMMA UtxoShrinks ==
  ASSUME NEW s, NEW h, NewOn(s, h), NEW u, NEW lost, Agrees(u, Append(s, h), lost),
         NEW less, lost \subseteq less \cup Touched({h})
  PROVE  Agrees(UndoUTXO(u, h), s, less)
<1>1. PICK v : v = UndoUTXO(u, h)
  OBVIOUS
<1> SUFFICES ASSUME NEW o, o.of \notin less
             PROVE  o \in v <=> o \in UnspentOn(s)
  BY <1>1 DEF Agrees
<1>2. o.of \in Touched({h}) <=> \/ Has(h, "own") /\ o.of = h
                                \/ Has(h, "shared") /\ o.of \in {Shared, FirstBlock}
  BY DEF Touched
<1>3. o.of \notin Touched({h}) => (o \in u <=> o \in UnspentOn(Append(s, h)))
  BY DEF Agrees
<1>4. /\ o \in v <=> \/ /\ o \in u /\ (Has(h, "own") => o.of # h)
                        /\ Has(h, "shared") => o.of # Shared /\ o.of # FirstBlock
                     \/ Has(h, "shared") /\ o = [of |-> FirstBlock, height |-> 0]
  BY <1>1 DEF UndoUTXO, RemoveOutputs, Put, Without
<1>5. o \in UnspentOn(Append(s, h)) <=>
        \/ o \in UnspentOn(s) /\ (Has(h, "shared") => o # FirstOutput(s))
        \/ Has(h, "own") /\ o = [of |-> h, height |-> Len(s)]
        \/ Has(h, "shared") /\ o = [of |-> Shared, height |-> Len(s)]
  BY OutputsWith
<1>6. /\ o \in UnspentOn(s) =>
           /\ o.of # h
           /\ Has(h, "shared") => o.of # Shared /\ (o.of = FirstBlock <=> o = FirstOutput(s))
      /\ Has(h, "shared") => /\ FirstOutput(s) \in UnspentOn(s) /\ h # FirstBlock
                             /\ FirstOutput(s) = [of |-> FirstBlock, height |-> 0]
  BY TouchedOutputs
<1>7. /\ o = [of |-> h, height |-> Len(s)] => o.of = h
      /\ o = [of |-> Shared, height |-> Len(s)] => o.of = Shared
      /\ o = [of |-> FirstBlock, height |-> 0] => o.of = FirstBlock
  OBVIOUS
<1>8. CASE o.of \in Touched({h})
  <2>1. CASE Has(h, "own") /\ o.of = h
    BY <1>4, <1>6, <1>7, <2>1
  <2>2. CASE Has(h, "shared") /\ o.of = Shared
    BY <1>4, <1>6, <1>7, <2>2 DEF NewOn
  <2>3. CASE Has(h, "shared") /\ o.of = FirstBlock
    BY <1>4, <1>6, <1>7, <2>3
  <2> QED
    BY <1>2, <1>8, <2>1, <2>2, <2>3
<1>9. CASE o.of \notin Touched({h})
  BY <1>2, <1>3, <1>4, <1>5, <1>6, <1>7, <1>9
<1> QED
  BY <1>8, <1>9

\* A block that is not processed is missed.
LEMMA UtxoMisses ==
  ASSUME NEW s, NEW h, NewOn(s, h), NEW u, NEW lost, Agrees(u, s, lost),
         NEW more, lost \cup Touched({h}) \subseteq more
  PROVE  Agrees(u, Append(s, h), more)
<1> SUFFICES ASSUME NEW o, o.of \notin more
             PROVE  o \in u <=> o \in UnspentOn(Append(s, h))
  BY DEF Agrees
<1>1. o \in u <=> o \in UnspentOn(s)
  BY DEF Agrees
<1>2. /\ Has(h, "own") => o.of # h
      /\ Has(h, "shared") => o.of # Shared /\ o.of # FirstBlock
  BY DEF Touched
<1>3. Has(h, "shared") => (o \in UnspentOn(s) => o # FirstOutput(s))
  BY <1>2, TouchedOutputs
<1>4. /\ o = [of |-> h, height |-> Len(s)] => o.of = h
      /\ o = [of |-> Shared, height |-> Len(s)] => o.of = Shared
  OBVIOUS
<1> QED
  BY <1>1, <1>2, <1>3, <1>4, OutputsWith

LEMMA AgreesButFor ==
  ASSUME NEW s, NEW u, NEW lost, Agrees(u, s, lost), NEW more, lost \subseteq more
  PROVE  Agrees(u, s, more)
  BY DEF Agrees

LEMMA TouchedByMore ==
  ASSUME NEW A, NEW B, A \subseteq B
  PROVE  Touched(A) \subseteq Touched(B) /\ \A h : B \subseteq A \cup {h} =>
                                              Touched(B) \subseteq Touched(A) \cup Touched({h})
  BY DEF Touched

LEMMA AppendedSet ==
  ASSUME NEW s \in Seq(Nat), NEW h
  PROVE  ToSet(Append(s, h)) = ToSet(s) \cup {h}
<1>1. PICK t : t = Append(s, h)
  OBVIOUS
<1>2. /\ DOMAIN t = 1..(Len(s) + 1) /\ DOMAIN s = 1..Len(s) /\ Len(s) \in Nat
      /\ t[Len(s) + 1] = h /\ \A i \in 1..Len(s) : t[i] = s[i]
  BY <1>1
<1>3. \A i \in 1..(Len(s) + 1) : i \in 1..Len(s) \/ i = Len(s) + 1
  BY <1>2
<1>4. (\A i \in 1..Len(s) : i \in 1..(Len(s) + 1)) /\ Len(s) + 1 \in 1..(Len(s) + 1)
  BY <1>2
<1> QED
  BY <1>1, <1>2, <1>3, <1>4 DEF ToSet

LEMMA LostGrows ==
  ASSUME NEW s \in Seq(Nat), NEW h
  PROVE  /\ Lost(s) \subseteq Lost(Append(s, h))
         /\ Lost(Append(s, h)) \subseteq Lost(s) \cup Touched({h})
<1>1. PICK t, A, B : t = Append(s, h) /\ A = missed \cap ToSet(s) /\ B = missed \cap ToSet(t)
  OBVIOUS
<1>2. A \subseteq B /\ B \subseteq A \cup {h}
  BY <1>1, AppendedSet
<1>3. Touched(A) \subseteq Touched(B) /\ Touched(B) \subseteq Touched(A) \cup Touched({h})
  BY <1>2, TouchedByMore
<1>4. Lost(s) = Touched(A) /\ Lost(t) = Touched(B)
  BY <1>1 DEF Lost
<1> QED
  BY <1>1, <1>3, <1>4

\* The main chain during an import, and the chain that the batch is for.
TargetTip == IF Extends THEN hash ELSE TipOf(currentChain)
TargetIsPath ==
  Importing =>
    /\ TipOf(currentChain) \in 0..Len(file) /\ currentChain = Path[TipOf(currentChain)]
    /\ hash \in 1..Len(file) /\ (Extends => file[hash].previous = TipOf(currentChain))
    /\ TargetTip \in 0..Len(file) /\ Target = Path[TargetTip]

LEMMA TargetPath == LoopInv => TargetIsPath
<1> SUFFICES ASSUME LoopInv, Importing
             PROVE  /\ TipOf(currentChain) \in 0..Len(file)
                    /\ currentChain = Path[TipOf(currentChain)]
                    /\ hash \in 1..Len(file)
                    /\ Extends => file[hash].previous = TipOf(currentChain)
                    /\ TargetTip \in 0..Len(file) /\ Target = Path[TargetTip]
  BY DEF TargetIsPath
<1> USE DEF LoopInv
<1>1. /\ TypeOK /\ FileOrdered /\ Len(file) \in Nat /\ DOMAIN blocks \subseteq 1..Len(file)
      /\ hash \in 1..Len(file) /\ pc # "rebuild" /\ blockInfo.previous = file[hash].previous
  BY Ancestry, TreeFacts, ReadFacts DEF Inv, ImportOK, Importing
<1>2. TipOf(currentChain) \in 0..Len(file) /\ currentChain = Path[TipOf(currentChain)]
  BY <1>1, ChainIsPath DEF Inv, ChainOK
<1>3. ASSUME Extends PROVE file[hash].previous = TipOf(currentChain)
  <2>1. /\ blockInfo.longestChain /\ blockInfo.previous = longestBlock
        /\ pc \in {"process", "redo"} /\ toAppend = <<>>
    BY <1>3 DEF Extends, Reorganises, ReplacesOK, Importing
  <2>2. CASE pc = "redo"
    BY <1>1, <2>1, <2>2 DEF Inv, ReorganiseOK, Lowest
  <2>3. CASE pc = "process"
    <3>1. longestBlock \in {Null, TipOf(currentChain)}
      BY <2>3 DEF Inv, ChainOK
    <3>2. CASE longestBlock # Null
      BY <1>1, <2>1, <3>1, <3>2
    <3>3. CASE longestBlock = Null
      <4>1. hash = 1
        BY <1>1, <2>1, <3>3 DEF FileOrdered
      <4>2. DOMAIN blocks = {}
        <5>1. hash = Len(dbBlocks) + 1 /\ Len(dbBlocks) \in Nat
          BY <2>3, TipLengths DEF Inv, Progress
        <5> QED
          BY <4>1, <5>1, TreeFacts
      <4>3. currentChain = <<>>
        <5>1. PathAbove(currentChain, 0, Null) /\ Len(currentChain) \in Nat
          BY <1>1, Lengths DEF Inv, ChainOK
        <5>2. Len(currentChain) = 0
          BY <4>2, <5>1 DEF PathAbove
        <5> QED
          BY <5>2 DEF Inv, TypeOK
      <4> QED
        BY <1>1, <2>1, <3>3, <4>3 DEF TipOf
    <3> QED
      BY <3>2, <3>3
  <2> QED
    BY <2>1, <2>2, <2>3
<1>4. TargetTip \in 0..Len(file) /\ Target = Path[TargetTip]
  <2>1. CASE Extends
    <3>1. Path[hash] = Append(Path[file[hash].previous], hash) /\ hash \in 0..Len(file)
      BY <1>1, RecursionsHold DEF Recursions
    <3> QED
      BY <1>2, <1>3, <2>1, <3>1 DEF Target, TargetTip
  <2>2. CASE ~Extends
    BY <1>2, <2>2 DEF Target, TargetTip
  <2> QED
    BY <2>1, <2>2
<1> QED
  BY <1>1, <1>2, <1>3, <1>4

LEMMA TargetPathNext == LoopInv' => TargetIsPath'
  BY TargetPath, PTL

\* What the index or the batch has of a chain after a step.
LEMMA InIndexNext ==
  ASSUME NEW u, NEW s, NEW bs, contents' = contents, missed' \cap ToSet(s) = bs,
         Agrees(u, s, Touched(bs))
  PROVE  InIndex(u, s)'
<1>1. Touched(bs)' = Touched(bs)
  BY DEF Touched, Has, Shared, FirstBlock
<1>2. UnspentOn(s)' = UnspentOn(s)
  BY DEF UnspentOn, OnPath, Has, Shared
<1>3. Agrees(u, s, Touched(bs))'
  BY <1>1, <1>2 DEF Agrees
<1>4. Lost(s)' = Touched(bs)'
  BY DEF Lost, Touched, ToSet, Has
<1> QED
  BY <1>3, <1>4 DEF InIndex, Agrees

LEMMA InIndexKept ==
  ASSUME NEW u, NEW s, \A i \in 1..Len(s) : contents'[s[i]] = contents[s[i]],
         DOMAIN s = 1..Len(s), missed' = missed, InIndex(u, s)
  PROVE  InIndex(u, s)'
<1>1. UnspentOn(s)' = UnspentOn(s)
  BY UnspentKept
<1>2. Lost(s)' = Lost(s)
  BY LostKept
<1> QED
  BY <1>1, <1>2 DEF InIndex, Agrees

\* Steps that change neither the index nor what the batch is for.
LEMMA UtxoStays ==
  ASSUME UtxoOK, UNCHANGED <<file, contents, dbChain, utxo, missed>>,
         starts' < 2 => starts < 2,
         Importing' => Importing /\ Target' = Target /\ batchUtxo' = batchUtxo
  PROVE  UtxoOK'
<1>1. Path' = Path
  BY DEF Path
<1>2. TipOf(dbChain)' = TipOf(dbChain)
  BY DEF TipOf
<1>3. PICK s, t, u, v : s = dbChain /\ t = Target /\ u = utxo /\ v = batchUtxo
  OBVIOUS
<1>4. \A x, y : InIndex(x, y)' <=> InIndex(x, y)
  BY DEF InIndex, Agrees, UnspentOn, OnPath, Has, Lost, Touched, Shared, FirstBlock
<1>5. InIndex(utxo, dbChain)' <=> InIndex(u, s)'
  BY <1>3 DEF InIndex, Agrees, UnspentOn, OnPath, Has, Lost, Touched, ToSet
<1>6. Importing' => (InIndex(batchUtxo, Target)' <=> InIndex(v, t)')
  BY <1>3 DEF InIndex, Agrees, UnspentOn, OnPath, Has, Lost, Touched, ToSet
<1> QED
  BY <1>1, <1>2, <1>3, <1>4, <1>5, <1>6 DEF UtxoOK

LEMMA UtxoSame ==
  ASSUME UtxoOK,
         UNCHANGED <<file, currentChain, hash, blockInfo, longestBlock, contents, dbChain,
                     utxo, batchUtxo, missed, pc, starts>>
  PROVE  UtxoOK'
<1>1. Target' = Target /\ (Importing' <=> Importing)
  BY DEF Target, Extends, Reorganises, Importing
<1> QED
  BY <1>1, UtxoStays

\* Between restores the main chain is the path to its tip, and a block that
\* extends it is one above.
ChainIsOne ==
  /\ pc # "rebuild" => /\ TipOf(currentChain) \in 0..Len(file)
                       /\ currentChain = Path[TipOf(currentChain)]
  /\ Importing /\ Extends => blockInfo.height = Len(currentChain)

LEMMA ChainOne == LoopInv => ChainIsOne
<1> SUFFICES ASSUME LoopInv PROVE ChainIsOne
  OBVIOUS
<1> USE DEF LoopInv
<1>1. ASSUME pc # "rebuild"
      PROVE  TipOf(currentChain) \in 0..Len(file) /\ currentChain = Path[TipOf(currentChain)]
  <2>1. TipOf(currentChain) \in DOMAIN blocks \cup {Null} /\ currentChain = Path[TipOf(currentChain)]
    BY <1>1, ChainIsPath DEF Inv, ChainOK
  <2> QED
    BY <2>1, TipLengths, TreeFacts
<1>2. ASSUME Importing, Extends PROVE blockInfo.height = Len(currentChain)
  <2>1. /\ Hangs(blockInfo) /\ blockInfo.previous = TipOf(currentChain) /\ pc # "rebuild"
        /\ Len(currentChain) \in Nat
    BY <1>2, TreeFacts, TargetPath, Lengths DEF TargetIsPath, Inv, ImportOK, Importing, TypeOK
  <2>2. CASE currentChain = <<>>
    <3>1. Null \notin DOMAIN blocks
      BY TreeFacts, TipLengths
    <3> QED
      BY <2>1, <2>2, <3>1 DEF Hangs, TipOf
  <2>3. CASE currentChain # <<>>
    <3>1. Len(currentChain) \in 1..Len(currentChain) /\ TipOf(currentChain) = currentChain[Len(currentChain)]
      BY <2>1, <2>3 DEF Inv, TypeOK, TipOf
    <3>2. /\ TipOf(currentChain) \in DOMAIN blocks /\ TipOf(currentChain) \in 1..Len(file)
          /\ blocks[TipOf(currentChain)].height = Len(currentChain) - 1
      BY <2>1, <3>1, ChainBlocks
    <3>3. TipOf(currentChain) # Null
      BY <3>2, TipLengths
    <3> QED
      BY <2>1, <3>2, <3>3 DEF Hangs
  <2> QED
    BY <2>2, <2>3
<1> QED
  BY <1>1, <1>2 DEF ChainIsOne

LEMMA ChainOneNext == LoopInv' => ChainIsOne'
  BY ChainOne, PTL

LEMMA UtxoCommits ==
  ASSUME LoopInv, LoopInv', ContentsSound, UtxoOK, Commits
  PROVE  UtxoOK'
<1> USE DEF LoopInv
<1>1. /\ Finish /\ utxo' = batchUtxo /\ dbChain' = currentChain' /\ contents' = contents
      /\ missed' = (missed \cup IF Reorganises THEN {hash} ELSE {}) \cap ToSet(currentChain')
      /\ pc' = "idle" /\ pc = "redo" /\ toAppend = <<>> /\ starts' = starts /\ file' = file
  BY DEF Commits, Finish
<1>2. PICK c, h, s, u : c = currentChain /\ h = hash /\ s = currentChain' /\ u = batchUtxo
  OBVIOUS
<1>3. PICK bs : bs = missed' \cap ToSet(s)
  OBVIOUS
<1>4. h \in 1..Len(file) /\ c \in Seq(Nat) /\ c = Path[TipOf(c)]
  BY <1>1, <1>2, TargetPath, PathTypes DEF TargetIsPath, Importing, Inv
<1>5. s = IF blockInfo.longestChain THEN Append(c, h) ELSE c
  BY <1>1, <1>2 DEF Finish
<1>6. ASSUME starts < 2 PROVE Agrees(u, s, Touched(bs))
  <2>1. Agrees(u, Target, Lost(Target))
    BY <1>1, <1>2, <1>6 DEF UtxoOK, InIndex, Importing
  <2>2. CASE Reorganises
    <3>1. s = Append(c, h) /\ Target = c
      BY <1>2, <1>5, <2>2 DEF Reorganises, Target, Extends
    <3>2. file[h].previous = TipOf(c)
      BY <1>1, <1>2, <2>2 DEF Reorganises, Inv, ReorganiseOK, Lowest, ImportOK, Importing
    <3>3. NewOn(c, h)
      BY <1>4, <3>2, AddedBlock
    <3>4. ToSet(s) = ToSet(c) \cup {h}
      BY <1>4, <3>1, AppendedSet
    <3>5. (missed \cap ToSet(c)) \cup {h} \subseteq bs
      BY <1>1, <1>2, <1>3, <2>2, <3>4
    <3>6. Touched(missed \cap ToSet(c)) \subseteq Touched(bs) /\ Touched({h}) \subseteq Touched(bs)
      BY <3>5, TouchedByMore
    <3> QED
      BY <2>1, <3>1, <3>3, <3>6, UtxoMisses DEF Lost
  <2>3. CASE ~Reorganises
    <3>1. s = Target
      BY <1>2, <1>5, <2>3 DEF Target, Extends
    <3>2. bs = missed \cap ToSet(s)
      BY <1>1, <1>2, <1>3, <2>3
    <3> QED
      BY <2>1, <3>1, <3>2 DEF Lost
  <2> QED
    BY <2>2, <2>3
<1>7. starts < 2 => InIndex(u, s)'
  BY <1>1, <1>3, <1>6, InIndexNext
<1>8. InIndex(utxo, dbChain)' <=> InIndex(u, s)'
  BY <1>1, <1>2 DEF InIndex, Agrees, UnspentOn, OnPath, Has, Lost, Touched, ToSet
<1>9. TipOf(dbChain)' \in 0..Len(file') /\ dbChain' = Path'[TipOf(dbChain)']
  <2>1. TipOf(currentChain)' \in 0..Len(file') /\ currentChain' = Path'[TipOf(currentChain)']
    BY <1>1, ChainOneNext DEF ChainIsOne
  <2> QED
    BY <1>1, <2>1 DEF TipOf
<1> QED
  BY <1>1, <1>7, <1>8, <1>9 DEF UtxoOK, Importing

\* What of an import changes the batch only.
LEMMA UtxoBatches ==
  ASSUME UtxoOK, UNCHANGED <<file, contents, dbChain, utxo, missed, starts>>,
         NEW v, NEW t, batchUtxo' = v, Target' = t,
         starts < 2 => Agrees(v, t, Lost(t))
  PROVE  UtxoOK'
<1>1. Path' = Path /\ TipOf(dbChain)' = TipOf(dbChain)
  BY DEF Path, TipOf
<1>2. PICK s, u : s = dbChain /\ u = utxo
  OBVIOUS
<1>3. \A x, y : InIndex(x, y)' <=> InIndex(x, y)
  BY DEF InIndex, Agrees, UnspentOn, OnPath, Has, Lost, Touched, Shared, FirstBlock
<1>4. /\ InIndex(utxo, dbChain)' <=> InIndex(u, s)'
      /\ InIndex(batchUtxo, Target)' <=> InIndex(v, t)'
  BY <1>2 DEF InIndex, Agrees, UnspentOn, OnPath, Has, Lost, Touched, ToSet
<1>5. starts < 2 => InIndex(v, t)
  BY DEF InIndex
<1> QED
  BY <1>1, <1>2, <1>3, <1>4, <1>5 DEF UtxoOK

LEMMA UtxoProcesses ==
  ASSUME LoopInv, LoopInv', IndexOK, ContentsSound, UtxoOK, BlockProcessed
  PROVE  UtxoOK'
<1> USE DEF LoopInv
<1>1. /\ ReadBlock /\ pc = "idle" /\ pc' = "process" /\ currentChain' = currentChain
      /\ UNCHANGED <<file, contents, dbChain, utxo, missed, starts>>
      /\ batchUtxo' = IF Extends' THEN ProcessUTXO(utxo, hash', blockInfo'.height) ELSE utxo
  BY DEF BlockProcessed, ReadBlock, historyVars
<1>2. PICK c, h, u, n, v, t : /\ c = currentChain /\ h = hash' /\ u = utxo
                              /\ n = blockInfo'.height /\ v = batchUtxo' /\ t = Target'
  OBVIOUS
<1>3. ChainIsOne' /\ TargetIsPath' /\ Importing' /\ Path' = Path
  BY <1>1, ChainOneNext, TargetPathNext DEF Importing, Path
<1>4. c \in Seq(Nat) /\ c = Path[TipOf(c)]
  BY <1>1, <1>2, ChainOne, PathTypes DEF ChainIsOne, Inv
<1>5. h \in 1..Len(file) /\ (Extends' => file[h].previous = TipOf(c) /\ n = Len(c))
  BY <1>1, <1>2, <1>3 DEF TargetIsPath, ChainIsOne, TipOf
<1>6. ASSUME starts < 2 PROVE Agrees(v, t, Lost(t))
  <2>1. Agrees(u, c, Lost(c))
    BY <1>1, <1>2, <1>6 DEF UtxoOK, InIndex, IndexOK, LockFree
  <2>2. CASE Extends'
    <3>1. v = ProcessUTXO(u, h, n) /\ t = Append(c, h)
      <4>1. t = Append(currentChain', hash')
        BY <1>2, <2>2 DEF Target
      <4>2. v = ProcessUTXO(utxo, hash', blockInfo'.height)
        BY <1>1, <1>2, <2>2
      <4> QED
        BY <1>1, <1>2, <4>1, <4>2
    <3>2. NewOn(c, h)
      BY <1>4, <1>5, <2>2, AddedBlock
    <3>3. Agrees(v, t, Lost(c))
      BY <1>5, <2>1, <2>2, <3>1, <3>2, UtxoGrows
    <3>4. Lost(c) \subseteq Lost(t)
      BY <1>4, <3>1, LostGrows
    <3> QED
      BY <3>3, <3>4, AgreesButFor
  <2>3. CASE ~Extends'
    <3>1. v = u /\ t = c
      <4>1. t = currentChain'
        BY <1>2, <2>3 DEF Target
      <4> QED
        BY <1>1, <1>2, <2>3, <4>1
    <3> QED
      BY <2>1, <3>1
  <2> QED
    BY <2>2, <2>3
<1> QED
  BY <1>1, <1>2, <1>6, UtxoBatches

LEMMA UtxoRejoins ==
  ASSUME LoopInv, LoopInv', ContentsSound, UtxoOK, BlockRejoins
  PROVE  UtxoOK'
<1> USE DEF LoopInv
<1>1. /\ RedoBlock /\ pc = "redo" /\ toAppend # <<>>
      /\ currentChain' = Append(currentChain, toAppend[Len(toAppend)])
      /\ UNCHANGED <<file, contents, dbChain, utxo, missed, starts, blockInfo, longestBlock>>
      /\ LET b == toAppend[Len(toAppend)]
         IN batchUtxo' = ProcessUTXO(batchUtxo, b, blocks[b].height)
  BY DEF BlockRejoins, RedoBlock, historyVars, tipVars, importVars
<1>2. PICK c, b, u : c = currentChain /\ b = toAppend[Len(toAppend)] /\ u = batchUtxo
  OBVIOUS
<1>3. Reorganises /\ blockInfo.longestChain /\ Target = c /\ Target' = Append(c, b)
  BY <1>1, <1>2 DEF ReplacesOK, Reorganises, Target, Extends
<1>4. c \in Seq(Nat) /\ c = Path[TipOf(c)]
  BY <1>1, <1>2, ChainOne, PathTypes DEF ChainIsOne, Inv
<1>5. /\ b \in 1..Len(file) /\ file[b].previous = TipOf(c) /\ blocks[b].height = Len(c)
  <2>1. b \in DOMAIN blocks /\ b \in 1..Len(file)
    BY <1>1, <1>2, TreeFacts
  <2>2. blocks[b].height = Len(c) /\ blocks[b].previous = TipOf(c)
    BY <1>1, <1>2, <1>3 DEF Inv, ReorganiseOK, Lowest
  <2> QED
    BY <2>1, <2>2 DEF Inv, TreeOK
<1>6. batchUtxo' = ProcessUTXO(u, b, Len(c))
  BY <1>1, <1>2, <1>5
<1>7. ASSUME starts < 2 PROVE Agrees(ProcessUTXO(u, b, Len(c)), Append(c, b), Lost(Append(c, b)))
  <2>1. Agrees(u, c, Lost(c))
    BY <1>1, <1>2, <1>3, <1>7 DEF UtxoOK, InIndex, Importing
  <2>2. NewOn(c, b)
    BY <1>4, <1>5, AddedBlock
  <2>3. Lost(c) \subseteq Lost(Append(c, b))
    BY <1>4, LostGrows
  <2> QED
    BY <2>1, <2>2, <2>3, UtxoGrows, AgreesButFor
<1> QED
  BY <1>1, <1>3, <1>6, <1>7, UtxoBatches

LEMMA UtxoLeaves ==
  ASSUME LoopInv, LoopInv', ContentsSound, UtxoOK, BlockLeaves
  PROVE  UtxoOK'
<1> USE DEF LoopInv
<1>1. /\ UndoBlock /\ pc = "undo" /\ Len(currentChain) > height
      /\ currentChain' = AllButLast(currentChain)
      /\ UNCHANGED <<file, contents, dbChain, utxo, missed, starts, blockInfo, longestBlock>>
      /\ batchUtxo' = UndoUTXO(batchUtxo, currentChain[Len(currentChain)])
  BY DEF BlockLeaves, UndoBlock, historyVars, tipVars, importVars
<1>2. PICK c, h, u : c = currentChain /\ h = TipOf(c) /\ u = batchUtxo
  OBVIOUS
<1>3. PICK s : s = Path[file[h].previous]
  OBVIOUS
<1>4. Reorganises /\ Target = c
  BY <1>1, <1>2 DEF ReplacesOK, Target, Extends
<1>5. Len(c) \in Nat \ {0} /\ h = c[Len(c)] /\ c = Path[h]
  <2>1. Len(c) \in Nat \ {0} /\ c # <<>>
    <3>1. Len(c) \in Nat /\ height \in Nat
      BY <1>2 DEF Inv, TypeOK
    <3>2. Len(c) > height
      BY <1>1, <1>2
    <3>3. c = <<>> => Len(c) = 0
      OBVIOUS
    <3> QED
      BY <3>1, <3>2, <3>3
  <2> QED
    BY <1>1, <1>2, <2>1, ChainOne DEF ChainIsOne, TipOf
<1>6. h \in 1..Len(file)
  <2>1. Len(c) \in 1..Len(currentChain) /\ pc # "rebuild"
    BY <1>1, <1>2, <1>5
  <2> QED
    BY <1>2, <1>5, <2>1, ChainBlocks
<1>7. NewOn(s, h) /\ c = Append(s, h) /\ s \in Seq(Nat)
  <2>1. NewOn(s, h) /\ Path[h] = Append(s, h)
    BY <1>3, <1>6, AddedBlock
  <2> QED
    BY <1>5, <2>1 DEF NewOn
<1>8. Target' = s
  <2>1. Target' = AllButLast(c)
    BY <1>1, <1>2, <1>4 DEF Target, Extends, Reorganises
  <2>2. AllButLast(Append(s, h)) = s
    BY <1>7 DEF AllButLast
  <2> QED
    BY <1>7, <2>1, <2>2
<1>9. ASSUME starts < 2 PROVE Agrees(UndoUTXO(u, h), s, Lost(s))
  <2>1. Agrees(u, c, Lost(c))
    BY <1>1, <1>2, <1>4, <1>9 DEF UtxoOK, InIndex, Importing
  <2>2. Lost(c) \subseteq Lost(s) \cup Touched({h})
    BY <1>7, LostGrows
  <2> QED
    BY <1>7, <2>1, <2>2, UtxoShrinks
<1> QED
  BY <1>1, <1>2, <1>5, <1>8, <1>9, UtxoBatches

LEMMA UtxoWritten ==
  ASSUME LoopInv, LoopInv', ContentsOK, UtxoOK, BlockWritten
  PROVE  UtxoOK'
<1>1. UNCHANGED <<dbChain, utxo, batchUtxo, missed, starts, pc, currentChain, hash, blockInfo,
                  longestBlock>>
  BY DEF BlockWritten, BlockArrives, historyVars, memVars, importVars, tipVars
<1>2. PICK s, t, u, v : s = dbChain /\ t = Target /\ u = utxo /\ v = batchUtxo
  OBVIOUS
<1>3. Target' = t /\ (Importing' <=> Importing)
  BY <1>1, <1>2 DEF Target, Extends, Reorganises, Importing
<1>4. /\ Len(file) \in Nat /\ Len(file') \in Nat /\ Len(file) <= Len(file')
      /\ \A h \in 0..Len(file) :
           /\ Path'[h] = Path[h] /\ DOMAIN Path[h] = 1..Len(Path[h])
           /\ \A i \in 1..Len(Path[h]) : contents'[Path[h][i]] = contents[Path[h][i]]
  <2>1. RpcNext
    BY DEF RpcNext
  <2>2. \A h \in 0..Len(file) : DOMAIN Path[h] = 1..Len(Path[h])
    BY PathTypes DEF LoopInv, Inv
  <2>3. Len(file) \in Nat /\ Len(file') \in Nat
    BY ParentsHold, ParentsNext DEF LoopInv, Inv, Parents
  <2> QED
    BY <2>1, <2>2, <2>3, PathsKept DEF LoopInv
<1>5. ASSUME starts < 2 PROVE InIndex(u, s)' /\ (Importing => InIndex(v, t)')
  <2>1. InIndex(u, s)'
    BY <1>1, <1>2, <1>4, <1>5, InIndexKept DEF UtxoOK
  <2>2. ASSUME Importing PROVE InIndex(v, t)'
    <3>1. TargetTip \in 0..Len(file) /\ t = Path[TargetTip]
      BY <1>2, <2>2, TargetPath DEF TargetIsPath
    <3> QED
      BY <1>1, <1>2, <1>4, <1>5, <2>2, <3>1, InIndexKept DEF UtxoOK
  <2> QED
    BY <2>1, <2>2
<1>6. /\ InIndex(utxo, dbChain)' <=> InIndex(u, s)'
      /\ InIndex(batchUtxo, Target)' <=> InIndex(v, t)'
  BY <1>1, <1>2, <1>3 DEF InIndex, Agrees, UnspentOn, OnPath, Has, Lost, Touched, ToSet
<1>7. TipOf(dbChain)' \in 0..Len(file') /\ dbChain' = Path'[TipOf(dbChain)']
  <2>1. PICK g \in 0..Len(file) : g = TipOf(dbChain) /\ dbChain = Path[g]
    BY DEF UtxoOK
  <2>2. g \in 0..Len(file') /\ Path'[g] = Path[g]
    BY <1>4
  <2> QED
    BY <1>1, <2>1, <2>2 DEF TipOf
<1> QED
  BY <1>1, <1>3, <1>5, <1>6, <1>7 DEF UtxoOK

LEMMA UtxoLoop ==
  ASSUME LoopInv, UtxoOK, LoopGoesOn
  PROVE  UtxoOK'
<1> USE DEF LoopInv
<1>1. UNCHANGED <<contents, dbChain, utxo, batchUtxo, missed>>
  BY DEF LoopGoesOn, rpcVars, historyVars
<1>2. CASE Start
  <2>1. starts \in Nat /\ starts' = starts + 1 /\ pc' = "restore" /\ file' = file
    BY <1>2, ConstantsAssumption DEF Start, Inv, TypeOK
  <2> QED
    BY <1>1, <2>1, UtxoStays DEF Importing
<1>3. CASE Restore \/ ReadFails
  <2>1. starts' = starts /\ pc' \in {"restore", "rebuild", "idle"} /\ file' = file
    BY <1>3 DEF Restore, RestoreBlock, SizeChain, RebuildChain, RestorePosition, ReadFails
  <2> QED
    BY <1>1, <2>1, UtxoStays DEF Importing
<1>4. CASE BeginCommit \/ WalkBack \/ WalkEnds
  <2>1. UNCHANGED <<file, starts, currentChain, hash, blockInfo, longestBlock>> /\ Importing
    BY <1>4 DEF BeginCommit, WalkBack, WalkEnds, tipVars, importVars, memVars, Importing
  <2>2. Target' = Target
    BY <2>1 DEF Target, Extends, Reorganises
  <2> QED
    BY <1>1, <2>1, <2>2, UtxoStays
<1>5. CASE UndoEnds
  <2>1. UNCHANGED <<file, starts, hash, blockInfo, longestBlock>> /\ Importing
    BY <1>5 DEF UndoEnds, tipVars, importVars, Importing
  <2>2. currentChain' = currentChain
    <3>1. Len(currentChain) = height /\ height \in Nat
      BY <1>5, UndoEffect
    <3>2. currentChain = [i \in 1..height |-> currentChain[i]]
      BY <3>1 DEF Inv, TypeOK
    <3>3. currentChain' = [i \in 1..height |-> currentChain[i]]
      BY <1>5, <3>1 DEF UndoEnds
    <3> QED
      BY <3>2, <3>3
  <2>3. Target' = Target
    BY <2>1, <2>2 DEF Target, Extends, Reorganises
  <2> QED
    BY <1>1, <2>1, <2>3, UtxoStays
<1> QED
  BY <1>2, <1>3, <1>4, <1>5 DEF LoopGoesOn

LEMMA UtxoNext ==
  ASSUME LoopInv, LoopInv', IndexOK, ContentsOK, ContentsSound, UtxoOK, RpcNext
  PROVE  UtxoOK'
<1>1. CASE Stops
  <2>1. UNCHANGED <<file, contents, dbChain, utxo, missed, starts>> /\ pc' = "down"
    BY <1>1 DEF Stops, Crash, AskEmpty, Down, historyVars
  <2> QED
    BY <2>1, UtxoStays DEF Importing
<1>2. CASE LiveListed \/ LiveCleared \/ Rpc
  <2>1. UNCHANGED <<vars, contents, dbChain, utxo, batchUtxo, missed>>
    BY <1>2 DEF LiveListed, LiveCleared, Rpc, Ask, AskBlock, AskIndex, AskHeight, AskHash, AskTx,
      AskPages, AskAddress, Returns, FindBlock, LoadBlock, LoadLinks, ConvertLink, Converted,
      GetPage, Scan, NotPromised, AddLive, ConfirmOperation, Confirmed, CollectOutputs,
      AddPending, Steps, rpcVars, historyVars
  <2>2. UNCHANGED <<file, currentChain, hash, blockInfo, longestBlock, pc, starts>>
    BY <2>1 DEF vars, memVars, importVars, tipVars
  <2> QED
    BY <2>1, <2>2, UtxoSame
<1> QED
  BY <1>1, <1>2, UtxoWritten, UtxoLoop, UtxoProcesses, UtxoLeaves, UtxoRejoins, UtxoCommits
     DEF RpcNext

-----------------------------------------------------------------------------
(* All of it together.                                                     *)

QueryInv ==
  /\ QueryTyped /\ CalmOK /\ IndexOK /\ UtxoOK /\ ContentsOK /\ PagesOK /\ OutputsOK
  /\ AnswersOK /\ ContentsSound /\ BalanceOK

LEMMA QueryInit == RpcInit => QueryInv
<1> SUFFICES ASSUME RpcInit PROVE QueryInv
  OBVIOUS
<1>1. /\ query = NoQuery /\ query.pc = "idle" /\ contents = <<>> /\ dbChain = <<>>
      /\ currentChain = <<>> /\ file = <<>> /\ dbBlocks = <<>> /\ utxo = {} /\ pc = "idle"
  BY NoQueryFields DEF RpcInit, Init
<1>2. QueryTyped
  <2>1. PICK q : q = query
    OBVIOUS
  <2>2. /\ DOMAIN q = Fields /\ q.start = <<>> /\ q.arg = 0 /\ q.disturbed = FALSE
        /\ q.raced = FALSE /\ q.committed = FALSE
    BY <1>1, <2>1, NoQueryFields
  <2>3. q.start \in Seq(Hash \cup {Null}) /\ q.arg \in Nat
    BY <2>2
  <2>4. q.disturbed \in BOOLEAN /\ q.raced \in BOOLEAN /\ q.committed \in BOOLEAN
    BY <2>2
  <2> QED
    BY <1>1, <2>1, <2>2, <2>3, <2>4, Zenon DEF QueryTyped
<1>3. CalmOK /\ PagesOK /\ OutputsOK /\ AnswersOK /\ BalanceOK
  BY <1>1 DEF CalmOK, PagesOK, OutputsOK, AnswersOK, BalanceOK, Undisturbed
<1>4. ContentsOK
  <2>1. <<>> \in Seq(SUBSET {"own", "shared"})
    OBVIOUS
  <2> QED
    BY <1>1, <2>1 DEF ContentsOK
<1>5. IndexOK
  <2>1. DbHeaviest
    <3>1. TipOf(dbChain) = 0 /\ Len(dbBlocks) = 0
      BY <1>1 DEF TipOf
    <3>2. Path[0] = <<>>
      <4>1. Inv
        BY InvInit DEF RpcInit
      <4> QED
        BY <4>1, RecursionsHold DEF Inv, Recursions
    <3>3. TipIs(0, 0)
      BY DEF TipIs
    <3> QED
      BY <1>1, <3>1, <3>2, <3>3 DEF DbHeaviest
  <2> QED
    BY <1>1, <2>1 DEF IndexOK
<1>6. ContentsSound
  BY <1>1 DEF ContentsSound
<1>7. UtxoOK
  <2>1. UnspentOn(<<>>) = {}
    BY UnspentIs
  <2>2. TipOf(<<>>) = 0 /\ Len(file) = 0 /\ 0 \in 0..0
    BY <1>1 DEF TipOf
  <2>3. Path[0] = <<>>
    BY InvInit, RecursionsHold DEF RpcInit, Inv, Recursions
  <2>4. InIndex(utxo, dbChain)
    BY <1>1, <2>1 DEF InIndex, Agrees
  <2> QED
    BY <1>1, <2>2, <2>3, <2>4 DEF UtxoOK, Importing
<1> QED
  BY <1>2, <1>3, <1>4, <1>5, <1>6, <1>7 DEF QueryInv

LEMMA QueryStep == LoopInv /\ LoopInv' /\ QueryInv /\ RpcNext => QueryInv'
<1> SUFFICES ASSUME LoopInv, LoopInv', QueryInv, RpcNext PROVE QueryInv'
  OBVIOUS
<1> USE DEF QueryInv
<1>1. QueryTyped'
  BY TypedNext
<1>2. CalmOK' /\ IndexOK' /\ PagesOK'
  BY <1>1, CalmNext, IndexNext, PagesNext
<1>3. ContentsOK'
  BY ContentsNext DEF LoopInv
<1>4. OutputsOK' /\ AnswersOK'
  BY <1>1, OutputsNext, AnswersNext
<1>5. ContentsSound' /\ UtxoOK'
  BY ContentsSoundNext, UtxoNext DEF LoopInv
<1>6. BalanceOK'
  BY <1>1, BalanceNext
<1> QED
  BY <1>1, <1>2, <1>3, <1>4, <1>5, <1>6

LEMMA QueryStutter == QueryInv /\ UNCHANGED allVars => QueryInv'
<1> SUFFICES ASSUME QueryInv, UNCHANGED allVars PROVE QueryInv'
  OBVIOUS
<1> USE DEF QueryInv
<1>1. UNCHANGED <<vars, rpcVars>> /\ query' = query
  BY DEF allVars
<1>2. UNCHANGED <<file, dbBlocks, blocks, blockIds, currentChain, pc, starts, longestBlock,
                  toAppend, height, hash, blockInfo, contents, dbChain, utxo, batchUtxo,
                  missed>>
  BY <1>1 DEF vars, memVars, dbVars, walkVars, importVars, tipVars, rpcVars, historyVars
<1>3. Path' = Path /\ (Misled' <=> Misled) /\ (Undisturbed' <=> Undisturbed)
  BY <1>1, <1>2 DEF Path, Misled, OnChain, Undisturbed
<1>4. QueryTyped' /\ CalmOK' /\ ContentsOK'
  BY <1>1, <1>2, <1>3 DEF QueryTyped, CalmOK, ContentsOK, LockFree
<1>5. IndexOK'
  <2>1. DbHeaviest' <=> DbHeaviest
    BY <1>2, <1>3 DEF DbHeaviest, TipIs, FirstHeaviest, TipOf, Work
  <2> QED
    BY <1>2, <2>1 DEF IndexOK, FollowsHeaviest, LockFree
<1>6. PagesOK'
  BY <1>1, <1>2, <1>3 DEF PagesOK
<1>7. OutputsOK'
  <2>1. PICK s, n : s = query.start /\ n = query.arg
    OBVIOUS
  <2>2. /\ OutputsFor(s, 0)' = OutputsFor(s, 0) /\ OutputsFor(s, n)' = OutputsFor(s, n)
        /\ Lost(s)' = Lost(s)
    <3>1. s \in Seq(Hash \cup {Null}) /\ \A i \in 1..Len(s) : contents'[s[i]] = contents[s[i]]
      BY <1>2, <2>1 DEF QueryTyped
    <3> QED
      BY <1>2, <3>1, OutputsKept, LostKept
  <2>3. /\ OutputsFor(query.start, 0)' = OutputsFor(s, 0)'
        /\ OutputsFor(query.start, query.arg)' = OutputsFor(s, n)'
        /\ Lost(query.start)' = Lost(s)'
    BY <1>1, <2>1 DEF OutputsFor, UnspentOn, OnPath, Has, ConfirmedPath, ToSet, Lost, Touched
  <2> QED
    BY <1>1, <1>2, <1>3, <2>1, <2>2, <2>3 DEF OutputsOK, Same, WithPending, Shared
<1>8. AnswersOK'
  <2>1. PICK q : q = query
    OBVIOUS
  <2>2. AnswersSound(q)' <=> AnswersSound(q)
    BY <1>1, AnswersSame
  <2>3. AnswersSound(query)' <=> AnswersSound(q)'
    BY <1>1, <2>1 DEF AnswersSound, LoadingOK, LinksOK, Answer, BlockAnswered, TxAnswered,
      OfMoment, ToConvert, OnChain, Has
  <2> QED
    BY <1>1, <1>3, <2>1, <2>2, <2>3 DEF AnswersOK
<1>9. ContentsSound'
  BY <1>2, <1>3 DEF ContentsSound, OnPath, Has
<1>10. BalanceOK'
  <2>1. OperationsOf' = OperationsOf
    BY <1>2 DEF OperationsOf, Recorded, Has, WithOperation, Latest, Operation, NoOperation, Shared
  <2>2. PICK q : q = query
    OBVIOUS
  <2>3. OperationsOn(q.start)' = OperationsOn(q.start)
    BY <2>1 DEF OperationsOn, TipOf
  <2>4. OperationsOn(ConfirmedPath(q.start, q.arg))' = OperationsOn(ConfirmedPath(q.start, q.arg))
    BY <2>1 DEF OperationsOn, TipOf, ConfirmedPath
  <2>5. ShownOf(q)' = ShownOf(q)
    BY <2>3, <2>4 DEF ShownOf, PageOf, LatestOf, Shorter, Differences, NoOperation
  <2>6. BalanceSound(q)' <=> BalanceSound(q)
    BY <1>2, <1>3, <2>5 DEF BalanceSound, AsksLive, OnPath, Has, TipOf, Shown, OnTop,
      WithOperation, Operation, Latest, NoOperation, Shorter, Shared
  <2>7. BalanceSound(query)' <=> BalanceSound(q)'
    BY <1>1, <2>2 DEF BalanceSound, AsksLive, ShownOf, OperationsOn, ConfirmedPath, OnPath, TipOf
  <2> QED
    BY <1>1, <1>3, <2>2, <2>6, <2>7 DEF BalanceOK
<1>11. UtxoOK'
  BY <1>2, UtxoSame
<1> QED
  BY <1>4, <1>5, <1>6, <1>7, <1>8, <1>9, <1>10, <1>11

LEMMA QueryAlways == RpcSpec => [](LoopInv /\ QueryInv)
<1>1. QueryInv /\ LoopInv /\ LoopInv' /\ [RpcNext]_allVars => QueryInv'
  BY QueryStep, QueryStutter
<1> QED
  BY <1>1, QueryInit, LoopAlways, PTL DEF RpcSpec

\* A client that asks getblocks for page after page, up to an empty one, has seen
\* every block of the chain it began with, whatever blocks were added meanwhile
\* (CacherServer.cpp:246-268), for every size of a page and every tree of blocks.
THEOREM PagesAlwaysCover == RpcSpec => []PagesCoverChain
<1>1. LoopInv /\ QueryInv => PagesCoverChain
  <2> SUFFICES ASSUME QueryInv, Answered({"pages"}), NEW b \in ToSet(query.start)
               PROVE  b \in query.seen
    BY DEF PagesCoverChain
  <2>1. query.pc = "done" /\ query.kind = "pages" /\ Undisturbed
    BY DEF Answered, Undisturbed
  <2>2. PICK i \in 1..Len(query.start) : query.start[i] = b
    BY DEF ToSet, QueryInv, QueryTyped
  <2> QED
    BY <2>1, <2>2 DEF QueryInv, PagesOK
<1> QED
  BY <1>1, QueryAlways, PTL

\* Up to the second restart address_unspent lists for k confirmations the outputs
\* that address_balance counts for k - 1, and with live transactions what these
\* leave of them, unless a block was committed or a size read during a change
\* (CacherServer.cpp:871 against AddressOperations.cpp:66).  Excepted are the
\* outputs that missed blocks of the chain make or spend: the tips of
\* reorganisations and the first block after a restart (main.cpp:560-570, 905-925).
THEOREM UnspentAlwaysAsBalance == RpcSpec => []UnspentAsBalance
<1>1. LoopInv /\ QueryInv => UnspentAsBalance
  <2> SUFFICES ASSUME QueryInv, Answered({"unspent"}), starts < 2, ~query.raced,
                      ~query.committed
               PROVE  \/ Same(query.seen, OutputsFor(query.start, query.arg),
                              Lost(query.start))
                      \/ /\ query.arg = 0
                         /\ Same(query.seen, WithPending(OutputsFor(query.start, query.arg)),
                                 Lost(query.start))
    BY DEF UnspentAsBalance, OutputsFor, Same, Lost
  <2>1. query.pc = "done" /\ query.kind = "unspent" /\ Undisturbed
    BY DEF Answered, Undisturbed
  <2> QED
    BY <2>1 DEF QueryInv, OutputsOK
<1> QED
  BY <1>1, QueryAlways, PTL

\* What an undisturbed answer says of a block or a transaction: it is on the main
\* chain if and only if it is, with at least one confirmation and with a number
\* of a moment of the query (CacherServer.cpp:144-163, 388-412, 514-539), however
\* the import loop's steps fall between the lookups of the handler.
THEOREM ConfirmationsAlwaysOfChain == RpcSpec => []ConfirmationsOfChain
<1>1. LoopInv /\ QueryInv => ConfirmationsOfChain
  <2> SUFFICES ASSUME LoopInv, QueryInv, Answered({"block", "tx", "address"}), ~query.raced,
                      NEW a \in query.answers
               PROVE  IF a.of # Shared
                      THEN /\ a.main <=> OnChain(a.of)
                           /\ a.main => OfMoment(query, a.of, a.confirmations)
                      ELSE /\ a.main <=> query.was
                           /\ a.main => \E b \in ToSet(currentChain) :
                                          Has(b, "shared") /\ OfMoment(query, b, a.confirmations)
    BY DEF ConfirmationsOfChain, OfMoment
  <2>1. query.pc = "done" /\ Undisturbed
    BY DEF Answered, Undisturbed
  <2>2. Answer(query, a)
    BY <2>1 DEF QueryInv, AnswersOK, AnswersSound
  <2>3. CASE a.of # Shared
    BY <2>2, <2>3 DEF Answer, BlockAnswered
  <2>4. CASE a.of = Shared
    <3>1. TxAnswered(query, a)
      BY <2>2, <2>4 DEF Answer
    <3>2. a.main <=> query.was
      BY <2>1, <3>1 DEF TxAnswered
    <3>3. ASSUME a.main
          PROVE  \E b \in ToSet(currentChain) :
                   Has(b, "shared") /\ OfMoment(query, b, a.confirmations)
      BY <3>1, <3>3 DEF TxAnswered, ToSet, LoopInv, Inv, TypeOK
    <3> QED
      BY <2>4, <3>2, <3>3
  <2> QED
    BY <2>3, <2>4
<1> QED
  BY <1>1, QueryAlways, PTL

\* An undisturbed answer of getaddress or address_balance, as long as no flag was
\* ever stale: the totals of its last operation are the value of what is unspent
\* on the chain of the beginning, as far as it has the confirmations asked for,
\* and with live transactions of what these leave and pay; of the operations of a
\* page none shows twice, and each has its own amounts (CacherServer.cpp:272-325,
\* 350-372, 435-437, 766-788), for every tree of blocks, page size and number of
\* confirmations.  Excepted is an answer with a listed transaction that is on that
\* chain already, after a commit between the poll and the look at the tip
\* (BitcoinLiveTX.cpp:54-88).
THEOREM BalanceAlwaysOfUnspent == RpcSpec => []BalanceOfUnspent
<1>1. LoopInv /\ QueryInv => BalanceOfUnspent
  <2> SUFFICES ASSUME LoopInv, QueryInv, Answered({"address", "balance"}),
                      ~(query.live /\ OnPath(AboutPath(query), "shared"))
               PROVE  BalanceOfUnspent
    BY DEF BalanceOfUnspent, AboutPath
  <2>1. PICK q : q = query
    OBVIOUS
  <2>2. PICK s : s = AboutPath(q)
    OBVIOUS
  <2>3. /\ q.pc = "done" /\ q.arg \in Nat /\ BalanceSound(q)
    BY <2>1 DEF Answered, Undisturbed, QueryInv, QueryTyped, BalanceOK
  <2>4. /\ Shows(q.ops)
        /\ Balance(q.ops) =
             IF q.live THEN Value({o \in UnspentOn(s) : o.of # FirstBlock}) + 1
             ELSE Value(UnspentOn(s))
    BY <2>1, <2>2, <2>3, BalanceAnswered DEF QueryInv, LoopInv
  <2>5. TotalsReturned = IF q.kind = "address" /\ q.fromChain = 0 THEN NoOperation
                         ELSE Latest(q.ops)
    BY <2>1 DEF TotalsReturned
  <2>6. ~(q.kind = "address" /\ q.fromChain = 0) =>
          TotalsReturned.total_output - TotalsReturned.total_input = Balance(q.ops)
    BY <2>5 DEF Balance
  <2>7. ASSUME NEW i \in 1..Len(q.ops)
        PROVE  /\ \A j \in 1..(i - 1) : q.ops[j].of # q.ops[i].of
               /\ AmountsOf(q.ops[i])
    <3>1. Len(q.ops) \in Nat
      BY <2>4 DEF Shows
    <3>2. \A j \in 1..(i - 1) : j \in 1..Len(q.ops) /\ j # i
      BY <3>1
    <3> QED
      BY <2>4, <3>2 DEF Shows
  <2>8. s = IF query.kind = "address" THEN query.start
            ELSE ConfirmedPath(query.start, query.arg)
    BY <2>1, <2>2 DEF AboutPath
  <2> QED
    BY <2>1, <2>4, <2>5, <2>6, <2>7, <2>8 DEF BalanceOfUnspent, AmountsOf
<1> QED
  BY <1>1, QueryAlways, PTL
=============================================================================

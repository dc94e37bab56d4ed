------------------------------ MODULE ChainIndex ------------------------------
(***************************************************************************)
(* The import loop of bkchaind (src/src/main.cpp): it reads blocks one by  *)
(* one from the files written by bitcoind, indexes them in LevelDB, and    *)
(* keeps in memory the tree of all blocks and the main chain, which RPC    *)
(* queries read.  On a start, the memory is rebuilt from LevelDB.          *)
(*                                                                         *)
(* The commit section of the loop and the restore are modelled one loop    *)
(* iteration per step; both run under chainMutex, so that other threads    *)
(* see the memory only when pc is "idle" or "process".                     *)
(*                                                                         *)
(* A hash is the place of its block in the files of bitcoind (the code     *)
(* only compares hashes), and the zero hash is 0.  Sequences are 1-based:  *)
(* the block of index i is blockIds[i + 1], and the block of height h of   *)
(* the main chain is currentChain[h + 1].                                  *)
(***************************************************************************)
EXTENDS Integers, Sequences

CONSTANTS
  MaxFile,        \* bound: how many blocks bitcoind writes
  Bits,           \* the values of the "bits" field of a header
  MaxStarts,      \* bound: how often the daemon is started again
  RescanIndices   \* the values of the --rescan-index option that are used

ASSUME ConstantsAssumption ==
  /\ MaxFile \in Nat
  /\ MaxStarts \in Nat
  /\ Bits \subseteq Nat \ {0}
  /\ RescanIndices \subseteq Nat

Null    == 0      \* the zero Hash256
NoIndex == -1     \* the (uint32_t)-1 of DbBlock::previous and of rescanIndex

VARIABLES
  file            \* the blocks written by bitcoind, in order

\* LevelDB: it survives the process, and a WriteBatch is atomic.
VARIABLES
  dbBlocks,       \* the DbBlock records, by block index
  dbPosition      \* BackupState: how many blocks of the files were read

\* Globals shared with the other threads, under chainMutex (Blocks.h).
VARIABLES
  blockIds, blocks, currentChain

\* Locals of main() and of the block file reader.
VARIABLES
  position,       \* how many blocks of the files were read
  rescanIndex, longestBlock, totalBits,
  hash, blockInfo, previousBlock,   \* the block being imported
  walk, height, toAppend,           \* cursor of the walk to the common block
  best, bestBits,                   \* longestBlock, totalBits of the restore
  pc,
  starts          \* how often the process was started again

dbVars     == <<dbBlocks, dbPosition>>
memVars    == <<blockIds, blocks, currentChain>>
tipVars    == <<longestBlock, totalBits>>
importVars == <<hash, blockInfo, previousBlock>>
walkVars   == <<walk, height, toAppend>>
bestVars   == <<best, bestBits>>
readVars   == <<position, rescanIndex>>
vars == <<file, dbVars, memVars, tipVars, importVars, walkVars, bestVars,
          readVars, pc, starts>>

Hash == 1..MaxFile

BlockInfo == [index: Nat, height: Nat, bits: Nat, totalBits: Nat,
              previous: Hash \cup {Null}, longestChain: BOOLEAN,
              nexts: Seq(Hash)]

DbBlock == [hash: Hash, previous: Nat \cup {NoIndex}, bits: Bits, height: Nat]

\* A value-initialised BlockInfo: what blocks[h] inserts for an unknown h.
ZeroInfo == [index |-> 0, height |-> 0, bits |-> 0, totalBits |-> 0,
             previous |-> Null, longestChain |-> FALSE, nexts |-> <<>>]

InsertOrAssign(map, key, value) ==
  [k \in DOMAIN map \cup {key} |-> IF k = key THEN value ELSE map[k]]

\* std::map::insert: no effect when the key is present.
Insert(map, key, value) ==
  [k \in DOMAIN map \cup {key} |-> IF k \in DOMAIN map THEN map[k] ELSE value]

\* BlockInfo::nexts.push_back, for the parent of a block.
WithChild(map, parent, child) ==
  [map EXCEPT ![parent].nexts = Append(@, child)]

AllButLast(s) == SubSeq(s, 1, Len(s) - 1)

TypeOK ==
  /\ file \in Seq([previous: Hash \cup {Null}, bits: Bits])
  /\ dbBlocks \in Seq(DbBlock)
  /\ dbPosition \in Nat
  /\ blockIds \in Seq(Hash)
  /\ DOMAIN blocks \subseteq Hash
  /\ \A h \in DOMAIN blocks : blocks[h] \in BlockInfo
  /\ currentChain \in Seq(Hash \cup {Null})
  /\ position \in Nat
  /\ rescanIndex \in Nat \cup {NoIndex}
  /\ longestBlock \in Hash \cup {Null}
  /\ totalBits \in Nat
  /\ hash \in Hash \cup {Null}
  /\ blockInfo \in BlockInfo
  /\ previousBlock \in Nat \cup {NoIndex}
  /\ walk \in Hash \cup {Null}
  /\ height \in Nat
  /\ toAppend \in Seq(Hash)
  /\ best \in Hash \cup {Null}
  /\ bestBits \in Nat
  /\ pc \in {"down", "restore", "rebuild", "idle",
             "process", "walk", "undo", "redo"}
  /\ starts \in 0..MaxStarts

NoBlocks == [h \in {} |-> ZeroInfo]

\* The first start on an empty database, whose restore has nothing to do.
Init ==
  /\ file = <<>>
  /\ dbBlocks = <<>> /\ dbPosition = 0
  /\ blockIds = <<>> /\ blocks = NoBlocks /\ currentChain = <<>>
  /\ position = 0 /\ rescanIndex = NoIndex
  /\ longestBlock = Null /\ totalBits = 0
  /\ hash = Null /\ blockInfo = ZeroInfo /\ previousBlock = NoIndex
  /\ walk = Null /\ height = 0 /\ toAppend = <<>>
  /\ best = Null /\ bestBits = 0
  /\ pc = "idle"
  /\ starts = 0

-----------------------------------------------------------------------------
(* bitcoind: it appends a block to its files after the parent of the block. *)

BlockArrives ==
  /\ Len(file) < MaxFile
  /\ \E p \in 0..Len(file), b \in Bits :
        /\ p = Null <=> file = <<>>
        /\ file' = Append(file, [previous |-> p, bits |-> b])
  /\ UNCHANGED <<dbVars, memVars, tipVars, importVars, walkVars, bestVars,
                 readVars, pc, starts>>

-----------------------------------------------------------------------------
(* The process stops, by a signal or a crash: only LevelDB is left.        *)

Down ==
  /\ pc' = "down"
  /\ blockIds' = <<>> /\ blocks' = NoBlocks /\ currentChain' = <<>>
  /\ position' = 0 /\ rescanIndex' = NoIndex
  /\ longestBlock' = Null /\ totalBits' = 0
  /\ hash' = Null /\ blockInfo' = ZeroInfo /\ previousBlock' = NoIndex
  /\ walk' = Null /\ height' = 0 /\ toAppend' = <<>>
  /\ best' = Null /\ bestBits' = 0
  /\ UNCHANGED <<file, dbVars, starts>>

Crash ==
  /\ pc # "down"
  /\ starts < MaxStarts
  /\ Down

\* main() up to the restore: everything is as after Down, but for the options.
\* Nothing compares the rescan index with the number of indexed blocks.
Start ==
  /\ pc = "down"
  /\ starts < MaxStarts
  /\ starts' = starts + 1
  /\ rescanIndex' \in RescanIndices \cup {NoIndex}
  /\ pc' = "restore"
  /\ UNCHANGED <<file, dbVars, memVars, tipVars, importVars, walkVars,
                 bestVars, position>>

\* The next block index to restore; a rescan restores the lower ones only.
MoreToRestore ==
  /\ Len(blockIds) < Len(dbBlocks)
  /\ rescanIndex # NoIndex => Len(blockIds) < rescanIndex

\* The restore takes the first of the heaviest chains, as the import does.
RestoreLast(total)    == total >= bestBits
RestoreLongest(total) == total > bestBits

\* The parent of the next record is among the blocks restored so far.
ParentRestored == dbBlocks[Len(blockIds) + 1].previous < Len(blockIds)

RestoreBlock ==
  /\ pc = "restore"
  /\ MoreToRestore
  /\ ParentRestored
  /\ LET index    == Len(blockIds)
         dbBlock  == dbBlocks[index + 1]
         root     == dbBlock.previous = NoIndex
         previous == IF root THEN Null ELSE blockIds[dbBlock.previous + 1]
         linked   == IF root THEN blocks
                     ELSE WithChild(blocks, previous, dbBlock.hash)
         total    == (IF root THEN 0 ELSE blocks[previous].totalBits)
                       + dbBlock.bits
     IN /\ blockIds' = Append(blockIds, dbBlock.hash)
        /\ blocks' = Insert(linked, dbBlock.hash,
                       [index |-> index, height |-> dbBlock.height,
                        bits |-> dbBlock.bits, totalBits |-> total,
                        previous |-> previous, longestChain |-> FALSE,
                        nexts |-> <<>>])
        /\ best' = IF RestoreLongest(total) THEN dbBlock.hash ELSE best
        /\ bestBits' = IF RestoreLongest(total) THEN total ELSE bestBits
  /\ UNCHANGED <<file, dbVars, currentChain, tipVars, importVars, walkVars,
                 readVars, pc, starts>>

\* It is not: blockIds is read beyond its end (nothing checks the index).  The
\* vector is still empty then, and the process faults on its null storage.
RestoreFails ==
  /\ pc = "restore"
  /\ MoreToRestore
  /\ ~ParentRestored
  /\ Down

\* Every block is restored: currentChain gets its size.
SizeChain ==
  /\ pc = "restore"
  /\ ~MoreToRestore
  /\ pc' = "rebuild"
  /\ walk' = best
  /\ currentChain' = IF best \in DOMAIN blocks
                     THEN [i \in 1..(blocks[best].height + 1) |-> Null]
                     ELSE <<>>
  /\ UNCHANGED <<file, dbVars, blockIds, blocks, tipVars, importVars,
                 height, toAppend, bestVars, readVars, starts>>

\* One block of the longest chain, from its tip down.
RebuildChain ==
  /\ pc = "rebuild"
  /\ walk \in DOMAIN blocks
  /\ blocks' = [blocks EXCEPT ![walk].longestChain = TRUE]
  /\ currentChain' = [currentChain EXCEPT ![blocks[walk].height + 1] = walk]
  /\ walk' = blocks[walk].previous
  /\ UNCHANGED <<file, dbVars, blockIds, tipVars, importVars, height,
                 toAppend, bestVars, readVars, pc, starts>>

\* The end of the restore.  Its longestBlock and totalBits (here best and
\* bestBits) go out of scope: those of the import loop keep their zeroes.
RestorePosition ==
  /\ pc = "rebuild"
  /\ walk \notin DOMAIN blocks
  /\ position' = IF rescanIndex = NoIndex THEN dbPosition ELSE position
  /\ best' = Null /\ bestBits' = 0 /\ walk' = Null
  /\ pc' = "idle"
  /\ UNCHANGED <<file, dbVars, memVars, tipVars, importVars, height,
                 toAppend, rescanIndex, starts>>

-----------------------------------------------------------------------------
(* The import loop.                                                        *)

\* readBlock() finds a complete block.
MoreToReadLast == position + 1 < Len(file)
MoreToRead     == position < Len(file)

\* Nothing to read: wait a second and try again; a rescan is over.
ReadFails ==
  /\ pc = "idle"
  /\ ~MoreToRead
  /\ rescanIndex' = NoIndex
  /\ UNCHANGED <<file, dbVars, memVars, tipVars, importVars, walkVars,
                 bestVars, position, pc, starts>>

SkipOneMore   == rescanIndex >= 0
StillSkipping == rescanIndex > 0

\* A rescan skips the blocks of the files it has restored.
SkipBlock ==
  /\ pc = "idle"
  /\ MoreToRead
  /\ StillSkipping
  /\ position' = position + 1
  /\ rescanIndex' = rescanIndex - 1
  /\ UNCHANGED <<file, dbVars, memVars, tipVars, importVars, walkVars,
                 bestVars, pc, starts>>

\* "Block already existing without rescan index."
BlockExists == rescanIndex = NoIndex /\ Len(blockIds) < Len(dbBlocks)

ReadExistingBlock ==
  /\ pc = "idle"
  /\ MoreToRead
  /\ BlockExists
  /\ Down

Heaviest(total)   == total >= totalBits
NewLongest(total) == total > totalBits

\* A block is read and its place in the tree is computed.
ReadBlock ==
  /\ pc = "idle"
  /\ MoreToRead
  /\ ~StillSkipping
  /\ ~BlockExists
  /\ LET new      == position + 1
         previous == file[new].previous
         root     == previous = Null
         known    == IF root THEN blocks ELSE Insert(blocks, previous, ZeroInfo)
         total    == file[new].bits
                       + (IF root THEN 0 ELSE known[previous].totalBits)
     IN /\ position' = new
        /\ hash' = new
        /\ blocks' = IF root THEN blocks
                     ELSE WithChild(known, previous, new)
        /\ previousBlock' = IF root THEN NoIndex ELSE known[previous].index
        /\ blockInfo' =
             [index |-> Len(blockIds),
              height |-> IF root THEN 0 ELSE known[previous].height + 1,
              bits |-> file[new].bits, totalBits |-> total,
              previous |-> previous, longestChain |-> NewLongest(total),
              nexts |-> <<>>]
  /\ pc' = "process"
  /\ UNCHANGED <<file, dbVars, blockIds, currentChain, tipVars, walkVars,
                 bestVars, rescanIndex, starts>>

\* The transactions are in the batch; the commit begins.
Reorganises == blockInfo.longestChain /\ blockInfo.previous # longestBlock

BeginCommit ==
  /\ pc = "process"
  /\ blockIds' = Append(blockIds, hash)
  /\ IF Reorganises
     THEN /\ pc' = "walk"
          /\ walk' = blockInfo.previous
          /\ height' = blockInfo.height
     ELSE /\ pc' = "redo"
          /\ UNCHANGED <<walk, height>>
  /\ UNCHANGED <<file, dbVars, blocks, currentChain, tipVars, importVars,
                 toAppend, bestVars, readVars, starts>>

BelowTip(h) ==
  /\ blocks[h].height + 1 < Len(currentChain)
  /\ currentChain[blocks[h].height + 1] = h
OnMainChain(h) ==
  /\ blocks[h].height < Len(currentChain)
  /\ currentChain[blocks[h].height + 1] = h

\* The block of the main chain that the ancestor b of the new block replaces.
ReplacedNone(b) == {}
Replaced(b) ==
  IF blocks[b].height < Len(currentChain)
  THEN {currentChain[blocks[b].height + 1]} ELSE {}

\* One ancestor of the new block that is not on the main chain.
WalkBack ==
  /\ pc = "walk"
  /\ height > 0
  /\ ~OnMainChain(walk)
  /\ blocks' = [b \in DOMAIN blocks |->
                  [blocks[b] EXCEPT !.longestChain =
                     b = walk \/ (@ /\ b \notin Replaced(walk))]]
  /\ height' = blocks[walk].height
  /\ toAppend' = Append(toAppend, walk)
  /\ walk' = blocks[walk].previous
  /\ UNCHANGED <<file, dbVars, blockIds, currentChain, tipVars, importVars,
                 bestVars, readVars, pc, starts>>

\* currentBlockHeight, once the common block is found.
CommonHeight == blocks[walk].height
AboveCommon  == blocks[walk].height + 1

\* The common block, or no block in common: height is that of the first
\* block to replace.
WalkEnds ==
  /\ pc = "walk"
  /\ \/ height = 0 /\ UNCHANGED height
     \/ height > 0 /\ OnMainChain(walk) /\ height' = AboveCommon
  /\ pc' = "undo"
  /\ walk' = Null
  /\ UNCHANGED <<file, dbVars, memVars, tipVars, importVars, toAppend,
                 bestVars, readVars, starts>>

\* One block leaves the main chain.
UndoBlock ==
  /\ pc = "undo"
  /\ Len(currentChain) > height
  /\ currentChain' = AllButLast(currentChain)
  /\ UNCHANGED <<file, dbVars, blockIds, blocks, tipVars, importVars,
                 walkVars, bestVars, readVars, pc, starts>>

\* currentChain.resize(): new elements, if any, are zero hashes.
UndoEnds ==
  /\ pc = "undo"
  /\ Len(currentChain) <= height
  /\ currentChain' = [i \in 1..height |->
                        IF i <= Len(currentChain) THEN currentChain[i] ELSE Null]
  /\ height' = 0
  /\ pc' = "redo"
  /\ UNCHANGED <<file, dbVars, blockIds, blocks, tipVars, importVars,
                 walk, toAppend, bestVars, readVars, starts>>

\* One ancestor of the new block joins the main chain.
RedoBlock ==
  /\ pc = "redo"
  /\ toAppend # <<>>
  /\ currentChain' = Append(currentChain, toAppend[Len(toAppend)])
  /\ toAppend' = AllButLast(toAppend)
  /\ UNCHANGED <<file, dbVars, blockIds, blocks, tipVars, importVars, walk,
                 height, bestVars, readVars, pc, starts>>

\* The DbBlock the batch puts at the index of the new block.
NewDbBlock == [hash |-> hash, previous |-> previousBlock,
               bits |-> blockInfo.bits, height |-> blockInfo.height]

\* BackupState: the position after the new block.
PositionBefore == position - 1
SavedPosition  == position

\* The new block is the tip, joins the tree, and the batch is written.
Finish ==
  /\ pc = "redo"
  /\ toAppend = <<>>
  /\ IF blockInfo.longestChain
     THEN /\ totalBits' = blockInfo.totalBits
          /\ longestBlock' = hash
          /\ currentChain' = Append(currentChain, hash)
     ELSE UNCHANGED <<tipVars, currentChain>>
  /\ blocks' = Insert(blocks, hash, blockInfo)
  /\ dbBlocks' = IF blockInfo.index < Len(dbBlocks)
                 THEN [dbBlocks EXCEPT ![blockInfo.index + 1] = NewDbBlock]
                 ELSE Append(dbBlocks, NewDbBlock)
  /\ dbPosition' = SavedPosition
  /\ hash' = Null /\ blockInfo' = ZeroInfo /\ previousBlock' = NoIndex
  /\ pc' = "idle"
  /\ UNCHANGED <<file, blockIds, walkVars, bestVars, readVars, starts>>

-----------------------------------------------------------------------------
Restore == RestoreBlock \/ SizeChain \/ RebuildChain \/ RestorePosition

Commit == \/ BeginCommit \/ WalkBack \/ WalkEnds \/ UndoBlock \/ UndoEnds
          \/ RedoBlock \/ Finish

\* What the main thread does next, once started.
Main == \/ Restore \/ RestoreFails \/ Commit
        \/ ReadFails \/ SkipBlock \/ ReadExistingBlock \/ ReadBlock

Next == BlockArrives \/ Crash \/ Start \/ Main

Spec == Init /\ [][Next]_vars

\* The main thread is scheduled; bitcoind need not write and nobody need
\* start the daemon again.
FairSpec == Spec /\ WF_vars(Main)
=============================================================================

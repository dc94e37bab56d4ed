------------------------- MODULE ChainIndexProperties -------------------------
(***************************************************************************)
(* What ChainIndex has to guarantee.  The reference of the properties is   *)
(* the sequence of blocks in the files: what is known of a block is        *)
(* computed from its ancestry there, and not from the bookkeeping of the   *)
(* program.                                                                *)
(***************************************************************************)
EXTENDS ChainIndex

\* The blocks from the first one to block h, and the sum of their bits.
Path[h \in 0..Len(file)] ==
  IF h = Null THEN <<>> ELSE Append(Path[file[h].previous], h)
Work[h \in 0..Len(file)] ==
  IF h = Null THEN 0 ELSE Work[file[h].previous] + file[h].bits

\* Of the first n blocks, h is heavier than those before it and at least as
\* heavy as those after it: it is the first of the heaviest.
FirstHeaviest(h, n) ==
  \A g \in 1..n : IF g < h THEN Work[g] < Work[h] ELSE Work[g] <= Work[h]

\* The tip of the main chain of the first n blocks.
BestTip(n) == IF n = 0 THEN Null ELSE CHOOSE h \in 1..n : FirstHeaviest(h, n)

\* The sequence is that of the children of h among the first n blocks, in the
\* order of the files.
ChildrenInOrder(kids, h, n) ==
  /\ {kids[i] : i \in 1..Len(kids)} = {c \in 1..n : file[c].previous = h}
  /\ \A i, j \in 1..Len(kids) : i < j => kids[i] < kids[j]

\* What a thread that holds chainMutex can see.
LockFree == pc \in {"idle", "process"}

-----------------------------------------------------------------------------
\* currentChain, as any reader sees it, is one path of the tree: it starts at
\* a block without parent, every block is the child of the one before it, and
\* its position is its height, whatever reorganisations and restarts there
\* were.  The RPC handlers index currentChain by height (CacherServer.cpp:539).
ChainLinked ==
  LockFree =>
    \A i \in 1..Len(currentChain) :
      /\ currentChain[i] \in DOMAIN blocks
      /\ blocks[currentChain[i]].height = i - 1
      /\ blocks[currentChain[i]].previous
           = IF i = 1 THEN Null ELSE currentChain[i - 1]

\* Until it is started again, the daemon is on the first of the heaviest
\* chains of the blocks it has indexed; and a restore finds the same chain
\* (main.cpp:374-378 and 397-406 against 557-571 and 834-942).
HeaviestChain ==
  pc = "idle" /\ (starts = 0 \/ longestBlock = Null) =>
    currentChain = Path[BestTip(Len(dbBlocks))]

\* A reorganisation removes no block it would have to add again: the blocks
\* that leave the main chain are not ancestors of the new block.  (Removing
\* one undoes and redoes its unspent outputs, main.cpp:879-925.)
NoNeedlessUndo ==
  [][pc = "undo" /\ pc' = "undo" /\ currentChain' # currentChain =>
       \A i \in 1..Len(Path[hash]) :
          Path[hash][i] # currentChain[Len(currentChain)]]_vars

\* The record of index i is that of the block at this place in the files, under
\* its parent and one above it.
RecordOf(i) ==
  /\ dbBlocks[i].hash = i
  /\ dbBlocks[i].previous = file[i].previous - 1
  /\ dbBlocks[i].bits = file[i].bits
  /\ dbBlocks[i].height = IF file[i].previous = Null THEN 0
                          ELSE dbBlocks[file[i].previous].height + 1
RecordsUpTo(n) == \A i \in 1..n : RecordOf(i)
RecordsOfFiles == RecordsUpTo(Len(dbBlocks))

\* Without rescans, whatever the crashes, each block of the files up to the
\* saved position is in LevelDB once, in the order of the files, under its
\* parent and one above it (main.cpp:823-831: the record and the position are
\* one batch; 481-486: a restart reads on from the position).
IndexedOnce == dbPosition = Len(dbBlocks) /\ RecordsOfFiles

\* No block has two indices.  A crash during a rescan breaks this: the saved
\* position is then behind the records (main.cpp:411).
OneIndexPerBlock ==
  \A i, j \in 1..Len(dbBlocks) : dbBlocks[i].hash = dbBlocks[j].hash => i = j

\* A restart asks for a rescan from an index above the number of records.  It
\* will skip blocks that were never indexed: nothing compares the two.
RescansAhead == pc = "restore" /\ rescanIndex > Len(dbBlocks)

\* The index of the parent of a record is smaller; but the first record may be
\* that of a block whose parent was skipped, on an empty database.
ParentsBelow ==
  \A i \in 1..Len(dbBlocks) :
    \/ dbBlocks[i].previous + 1 < i
    \/ i = 1 /\ dbBlocks[i].hash # 1

\* Whatever the crashes and rescans, a restore finds the parent of every record
\* among those before it (main.cpp:342-345, unchecked), unless a rescan of an
\* empty database skipped the first block; and as long as no block gets a second
\* index and no rescan starts above the records, all records are those of the
\* files: their heights are right, and the chain fits its array (399-406,
\* unchecked).
Restorable ==
  /\ []ParentsBelow
  /\ [](OneIndexPerBlock /\ ~RescansAhead) => []RecordsOfFiles

\* Without rescans, the tree in memory is the same whether it was built by
\* imports or by a restore: the blocks of LevelDB, their ancestry and their
\* children in the order of the files (main.cpp:322-395 against 510-555).
TreeMatchesDatabase ==
  pc = "idle" =>
    LET n == Len(dbBlocks) IN
    /\ position = n
    /\ blockIds = [i \in 1..n |-> i]
    /\ DOMAIN blocks = 1..n
    /\ \A h \in 1..n :
         /\ blocks[h].index = h - 1
         /\ blocks[h].height = Len(Path[h]) - 1
         /\ blocks[h].previous = file[h].previous
         /\ blocks[h].totalBits = Work[h]
         /\ ChildrenInOrder(blocks[h].nexts, h, n)

OnChain(h) == \E i \in 1..Len(currentChain) : currentChain[i] = h

\* BlockInfo::longestChain, which readers trust in place of currentChain
\* (AddressOperations.cpp:51, CacherServer.cpp:153), marks all blocks of the
\* main chain, whatever the reorganisations and restarts.
ChainFlagged ==
  LockFree => \A h \in DOMAIN blocks : OnChain(h) => blocks[h].longestChain

EqualBits == \A i, j \in 1..Len(file) : file[i].bits = file[j].bits

\* It marks no other block, if all blocks have the same bits: then the walk of
\* a reorganisation meets every block that leaves the main chain.
OnlyChainFlagged ==
  LockFree /\ EqualBits =>
    \A h \in DOMAIN blocks : blocks[h].longestChain => OnChain(h)

\* Until it is started again, the daemon keeps the marks of the main chain
\* (main.cpp:834-942).
FlagsCoverChain == ChainFlagged /\ OnlyChainFlagged

\* Unless the daemon is left stopped, every block of the files is in LevelDB
\* in the end: no crash, reorganisation or end of file blocks the import.
EveryBlockIndexed ==
  \A h \in Hash :
    []<>(pc # "down") /\ <>(Len(file) >= h)
      => <>(\E i \in 1..Len(dbBlocks) : dbBlocks[i].hash = h)

\* The tree and the tip of the import loop are those of BestChain.
Best == INSTANCE BestChain WITH
          Block <- Hash,
          tree  <- [h \in DOMAIN blocks |-> [parent |-> blocks[h].previous,
                                             total  |-> blocks[h].totalBits]],
          tip   <- longestBlock

\* A daemon that is not started again implements BestChain.
ImplementsBestChain == Best!Spec

\* Where the reader of the files is; it is set at the end of the restore.
ReaderPosition ==
  IF pc \in {"down", "restore", "rebuild"} THEN dbPosition ELSE position

Stream == INSTANCE BlockStream WITH
            written  <- Len(file),
            position <- ReaderPosition,
            saved    <- dbPosition

\* Without rescans, the import loop reads as BlockStream says, which BlockFiles
\* implements: block by block, from the saved position after a restart, and
\* it saves no other position than that of the block it commits
\* (main.cpp:408-415, 482-500 and 827-831).
ImplementsBlockStream == Stream!Spec

-----------------------------------------------------------------------------
(* The inductive invariant behind TypeOK, ChainLinked and IndexedOnce.     *)

\* The option --rescan-index is not used.
NoRescans == RescanIndices = {}

Importing == pc \in {"process", "walk", "undo", "redo"}
InCommit  == pc \in {"walk", "undo", "redo"}

\* bitcoind writes a block after its parent, and one block has none.
FileOrdered ==
  /\ Len(file) <= MaxFile
  /\ \A k \in 1..Len(file) :
       file[k].previous < k /\ (file[k].previous = Null <=> k = 1)

\* How far the database, the memory and the reader are, in each phase.
Progress ==
  /\ rescanIndex = NoIndex
  /\ Len(dbBlocks) <= Len(file)
  /\ Len(blockIds) <= Len(dbBlocks) + 1
  /\ pc \in {"rebuild", "idle", "process"} => Len(blockIds) = Len(dbBlocks)
  /\ InCommit => Len(blockIds) = Len(dbBlocks) + 1
  /\ pc = "restore" => Len(blockIds) <= Len(dbBlocks)
  /\ pc = "down" => Len(blockIds) = 0
  /\ pc = "idle" => position = Len(dbBlocks)
  /\ Importing => /\ position = Len(dbBlocks) + 1
                  /\ position <= Len(file)
                  /\ hash = position

\* The tree in memory is that of the database.
TreeOK ==
  /\ \A i \in 1..Len(blockIds) : blockIds[i] = i
  /\ DOMAIN blocks = 1..(IF InCommit THEN Len(blockIds) - 1 ELSE Len(blockIds))
  /\ \A h \in DOMAIN blocks :
       /\ blocks[h].index = h - 1
       /\ blocks[h].previous = file[h].previous
       /\ blocks[h].height = dbBlocks[h].height

\* What is known of the block being imported.
ImportOK ==
  Importing =>
    /\ blockInfo.index = Len(dbBlocks)
    /\ blockInfo.previous = file[hash].previous
    /\ blockInfo.bits = file[hash].bits
    /\ previousBlock = file[hash].previous - 1
    /\ blockInfo.height = IF file[hash].previous = Null THEN 0
                          ELSE dbBlocks[file[hash].previous].height + 1

\* The part of a chain above position k is a path whose lowest block has the
\* parent p.
PathAbove(chain, k, p) ==
  \A i \in (k + 1)..Len(chain) :
    /\ chain[i] \in DOMAIN blocks
    /\ blocks[chain[i]].height = i - 1
    /\ blocks[chain[i]].previous = IF i = k + 1 THEN p ELSE chain[i - 1]

\* The block a chain ends in.
TipOf(chain) == IF chain = <<>> THEN Null ELSE chain[Len(chain)]

\* The lowest block that a reorganisation still has to put on the chain.
Lowest == IF toAppend = <<>> THEN blockInfo ELSE blocks[toAppend[Len(toAppend)]]

\* The main chain and, during a reorganisation, the path that joins it.
ChainOK ==
  /\ pc \in {"down", "restore"} => currentChain = <<>>
  /\ pc # "rebuild" => PathAbove(currentChain, 0, Null)
  /\ pc \in {"down", "restore", "rebuild"} => longestBlock = Null
  /\ \/ pc \in {"idle", "process", "walk"}
     \/ pc = "redo" /\ ~blockInfo.longestChain
     => longestBlock \in {Null, TipOf(currentChain)}

RebuildOK ==
  /\ pc \in {"down", "restore", "rebuild"} => best \in DOMAIN blocks \cup {Null}
  /\ pc = "rebuild" =>
       LET k == IF walk = Null THEN 0 ELSE blocks[walk].height + 1 IN
       /\ walk \in DOMAIN blocks \cup {Null}
       /\ k <= Len(currentChain)
       /\ PathAbove(currentChain, k, walk)

ReorganiseOK ==
  /\ toAppend # <<>> => InCommit /\ toAppend[1] = blockInfo.previous
  /\ \A j \in 1..Len(toAppend) :
       /\ toAppend[j] \in DOMAIN blocks
       /\ j > 1 => toAppend[j] = blocks[toAppend[j - 1]].previous
  /\ pc \in {"walk", "undo"} \/ toAppend # <<>> => blockInfo.longestChain
  /\ pc = "walk" => walk = Lowest.previous /\ height = Lowest.height
  /\ pc = "undo" =>
       /\ height = Lowest.height
       /\ height <= Len(currentChain)
       /\ Lowest.previous = IF height = 0 THEN Null ELSE currentChain[height]
  /\ pc = "redo" /\ blockInfo.longestChain =>
       /\ Lowest.height = Len(currentChain)
       /\ Lowest.previous = TipOf(currentChain)

Inv ==
  /\ TypeOK
  /\ FileOrdered
  /\ IndexedOnce
  /\ Progress
  /\ TreeOK
  /\ ImportOK
  /\ ChainOK
  /\ RebuildOK
  /\ ReorganiseOK

-----------------------------------------------------------------------------
(* The inductive invariant behind Restorable, with rescans.                *)

\* The records that were restored, or written since the start.
InMemory == Len(blockIds) - (IF InCommit THEN 1 ELSE 0)

\* The blocks of the files that a rescan still skips.
ToSkip == IF rescanIndex > 0 THEN rescanIndex ELSE 0

RescanTypes ==
  /\ file \in Seq([previous: Hash \cup {Null}, bits: Bits])
  /\ dbBlocks \in Seq(DbBlock)
  /\ dbPosition \in Nat
  /\ blockIds \in Seq(Hash)
  /\ DOMAIN blocks \subseteq Hash
  /\ \A h \in DOMAIN blocks : blocks[h] \in BlockInfo
  /\ position \in Nat
  /\ rescanIndex \in Nat \cup {NoIndex}
  /\ totalBits \in Nat
  /\ pc \in {"down", "restore", "rebuild", "idle",
             "process", "walk", "undo", "redo"}
  /\ Importing =>
       /\ hash \in 1..Len(file) /\ blockInfo \in BlockInfo
       /\ previousBlock \in Nat \cup {NoIndex}
       /\ blockInfo.bits = file[hash].bits

\* The next block is that of the next index while records are overwritten.
RescanPlaces ==
  /\ InMemory <= Len(dbBlocks)
  /\ \A i \in 1..Len(dbBlocks) : dbBlocks[i].hash <= Len(file)
  /\ pc = "down" => /\ blockIds = <<>> /\ blocks = NoBlocks
                    /\ position = 0 /\ rescanIndex = NoIndex
  /\ pc = "restore" =>
       /\ position = 0
       /\ rescanIndex # NoIndex => Len(blockIds) <= rescanIndex
       /\ \A i \in 1..Len(blockIds) : blockIds[i] \in DOMAIN blocks
  /\ pc = "rebuild" =>
       /\ position = 0
       /\ Len(blockIds) < Len(dbBlocks) => Len(blockIds) = rescanIndex
  /\ pc = "idle" /\ rescanIndex # NoIndex /\ Len(blockIds) < Len(dbBlocks) =>
       position + ToSkip = Len(blockIds)
  /\ Importing =>
       /\ ToSkip = 0 /\ position = hash /\ blockInfo.index = InMemory
       /\ InMemory < Len(dbBlocks) => hash = InMemory + 1
  /\ InCommit => blockIds[Len(blockIds)] = hash

\* The block being imported comes after blocks that were never indexed.
SkipsBlocks == Importing /\ hash > InMemory + 1

\* Parents have smaller indices; and what was read from right records is right.
RescanTree ==
  /\ ParentsBelow
  /\ \A h \in DOMAIN blocks :
       blocks[h].index < Len(blockIds) \/ blocks[h].index = 0
  /\ Importing =>
       previousBlock < InMemory \/ (InMemory = 0 /\ hash # 1)
  /\ RecordsUpTo(InMemory) /\ ~SkipsBlocks =>
       /\ \A i \in 1..InMemory : blockIds[i] = i
       /\ DOMAIN blocks = 1..InMemory
       /\ \A h \in DOMAIN blocks : /\ blocks[h].index = h - 1
                                   /\ blocks[h].height = dbBlocks[h].height
       /\ Importing /\ hash = InMemory + 1 =>
            /\ previousBlock = file[hash].previous - 1
            /\ blockInfo.height = IF file[hash].previous = Null THEN 0
                                  ELSE dbBlocks[file[hash].previous].height + 1

\* Without rescans that start above the records, the reader never is beyond the
\* block after those in memory.
NeverAhead ==
  /\ dbPosition <= Len(dbBlocks)
  /\ pc = "restore" => rescanIndex <= Len(dbBlocks)
  /\ pc = "rebuild" =>
       Len(blockIds) = IF rescanIndex = NoIndex THEN Len(dbBlocks) ELSE rescanIndex
  /\ pc = "idle" => position + ToSkip <= Len(blockIds)
  /\ Importing => hash <= InMemory + 1

RescanInv == FileOrdered /\ RescanTypes /\ RescanPlaces /\ RescanTree
=============================================================================

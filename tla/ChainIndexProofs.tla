--------------------------- MODULE ChainIndexProofs ---------------------------
(***************************************************************************)
(* Proofs about ChainIndex, for every number of blocks, every value of     *)
(* their bits and every number of crashes, when no rescan is asked for:    *)
(* types, the index and the main chain; what the import loop implements;   *)
(* the tree, the heaviest chain and the flags.  A loop that is not started *)
(* again implements BestChain: it learns one block with each commit, and   *)
(* its tip is the first one with the largest total.  One without rescans   *)
(* reads the files as BlockStream says.  The last part is about any        *)
(* rescans: what they leave of the records.                                *)
(***************************************************************************)
EXTENDS ChainIndexProperties, SequenceTheorems, WellFoundedInduction, TLAPS

USE DEF Null, NoIndex, RecordsOfFiles, RecordsUpTo, RecordOf

\* The invariant holds of the first start.
LEMMA InvInit == Init => Inv
<1> SUFFICES ASSUME Init PROVE Inv
  OBVIOUS
<1> USE ConstantsAssumption DEF Init
<1>1. TypeOK
  BY DEF TypeOK, ZeroInfo, BlockInfo, NoBlocks, Hash
<1>2. FileOrdered /\ IndexedOnce
  BY DEF FileOrdered, IndexedOnce
<1>3. Progress /\ TreeOK /\ ImportOK
  BY DEF Progress, TreeOK, ImportOK, Importing, InCommit, NoBlocks
<1>4. ChainOK /\ RebuildOK
  BY DEF ChainOK, RebuildOK, PathAbove, TipOf
<1>5. ReorganiseOK
  BY DEF ReorganiseOK
<1> QED
  BY <1>1, <1>2, <1>3, <1>4, <1>5 DEF Inv

-----------------------------------------------------------------------------
(* What the types say of the elements of sequences.                        *)

\* Hashes of blocks and bits are numbers, and no block has the zero hash.
LEMMA HashFacts == Hash \subseteq Nat /\ Null \notin Hash /\ Bits \subseteq Nat
  BY ConstantsAssumption DEF Hash

\* The lengths of the sequences of the model are numbers.
LEMMA Lengths ==
  ASSUME TypeOK
  PROVE  /\ Len(file) \in Nat /\ Len(dbBlocks) \in Nat
         /\ Len(blockIds) \in Nat /\ Len(currentChain) \in Nat
         /\ Len(toAppend) \in Nat
  BY LenProperties DEF TypeOK

\* The fields of a block of the files.
LEMMA FileTypes ==
  ASSUME TypeOK, NEW k \in 1..Len(file)
  PROVE  /\ file[k].previous \in Hash \cup {Null} /\ file[k].previous \in Nat
         /\ file[k].bits \in Bits
<1>1. file \in Seq([previous : Hash \cup {Null}, bits : Bits])
  BY DEF TypeOK
<1>2. file[k] \in [previous : Hash \cup {Null}, bits : Bits]
  BY <1>1, ElementOfSeq, Zenon
<1>3. file[k].previous \in Hash \cup {Null} /\ file[k].bits \in Bits
  BY <1>2
<1>4. \A x \in Hash \cup {Null} : x \in Nat
  BY HashFacts
<1> QED
  BY <1>3, <1>4, Zenon

\* The fields of a record of the database.
LEMMA DbTypes ==
  ASSUME TypeOK, NEW k \in 1..Len(dbBlocks)
  PROVE  /\ dbBlocks[k].hash \in Hash
         /\ dbBlocks[k].previous \in Nat \cup {NoIndex}
         /\ dbBlocks[k].bits \in Bits
         /\ dbBlocks[k].height \in Nat
<1>1. dbBlocks \in Seq(DbBlock)
  BY DEF TypeOK
<1>2. dbBlocks[k] \in DbBlock
  BY <1>1, ElementOfSeq, Zenon
<1> QED
  BY <1>2 DEF DbBlock

\* A sequence without its last element (currentChain.pop_back()).
LEMMA AllButLastFacts ==
  ASSUME NEW S, NEW s \in Seq(S), Len(s) \in Nat, Len(s) > 0
  PROVE  /\ AllButLast(s) \in Seq(S)
         /\ Len(AllButLast(s)) = Len(s) - 1
         /\ \A i \in 1..(Len(s) - 1) : AllButLast(s)[i] = s[i]
<1> DEFINE n == Len(s) - 1
<1>1. \A i \in 1..n : s[i] \in S
  BY ElementOfSeq
<1>2. n \in Int /\ 1 \in Int
  OBVIOUS
<1>3. /\ SubSeq(s, 1, n) \in Seq(S)
      /\ Len(SubSeq(s, 1, n)) = IF 1 <= n THEN n - 1 + 1 ELSE 0
      /\ \A i \in 1..(n - 1 + 1) : SubSeq(s, 1, n)[i] = s[1 + i - 1]
  <2> HIDE DEF n
  <2> QED
    BY <1>1, <1>2, SubSeqProperties
<1>4. n \in Nat /\ n - 1 + 1 = n /\ (IF 1 <= n THEN n - 1 + 1 ELSE 0) = n
  <2>1. \A m \in Nat : m > 0 =>
          /\ m - 1 \in Nat /\ m - 1 - 1 + 1 = m - 1
          /\ (IF 1 <= m - 1 THEN m - 1 - 1 + 1 ELSE 0) = m - 1
    OBVIOUS
  <2> QED
    BY <2>1, Zenon
<1>5. \A i \in 1..n : 1 + i - 1 = i
  <2> SUFFICES ASSUME NEW i \in 1..n PROVE 1 + i - 1 = i
    OBVIOUS
  <2>1. i \in Int
    BY <1>2
  <2> QED
    BY <2>1
<1>6. AllButLast(s) = SubSeq(s, 1, n)
  BY DEF AllButLast
<1>7. \A i \in 1..n : SubSeq(s, 1, n)[i] = s[i]
  <2> SUFFICES ASSUME NEW i \in 1..n PROVE SubSeq(s, 1, n)[i] = s[i]
    OBVIOUS
  <2>1. SubSeq(s, 1, n)[i] = s[1 + i - 1]
    BY <1>3, <1>4, Zenon
  <2>2. s[1 + i - 1] = s[i]
    BY <1>5, Zenon
  <2> QED
    BY <2>1, <2>2, Zenon
<1>8. SubSeq(s, 1, n) \in Seq(S) /\ Len(SubSeq(s, 1, n)) = n
  BY <1>3, <1>4, Zenon
<1> QED
  BY <1>6, <1>7, <1>8, Zenon

\* The place of a block in the tree: all but its flag and its children.
SamePlace(r, s) ==
  /\ r.index = s.index /\ r.height = s.height /\ r.previous = s.previous

\* A new child leaves every block in its place.
LEMMA WithChildFacts ==
  ASSUME NEW map, \A h \in DOMAIN map : map[h] \in BlockInfo,
         NEW q \in DOMAIN map, NEW c \in Hash
  PROVE  /\ DOMAIN WithChild(map, q, c) = DOMAIN map
         /\ \A h \in DOMAIN map : /\ WithChild(map, q, c)[h] \in BlockInfo
                                 /\ SamePlace(WithChild(map, q, c)[h], map[h])
<1> DEFINE child == [map[q] EXCEPT !.nexts = Append(@, c)]
<1>1. WithChild(map, q, c) = [map EXCEPT ![q] = child]
  BY DEF WithChild
<1>2. map[q] \in BlockInfo
  OBVIOUS
<1>3. Append(map[q].nexts, c) \in Seq(Hash)
  <2>1. map[q].nexts \in Seq(Hash)
    BY <1>2 DEF BlockInfo
  <2> QED
    BY <2>1, AppendProperties
<1>4. child \in BlockInfo /\ SamePlace(child, map[q])
  BY <1>2, <1>3 DEF BlockInfo, SamePlace
<1> QED
  BY <1>1, <1>4 DEF SamePlace

\* std::map::insert adds a key and keeps the values of the others.
LEMMA InsertFacts ==
  ASSUME NEW map, NEW key, NEW value
  PROVE  /\ DOMAIN Insert(map, key, value) = DOMAIN map \cup {key}
         /\ \A h \in DOMAIN map : Insert(map, key, value)[h] = map[h]
         /\ key \notin DOMAIN map => Insert(map, key, value)[key] = value
  BY DEF Insert

-----------------------------------------------------------------------------
(* What the invariant says of the tree.                                    *)

\* A record of the tree is a root, or it is one above a parent in the tree.
Hangs(info) ==
  \/ info.previous = Null /\ info.height = 0
  \/ /\ info.previous \in DOMAIN blocks
     /\ info.height = blocks[info.previous].height + 1

\* Every block in memory is in the database and hangs in the tree; so does
\* the block being imported, which is in neither.
LEMMA TreeFacts ==
  ASSUME Inv
  PROVE  /\ DOMAIN blocks \subseteq 1..Len(dbBlocks)
         /\ DOMAIN blocks \subseteq 1..Len(file)
         /\ \A h \in DOMAIN blocks : Hangs(blocks[h])
         /\ Importing => Hangs(blockInfo)
         /\ Importing => hash \notin DOMAIN blocks
         /\ pc \in {"rebuild", "idle", "process", "walk", "undo", "redo"} =>
              DOMAIN blocks = 1..Len(dbBlocks)
         /\ toAppend # <<>> => toAppend[Len(toAppend)] \in DOMAIN blocks
<1> USE DEF Inv
<1> DEFINE n == Len(dbBlocks)
<1>1. n \in Nat /\ Len(blockIds) \in Nat /\ Len(file) \in Nat /\ n <= Len(file)
  BY DEF TypeOK, Progress
<1>2. DOMAIN blocks \subseteq 1..n /\ DOMAIN blocks \subseteq 1..Len(file)
  BY <1>1 DEF TreeOK, Progress, InCommit, TypeOK
<1>3. pc \in {"rebuild", "idle", "process", "walk", "undo", "redo"} =>
        DOMAIN blocks = 1..n
  BY <1>1 DEF TreeOK, Progress, InCommit
<1>4. \E m \in Nat : DOMAIN blocks = 1..m
  BY <1>1 DEF TreeOK, Progress, InCommit
<1>5. \A k \in 1..Len(file) : /\ file[k].previous \in Nat
                              /\ file[k].previous < k
  BY FileTypes DEF FileOrdered
<1>6. ASSUME NEW h \in DOMAIN blocks PROVE Hangs(blocks[h])
  <2> DEFINE p == file[h].previous
  <2>1. /\ h \in 1..n /\ h \in 1..Len(file)
        /\ p \in Nat /\ p < h
    BY <1>1, <1>2, <1>5
  <2>2. p # Null => p \in DOMAIN blocks /\ p \in 1..n
    BY <1>1, <1>4, <2>1
  <2>3. blocks[h].previous = p /\ blocks[h].height = dbBlocks[h].height
    BY DEF TreeOK
  <2>4. dbBlocks[h].height = IF p = Null THEN 0 ELSE dbBlocks[p].height + 1
    BY <2>1 DEF IndexedOnce
  <2>5. p # Null => blocks[p].height = dbBlocks[p].height
    BY <2>2 DEF TreeOK
  <2> QED
    BY <2>2, <2>3, <2>4, <2>5 DEF Hangs
<1>7. Importing => Hangs(blockInfo) /\ hash \notin DOMAIN blocks
  <2> SUFFICES ASSUME Importing PROVE Hangs(blockInfo) /\ hash \notin DOMAIN blocks
    OBVIOUS
  <2>1. DOMAIN blocks = 1..n /\ hash = n + 1 /\ hash \in 1..Len(file)
    BY <1>1, <1>3 DEF Progress, Importing
  <2>2. Hangs(blockInfo)
    BY <1>1, <1>5, <2>1 DEF Hangs, TreeOK, ImportOK
  <2> QED
    BY <1>1, <2>1, <2>2
<1>8. toAppend # <<>> => toAppend[Len(toAppend)] \in DOMAIN blocks
  BY DEF ReorganiseOK, TypeOK
<1> QED
  BY <1>2, <1>3, <1>6, <1>7, <1>8

\* A step that keeps the place of every block keeps the paths of the tree.
SamePlaces ==
  /\ DOMAIN blocks \subseteq DOMAIN blocks'
  /\ \A h \in DOMAIN blocks : /\ blocks'[h].height = blocks[h].height
                              /\ blocks'[h].previous = blocks[h].previous

-----------------------------------------------------------------------------
(* The environment, crashes and the restore.                               *)

\* A block appended to the files changes nothing of the blocks before it.
LEMMA InvBlockArrives == Inv /\ BlockArrives => Inv'
<1> SUFFICES ASSUME Inv, BlockArrives PROVE Inv'
  OBVIOUS
<1> USE ConstantsAssumption DEF BlockArrives, Inv
<1> USE DEF dbVars, memVars, tipVars, importVars, walkVars, bestVars, readVars
<1>1. /\ Len(file) \in Nat
      /\ Len(file') = Len(file) + 1
      /\ \A k \in 1..Len(file) : file'[k] = file[k]
  BY DEF TypeOK
<1>2. TypeOK'
  BY DEF TypeOK, Hash
<1>3. FileOrdered'
  BY DEF FileOrdered, TypeOK
<1>4. IndexedOnce'
  <2>1. /\ Len(dbBlocks) <= Len(file) /\ Len(dbBlocks) \in Nat
        /\ UNCHANGED <<dbBlocks, dbPosition>>
    BY DEF Progress, TypeOK
  <2> QED
    BY <1>1, <2>1 DEF IndexedOnce
<1>5. Progress'
  BY <1>1 DEF Progress, Importing, InCommit, TypeOK
<1>6. TreeOK'
  BY <1>1, TreeFacts DEF TreeOK, InCommit
<1>7. ImportOK'
  <2>1. Importing => hash \in 1..Len(file)
    BY <1>1 DEF Progress, TypeOK
  <2> QED
    BY <1>1, <2>1 DEF ImportOK, Importing
<1>8. ChainOK' /\ RebuildOK'
  BY DEF ChainOK, RebuildOK, PathAbove, TipOf
<1>9. ReorganiseOK'
  BY DEF ReorganiseOK, InCommit, Lowest, TipOf
<1> QED
  BY <1>2, <1>3, <1>4, <1>5, <1>6, <1>7, <1>8, <1>9

\* When the process stops, only the files and the database are left.
LEMMA InvDown == Inv /\ Down => Inv'
<1> SUFFICES ASSUME Inv, Down PROVE Inv'
  OBVIOUS
<1> USE ConstantsAssumption DEF Down, Inv, dbVars
<1>1. TypeOK'
  BY DEF TypeOK, ZeroInfo, BlockInfo, NoBlocks
<1>2. FileOrdered' /\ IndexedOnce'
  BY DEF FileOrdered, IndexedOnce
<1>3. Progress'
  BY DEF Progress, Importing, InCommit, TypeOK
<1>4. TreeOK' /\ ImportOK'
  BY DEF TreeOK, ImportOK, Importing, InCommit, NoBlocks
<1>5. ChainOK' /\ RebuildOK' /\ ReorganiseOK'
  BY DEF ChainOK, RebuildOK, ReorganiseOK, PathAbove, TipOf
<1> QED
  BY <1>1, <1>2, <1>3, <1>4, <1>5

\* A start without --rescan-index leaves memory and database as they are.
LEMMA InvStart == ASSUME NoRescans PROVE Inv /\ Start => Inv'
<1> SUFFICES ASSUME Inv, Start PROVE Inv'
  OBVIOUS
<1> USE ConstantsAssumption, NoRescans DEF Start, Inv, NoRescans
<1> USE DEF dbVars, memVars, tipVars, importVars, walkVars, bestVars
<1>1. TypeOK'
  BY DEF TypeOK
<1>2. FileOrdered' /\ IndexedOnce'
  BY DEF FileOrdered, IndexedOnce
<1>3. Progress'
  BY DEF Progress, Importing, InCommit, TypeOK
<1>4. TreeOK' /\ ImportOK'
  BY DEF TreeOK, ImportOK, Importing, InCommit
<1>5. ChainOK'
  BY DEF ChainOK, PathAbove
<1>6. RebuildOK'
  BY DEF RebuildOK
<1>7. ReorganiseOK'
  BY DEF ReorganiseOK, InCommit
<1> QED
  BY <1>1, <1>2, <1>3, <1>4, <1>5, <1>6, <1>7

\* The next record of the database is hung in the tree.
LEMMA InvRestoreBlock == Inv /\ RestoreBlock => Inv'
<1> SUFFICES ASSUME Inv, RestoreBlock PROVE Inv'
  OBVIOUS
<1> USE ConstantsAssumption DEF Inv
<1> DEFINE m == Len(blockIds)
           new == m + 1
           q == file[new].previous
<1>1. UNCHANGED <<file, dbBlocks, dbPosition, currentChain, longestBlock,
                  totalBits, hash, blockInfo, previousBlock, walk, height,
                  toAppend, position, rescanIndex, pc, starts>>
  BY DEF RestoreBlock, dbVars, tipVars, importVars, walkVars, readVars
<1>2. /\ pc = "restore" /\ m \in Nat /\ m < Len(dbBlocks)
      /\ Len(dbBlocks) \in Nat /\ Len(dbBlocks) <= Len(file)
      /\ Len(file) \in Nat /\ Len(file) <= MaxFile
      /\ new \in 1..Len(dbBlocks) /\ new \in Hash
      /\ DOMAIN blocks = 1..m
  <2>1. pc = "restore" /\ m < Len(dbBlocks) /\ m \in Nat
    BY Lengths DEF RestoreBlock, MoreToRestore
  <2>2. /\ Len(dbBlocks) \in Nat /\ Len(dbBlocks) <= Len(file)
        /\ Len(file) \in Nat /\ Len(file) <= MaxFile
    BY Lengths DEF Progress, FileOrdered
  <2>3. DOMAIN blocks = 1..m
    BY <2>1 DEF TreeOK, InCommit
  <2> QED
    BY <2>1, <2>2, <2>3 DEF Hash
<1>3. /\ dbBlocks[new].hash = new
      /\ dbBlocks[new].previous = q - 1
      /\ q \in 0..m
      /\ q # Null => q \in 1..m /\ blockIds[q] = q
  <2>1. new \in 1..Len(file)
    BY <1>2
  <2>2. q \in Nat /\ q < new
    BY <2>1, FileTypes DEF FileOrdered
  <2> QED
    BY <1>2, <2>2 DEF IndexedOnce, TreeOK
<1> DEFINE total == (IF q = Null THEN 0 ELSE blocks[q].totalBits)
                      + dbBlocks[new].bits
           info == [index |-> m, height |-> dbBlocks[new].height,
                    bits |-> dbBlocks[new].bits, totalBits |-> total,
                    previous |-> q, longestChain |-> FALSE, nexts |-> <<>>]
           linked == IF q = Null THEN blocks ELSE WithChild(blocks, q, new)
<1>4. /\ blockIds' = Append(blockIds, new)
      /\ blocks' = Insert(linked, new, info)
      /\ best' \in {best, new}
      /\ bestBits' \in {bestBits, total}
  <2>1. (dbBlocks[new].previous = NoIndex) = (q = Null)
    BY <1>3
  <2>2. q # Null => blockIds[dbBlocks[new].previous + 1] = q
    BY <1>3
  <2> QED
    BY <1>3, <2>1, <2>2 DEF RestoreBlock
<1>5. \A h \in 1..m : blocks[h] \in BlockInfo
  BY <1>2 DEF TypeOK
<1>6. /\ DOMAIN linked = 1..m
      /\ \A h \in 1..m : linked[h] \in BlockInfo /\ SamePlace(linked[h], blocks[h])
  <2>1. CASE q = Null
    BY <1>2, <1>5, <2>1 DEF SamePlace
  <2>2. CASE q # Null
    BY <1>2, <1>3, <1>5, <2>2, WithChildFacts
  <2> QED
    BY <2>1, <2>2
<1>7. /\ DOMAIN blocks' = 1..new
      /\ blocks'[new] = info
      /\ \A h \in 1..m : blocks'[h] \in BlockInfo /\ SamePlace(blocks'[h], blocks[h])
  <2> HIDE DEF linked, info
  <2>1. new \notin DOMAIN linked /\ 1..new = 1..m \cup {new}
    BY <1>2, <1>6
  <2>2. /\ DOMAIN Insert(linked, new, info) = DOMAIN linked \cup {new}
        /\ \A h \in DOMAIN linked : Insert(linked, new, info)[h] = linked[h]
        /\ Insert(linked, new, info)[new] = info
    BY <2>1, InsertFacts, Zenon
  <2> QED
    BY <1>4, <1>6, <2>1, <2>2, Zenon
<1>8. total \in Nat /\ info \in BlockInfo
  <2>1. dbBlocks[new].bits \in Nat /\ dbBlocks[new].height \in Nat
    BY <1>2, DbTypes, HashFacts
  <2>2. q # Null => blocks[q].totalBits \in Nat
    BY <1>3, <1>5 DEF BlockInfo
  <2>3. q \in Hash \cup {Null}
    BY <1>2, <1>3 DEF Hash
  <2> QED
    BY <1>2, <2>1, <2>2, <2>3 DEF BlockInfo
<1>9. TypeOK'
  <2>1. DOMAIN blocks' \subseteq Hash
    BY <1>2, <1>7 DEF Hash
  <2>2. \A h \in DOMAIN blocks' : blocks'[h] \in BlockInfo
    BY <1>2, <1>7, <1>8
  <2>3. blockIds' \in Seq(Hash)
    BY <1>2, <1>4 DEF TypeOK
  <2>4. best' \in Hash \cup {Null} /\ bestBits' \in Nat
    BY <1>2, <1>4, <1>8 DEF TypeOK
  <2> QED
    BY <1>1, <2>1, <2>2, <2>3, <2>4 DEF TypeOK
<1>10. FileOrdered' /\ IndexedOnce' /\ ImportOK'
  BY <1>1, <1>2 DEF FileOrdered, IndexedOnce, ImportOK, Importing
<1>11. Progress'
  BY <1>1, <1>2, <1>4 DEF Progress, Importing, InCommit, TypeOK
<1>12. TreeOK'
  <2>1. Len(blockIds') = new /\ \A i \in 1..new : blockIds'[i] = i
    BY <1>2, <1>4, AppendProperties DEF TreeOK, TypeOK
  <2>2. \A h \in 1..m : /\ blocks'[h].index = h - 1
                       /\ blocks'[h].previous = file[h].previous
                       /\ blocks'[h].height = dbBlocks[h].height
    BY <1>2, <1>7 DEF TreeOK, SamePlace
  <2>3. info.index = m /\ info.previous = q /\ info.height = dbBlocks[new].height
    OBVIOUS
  <2> QED
    BY <1>1, <1>2, <1>7, <2>1, <2>2, <2>3 DEF TreeOK, InCommit
<1>13. ChainOK'
  BY <1>1, <1>2 DEF ChainOK, PathAbove
<1>14. RebuildOK' /\ ReorganiseOK'
  <2>1. toAppend = <<>>
    BY <1>2 DEF ReorganiseOK, InCommit
  <2>2. best' \in DOMAIN blocks' \cup {Null}
    <3> HIDE DEF q, total, info, linked
    <3>1. best \in DOMAIN blocks \cup {Null}
      BY <1>2 DEF RebuildOK
    <3>2. DOMAIN blocks \subseteq DOMAIN blocks' /\ new \in DOMAIN blocks'
      BY <1>2, <1>7
    <3> QED
      BY <1>4, <3>1, <3>2
  <2>3. RebuildOK'
    BY <1>1, <1>2, <2>2 DEF RebuildOK
  <2>4. toAppend' = <<>> /\ Len(toAppend') = 0 /\ pc' = "restore"
    BY <1>1, <1>2, <2>1
  <2>5. ReorganiseOK'
    BY <2>4 DEF ReorganiseOK
  <2> QED
    BY <2>3, <2>5
<1> QED
  BY <1>9, <1>10, <1>11, <1>12, <1>13, <1>14

\* Nothing is on the chain yet: it is a path above the tip.
LEMMA InvSizeChain == Inv /\ SizeChain => Inv'
<1> SUFFICES ASSUME Inv, SizeChain PROVE Inv'
  OBVIOUS
<1> USE ConstantsAssumption DEF Inv
<1>1. UNCHANGED <<file, dbBlocks, dbPosition, blockIds, blocks, longestBlock,
                  totalBits, hash, blockInfo, previousBlock, height, toAppend,
                  best, bestBits, position, rescanIndex, starts>>
  BY DEF SizeChain, dbVars, tipVars, importVars, bestVars, readVars
<1>2. /\ pc = "restore" /\ pc' = "rebuild" /\ walk' = best
      /\ Len(blockIds) = Len(dbBlocks)
      /\ best \in DOMAIN blocks \cup {Null}
      /\ toAppend = <<>> /\ longestBlock = Null
  BY DEF SizeChain, MoreToRestore, Progress, RebuildOK, ReorganiseOK, ChainOK,
         InCommit, TypeOK
<1> DEFINE k == IF best = Null THEN 0 ELSE blocks[best].height + 1
<1>3. /\ k \in Nat /\ Null \notin DOMAIN blocks
      /\ currentChain' = IF best = Null THEN <<>> ELSE [i \in 1..k |-> Null]
  <2>1. Null \notin DOMAIN blocks
    BY HashFacts DEF TypeOK
  <2>2. best # Null => blocks[best].height \in Nat
    BY <1>2 DEF TypeOK, BlockInfo
  <2>3. CASE best = Null
    BY <1>2, <2>1, <2>3 DEF SizeChain
  <2>4. CASE best # Null
    BY <1>2, <2>1, <2>2, <2>4 DEF SizeChain
  <2> QED
    BY <2>3, <2>4
<1>4. currentChain' \in Seq(Hash \cup {Null}) /\ Len(currentChain') = k
  <2>1. CASE best = Null
    BY <1>3, <2>1
  <2>2. CASE best # Null
    BY <1>3, <2>2
  <2> QED
    BY <2>1, <2>2
<1>5. TypeOK'
  BY <1>1, <1>2, <1>4 DEF TypeOK
<1>6. FileOrdered' /\ IndexedOnce' /\ ImportOK'
  BY <1>1, <1>2 DEF FileOrdered, IndexedOnce, ImportOK, Importing
<1>7. Progress' /\ TreeOK'
  BY <1>1, <1>2 DEF Progress, TreeOK, Importing, InCommit
<1>8. ChainOK' /\ ReorganiseOK'
  BY <1>1, <1>2 DEF ChainOK, ReorganiseOK
<1>9. RebuildOK'
  BY <1>1, <1>2, <1>3, <1>4 DEF RebuildOK, PathAbove
<1> QED
  BY <1>5, <1>6, <1>7, <1>8, <1>9

\* The tip of the path moves to the chain: the path is one block longer.
LEMMA InvRebuildChain == Inv /\ RebuildChain => Inv'
<1> SUFFICES ASSUME Inv, RebuildChain PROVE Inv'
  OBVIOUS
<1> USE ConstantsAssumption DEF Inv
<1> DEFINE k == blocks[walk].height + 1
           len == Len(currentChain)
<1>1. UNCHANGED <<file, dbBlocks, dbPosition, blockIds, longestBlock,
                  totalBits, hash, blockInfo, previousBlock, height, toAppend,
                  best, bestBits, position, rescanIndex, pc, starts>>
  BY DEF RebuildChain, dbVars, tipVars, importVars, bestVars, readVars
<1>2. /\ pc = "rebuild" /\ walk \in DOMAIN blocks
      /\ blocks' = [blocks EXCEPT ![walk].longestChain = TRUE]
      /\ currentChain' = [currentChain EXCEPT ![k] = walk]
      /\ walk' = blocks[walk].previous
  BY DEF RebuildChain
<1>3. walk # Null /\ walk \in Hash /\ \A h \in DOMAIN blocks : blocks[h] \in BlockInfo
  BY <1>2, HashFacts DEF TypeOK
<1>4. /\ DOMAIN blocks' = DOMAIN blocks
      /\ \A h \in DOMAIN blocks : /\ blocks'[h] \in BlockInfo
                                 /\ SamePlace(blocks'[h], blocks[h])
  BY <1>2, <1>3 DEF BlockInfo, SamePlace
<1>5. /\ k \in 1..len /\ len \in Nat /\ blocks[walk].height \in Nat
      /\ PathAbove(currentChain, k, walk)
  <2>1. blocks[walk].height \in Nat
    BY <1>2, <1>3 DEF BlockInfo
  <2> QED
    BY <1>2, <1>3, <2>1, Lengths DEF RebuildOK
<1>6. /\ Len(currentChain') = len
      /\ currentChain'[k] = walk
      /\ \A i \in 1..len : i # k => currentChain'[i] = currentChain[i]
      /\ currentChain' \in Seq(Hash \cup {Null})
  <2>1. currentChain \in Seq(Hash \cup {Null})
    BY DEF TypeOK
  <2> QED
    BY <1>2, <1>3, <1>5, <2>1, ExceptSeq
<1>7. /\ walk' \in DOMAIN blocks \cup {Null}
      /\ k - 1 = IF walk' = Null THEN 0 ELSE blocks[walk'].height + 1
  <2>1. Hangs(blocks[walk]) /\ Null \notin DOMAIN blocks
    BY <1>2, TreeFacts, HashFacts DEF TypeOK
  <2>2. CASE blocks[walk].previous = Null /\ blocks[walk].height = 0
    BY <1>2, <2>2
  <2>3. CASE /\ blocks[walk].previous \in DOMAIN blocks
             /\ blocks[walk].height = blocks[blocks[walk].previous].height + 1
    BY <1>2, <1>5, <2>1, <2>3
  <2> QED
    BY <2>1, <2>2, <2>3 DEF Hangs
<1>8. TypeOK'
  <2>1. walk' \in Hash \cup {Null}
    BY <1>7 DEF TypeOK
  <2> QED
    BY <1>1, <1>4, <1>6, <2>1 DEF TypeOK
<1>9. FileOrdered' /\ IndexedOnce' /\ ImportOK' /\ Progress'
  BY <1>1, <1>2 DEF FileOrdered, IndexedOnce, ImportOK, Progress, Importing,
                    InCommit
<1>10. TreeOK'
  BY <1>1, <1>4 DEF TreeOK, InCommit, SamePlace
<1>11. ChainOK'
  BY <1>1, <1>2 DEF ChainOK
<1>12. RebuildOK'
  <2>1. ASSUME NEW i \in k..len
        PROVE  /\ currentChain'[i] \in DOMAIN blocks'
               /\ blocks'[currentChain'[i]].height = i - 1
               /\ blocks'[currentChain'[i]].previous
                    = IF i = k THEN walk' ELSE currentChain'[i - 1]
    <3>1. CASE i = k
      <4>1. currentChain'[i] = walk /\ blocks[walk].height = i - 1
        BY <1>5, <1>6, <3>1
      <4>2. SamePlace(blocks'[walk], blocks[walk])
        BY <1>2, <1>4
      <4> QED
        BY <1>2, <1>4, <3>1, <4>1, <4>2 DEF SamePlace
    <3>2. CASE i # k
      <4>1. /\ i \in (k + 1)..len /\ i - 1 \in k..len /\ i \in 1..len
            /\ currentChain'[i] = currentChain[i]
        BY <1>5, <1>6, <3>2
      <4>2. /\ currentChain[i] \in DOMAIN blocks
            /\ blocks[currentChain[i]].height = i - 1
            /\ blocks[currentChain[i]].previous
                 = IF i = k + 1 THEN walk ELSE currentChain[i - 1]
        BY <1>5, <4>1 DEF PathAbove
      <4>3. (IF i = k + 1 THEN walk ELSE currentChain[i - 1]) = currentChain'[i - 1]
        BY <1>5, <1>6, <4>1
      <4> QED
        BY <1>4, <3>2, <4>1, <4>2, <4>3 DEF SamePlace
    <3> QED
      BY <3>1, <3>2
  <2>2. walk' \in DOMAIN blocks' \cup {Null}
    BY <1>4, <1>7
  <2>3. k - 1 = IF walk' = Null THEN 0 ELSE blocks'[walk'].height + 1
    BY <1>4, <1>7 DEF SamePlace
  <2>4. k - 1 <= Len(currentChain')
    BY <1>5, <1>6
  <2>5. best' \in DOMAIN blocks' \cup {Null}
    BY <1>1, <1>2, <1>4 DEF RebuildOK
  <2>6. (k - 1) + 1 = k
    BY <1>5
  <2> HIDE DEF k
  <2> QED
    BY <1>6, <2>1, <2>2, <2>3, <2>4, <2>5, <2>6 DEF RebuildOK, PathAbove
<1>13. ReorganiseOK'
  <2>1. toAppend' = <<>> /\ Len(toAppend') = 0 /\ pc' = "rebuild"
    BY <1>1, <1>2 DEF ReorganiseOK, InCommit
  <2> QED
    BY <2>1 DEF ReorganiseOK
<1> QED
  BY <1>8, <1>9, <1>10, <1>11, <1>12, <1>13

\* The chain is complete, and the position is that of the database.
LEMMA InvRestorePosition == Inv /\ RestorePosition => Inv'
<1> SUFFICES ASSUME Inv, RestorePosition PROVE Inv'
  OBVIOUS
<1> USE ConstantsAssumption DEF Inv
<1>1. UNCHANGED <<file, dbBlocks, dbPosition, blockIds, blocks, currentChain,
                  longestBlock, totalBits, hash, blockInfo, previousBlock,
                  height, toAppend, rescanIndex, starts>>
  BY DEF RestorePosition, dbVars, memVars, tipVars, importVars
<1>2. /\ pc = "rebuild" /\ pc' = "idle"
      /\ walk = Null /\ PathAbove(currentChain, 0, Null)
      /\ position' = Len(dbBlocks)
      /\ best' = Null /\ bestBits' = 0 /\ walk' = Null
  BY DEF RestorePosition, RebuildOK, IndexedOnce, Progress
<1>3. TypeOK'
  BY <1>1, <1>2, Lengths DEF TypeOK
<1>4. FileOrdered' /\ IndexedOnce' /\ ImportOK'
  BY <1>1, <1>2 DEF FileOrdered, IndexedOnce, ImportOK, Importing
<1>5. Progress' /\ TreeOK'
  BY <1>1, <1>2 DEF Progress, TreeOK, Importing, InCommit
<1>6. ChainOK' /\ RebuildOK'
  BY <1>1, <1>2 DEF ChainOK, RebuildOK, PathAbove
<1>7. ReorganiseOK'
  <2>1. toAppend' = <<>> /\ Len(toAppend') = 0 /\ pc' = "idle"
    BY <1>1, <1>2 DEF ReorganiseOK, InCommit
  <2> QED
    BY <2>1 DEF ReorganiseOK
<1> QED
  BY <1>3, <1>4, <1>5, <1>6, <1>7

-----------------------------------------------------------------------------
(* Reading.                                                                *)

\* Without a rescan a failed read changes nothing.
LEMMA InvReadFails == Inv /\ ReadFails => Inv'
<1> SUFFICES ASSUME Inv, ReadFails PROVE Inv'
  OBVIOUS
<1>1. UNCHANGED vars
  BY DEF ReadFails, Inv, Progress, vars, dbVars, memVars, tipVars, importVars,
         walkVars, bestVars, readVars
<1> QED
  BY <1>1 DEF vars, dbVars, memVars, tipVars, importVars, walkVars, bestVars,
    readVars, Inv, TypeOK, FileOrdered, IndexedOnce, Progress, TreeOK,
    ImportOK, ChainOK, RebuildOK, ReorganiseOK, PathAbove, TipOf, Lowest,
    Importing, InCommit

\* Without a rescan nothing is skipped.
LEMMA InvSkipBlock == Inv /\ SkipBlock => Inv'
  BY DEF SkipBlock, StillSkipping, Inv, Progress

\* The block read is new, and its parent is in memory.
LEMMA InvReadBlock == Inv /\ ReadBlock => Inv'
<1> SUFFICES ASSUME Inv, ReadBlock PROVE Inv'
  OBVIOUS
<1> USE ConstantsAssumption DEF Inv
<1> DEFINE n == Len(dbBlocks)
           new == position + 1
           q == file[new].previous
           known == IF q = Null THEN blocks ELSE Insert(blocks, q, ZeroInfo)
           total == file[new].bits
                      + (IF q = Null THEN 0 ELSE known[q].totalBits)
           info == [index |-> Len(blockIds),
                    height |-> IF q = Null THEN 0 ELSE known[q].height + 1,
                    bits |-> file[new].bits, totalBits |-> total,
                    previous |-> q, longestChain |-> NewLongest(total),
                    nexts |-> <<>>]
<1>1. UNCHANGED <<file, dbBlocks, dbPosition, blockIds, currentChain,
                  longestBlock, totalBits, walk, height, toAppend, best,
                  bestBits, rescanIndex, starts>>
  BY DEF ReadBlock, dbVars, tipVars, walkVars, bestVars
<1>2. /\ pc = "idle" /\ pc' = "process"
      /\ position' = new /\ hash' = new
      /\ previousBlock' = IF q = Null THEN NoIndex ELSE known[q].index
      /\ blockInfo' = info
      /\ blocks' = IF q = Null THEN blocks ELSE WithChild(known, q, new)
  BY DEF ReadBlock
<1>3. /\ n \in Nat /\ position = n /\ new = n + 1 /\ Len(blockIds) = n
      /\ new \in 1..Len(file) /\ new \in Hash
      /\ DOMAIN blocks = 1..n
  <2>1. position = n /\ Len(blockIds) = n /\ n \in Nat /\ position < Len(file)
    BY <1>2, Lengths DEF Progress, ReadBlock, MoreToRead
  <2>2. Len(file) \in Nat /\ Len(file) <= MaxFile
    BY Lengths DEF FileOrdered
  <2> QED
    BY <1>2, <2>1, <2>2, TreeFacts DEF Hash
<1>4. /\ q \in Hash \cup {Null} /\ file[new].bits \in Nat
      /\ q # Null => q \in DOMAIN blocks /\ q \in 1..n
  <2>1. q \in Nat /\ q < new /\ q \in Hash \cup {Null} /\ file[new].bits \in Bits
    BY <1>3, FileTypes DEF FileOrdered
  <2>2. q # Null => q \in 1..n
    BY <1>3, <2>1
  <2>3. file[new].bits \in Nat
    BY <2>1, HashFacts
  <2> QED
    BY <1>3, <2>1, <2>2, <2>3
<1>5. \A h \in DOMAIN blocks : blocks[h] \in BlockInfo
  BY DEF TypeOK
<1>6. /\ DOMAIN known = DOMAIN blocks
      /\ \A h \in DOMAIN blocks : known[h] = blocks[h]
  <2>1. CASE q = Null
    BY <2>1
  <2>2. CASE q # Null
    <3>1. DOMAIN blocks \cup {q} = DOMAIN blocks
      BY <1>4, <2>2
    <3>2. known = Insert(blocks, q, ZeroInfo)
      BY <2>2
    <3> HIDE DEF known
    <3>3. /\ DOMAIN Insert(blocks, q, ZeroInfo) = DOMAIN blocks \cup {q}
          /\ \A h \in DOMAIN blocks :
               Insert(blocks, q, ZeroInfo)[h] = blocks[h]
      BY DEF Insert
    <3> QED
      BY <3>1, <3>2, <3>3
  <2> QED
    BY <2>1, <2>2
<1>7. /\ DOMAIN blocks' = DOMAIN blocks
      /\ \A h \in DOMAIN blocks : /\ blocks'[h] \in BlockInfo
                                 /\ SamePlace(blocks'[h], blocks[h])
  <2>1. CASE q = Null
    BY <1>2, <1>5, <2>1 DEF SamePlace
  <2>2. CASE q # Null
    <3> HIDE DEF known
    <3>1. q \in DOMAIN known /\ \A h \in DOMAIN known : known[h] \in BlockInfo
      BY <1>4, <1>5, <1>6, <2>2
    <3>2. /\ DOMAIN WithChild(known, q, new) = DOMAIN known
          /\ \A h \in DOMAIN known :
               /\ WithChild(known, q, new)[h] \in BlockInfo
               /\ SamePlace(WithChild(known, q, new)[h], known[h])
      BY <1>3, <3>1, WithChildFacts
    <3> QED
      BY <1>2, <1>6, <2>2, <3>2
  <2> QED
    BY <2>1, <2>2
<1>8. /\ total \in Nat /\ info \in BlockInfo
      /\ q # Null => known[q].index = q - 1 /\ known[q].height = dbBlocks[q].height
  <2>1. q # Null => /\ blocks[q].totalBits \in Nat /\ blocks[q].height \in Nat
                    /\ known[q] = blocks[q]
    BY <1>4, <1>5, <1>6 DEF BlockInfo
  <2>2. q # Null => blocks[q].index = q - 1 /\ blocks[q].height = dbBlocks[q].height
    BY <1>4 DEF TreeOK
  <2>3. total \in Nat
    BY <1>4, <2>1
  <2>4. NewLongest(total) \in BOOLEAN
    BY DEF NewLongest
  <2>5. (IF q = Null THEN 0 ELSE known[q].height + 1) \in Nat
    BY <2>1
  <2>6. <<>> \in Seq(Hash)
    BY EmptySeq
  <2>7. info \in BlockInfo
    BY <1>3, <1>4, <2>3, <2>4, <2>5, <2>6 DEF BlockInfo
  <2> QED
    BY <2>1, <2>2, <2>3, <2>7
<1>9. TypeOK'
  <2>1. DOMAIN blocks' \subseteq Hash /\ \A h \in DOMAIN blocks' : blocks'[h] \in BlockInfo
    BY <1>7 DEF TypeOK
  <2>2. previousBlock' \in Nat \cup {NoIndex}
    BY <1>2, <1>4, <1>8, SMTT(30)
  <2>3. /\ position' \in Nat /\ hash' \in Hash \cup {Null}
        /\ blockInfo' \in BlockInfo /\ pc' = "process"
    BY <1>2, <1>3, <1>8
  <2> QED
    BY <1>1, <2>1, <2>2, <2>3 DEF TypeOK
<1>10. FileOrdered' /\ IndexedOnce'
  BY <1>1 DEF FileOrdered, IndexedOnce
<1>11. Progress'
  <2>1. UNCHANGED <<rescanIndex, dbBlocks, file, blockIds>>
    BY <1>1
  <2> QED
    BY <1>2, <1>3, <2>1 DEF Progress, Importing, InCommit
<1>12. TreeOK'
  BY <1>1, <1>2, <1>7 DEF TreeOK, InCommit, SamePlace
<1>13. ImportOK'
  <2>1. /\ info.index = Len(blockIds) /\ info.previous = q
        /\ info.bits = file[new].bits
        /\ info.height = IF q = Null THEN 0 ELSE known[q].height + 1
    OBVIOUS
  <2> HIDE DEF info, known
  <2> QED
    BY <1>1, <1>2, <1>3, <1>8, <2>1 DEF ImportOK
<1>14. SamePlaces
  BY <1>7 DEF SamePlaces, SamePlace
<1>15. ChainOK'
  <2>1. PathAbove(currentChain, 0, Null)'
    BY <1>1, <1>2, <1>14 DEF ChainOK, PathAbove, SamePlaces
  <2>2. pc = "idle" /\ pc' = "process" /\ UNCHANGED <<longestBlock, currentChain>>
    BY <1>1, <1>2
  <2>3. longestBlock \in {Null, TipOf(currentChain)}
    BY <2>2, Zenon DEF ChainOK
  <2>4. TipOf(currentChain)' = TipOf(currentChain)
    BY <2>2 DEF TipOf
  <2> QED
    BY <2>1, <2>2, <2>3, <2>4 DEF ChainOK
<1>16. RebuildOK' /\ ReorganiseOK'
  <2>1. toAppend' = <<>> /\ Len(toAppend') = 0 /\ pc' = "process"
    BY <1>1, <1>2 DEF ReorganiseOK, InCommit
  <2> QED
    BY <2>1 DEF ReorganiseOK, RebuildOK
<1> QED
  BY <1>9, <1>10, <1>11, <1>12, <1>13, <1>15, <1>16

-----------------------------------------------------------------------------
(* The commit.                                                             *)

\* The commit starts: the tip is the parent of the new block, or the walk
\* starts at the new block.
LEMMA InvBeginCommit == Inv /\ BeginCommit => Inv'
<1> SUFFICES ASSUME Inv, BeginCommit PROVE Inv'
  OBVIOUS
<1> USE ConstantsAssumption DEF Inv
<1> DEFINE n == Len(dbBlocks)
<1>1. UNCHANGED <<file, dbBlocks, dbPosition, blocks, currentChain,
                  longestBlock, totalBits, hash, blockInfo, previousBlock,
                  toAppend, best, bestBits, position, rescanIndex, starts>>
  BY DEF BeginCommit, dbVars, tipVars, importVars, bestVars, readVars
<1>2. /\ pc = "process" /\ pc' \in {"walk", "redo"}
      /\ blockIds' = Append(blockIds, hash)
      /\ IF Reorganises
         THEN pc' = "walk" /\ walk' = blockInfo.previous /\ height' = blockInfo.height
         ELSE pc' = "redo" /\ UNCHANGED <<walk, height>>
  BY DEF BeginCommit
<1>3. /\ n \in Nat /\ Len(blockIds) = n /\ DOMAIN blocks = 1..n
      /\ position = n + 1 /\ position <= Len(file) /\ hash = position
      /\ toAppend = <<>> /\ Len(toAppend) = 0
      /\ hash \in Hash
  <2>1. hash \in Hash \cup {Null}
    BY DEF TypeOK
  <2> QED
    BY <1>2, <2>1, Lengths, TreeFacts DEF Progress, Importing, ReorganiseOK, InCommit
<1>4. /\ Len(blockIds') = n + 1 /\ blockIds' \in Seq(Hash)
      /\ \A i \in 1..(n + 1) : blockIds'[i] = i
  <2>1. blockIds \in Seq(Hash)
    BY DEF TypeOK
  <2> QED
    BY <1>2, <1>3, <2>1, AppendProperties DEF TreeOK
<1>5. blockInfo \in BlockInfo /\ Hangs(blockInfo)
  BY <1>2, TreeFacts DEF TypeOK, Importing
<1>6. TypeOK'
  <2>1. walk' \in Hash \cup {Null} /\ height' \in Nat
    BY <1>2, <1>5 DEF TypeOK, BlockInfo
  <2> QED
    BY <1>1, <1>2, <1>4, <2>1 DEF TypeOK
<1>7. FileOrdered' /\ IndexedOnce'
  BY <1>1 DEF FileOrdered, IndexedOnce
<1>8. Progress'
  BY <1>1, <1>2, <1>3, <1>4 DEF Progress, Importing, InCommit
<1>9. TreeOK'
  BY <1>1, <1>2, <1>3, <1>4 DEF TreeOK, InCommit
<1>10. ImportOK'
  BY <1>1, <1>2 DEF ImportOK, Importing
<1>11. ChainOK' /\ RebuildOK'
  <2>1. PathAbove(currentChain, 0, Null) /\ longestBlock \in {Null, TipOf(currentChain)}
    BY <1>2, Zenon DEF ChainOK
  <2>2. PathAbove(currentChain, 0, Null)' /\ TipOf(currentChain)' = TipOf(currentChain)
    BY <1>1, <2>1 DEF PathAbove, TipOf
  <2> QED
    BY <1>1, <1>2, <2>1, <2>2 DEF ChainOK, RebuildOK
<1>12. ReorganiseOK'
  <2>1. toAppend' = <<>> /\ Len(toAppend') = 0 /\ Lowest' = blockInfo
    BY <1>1, <1>3 DEF Lowest
  <2>2. CASE Reorganises
    BY <1>1, <1>2, <2>1, <2>2 DEF ReorganiseOK, Reorganises
  <2>3. CASE ~Reorganises
    <3>1. pc' = "redo"
      BY <1>2, <2>3
    <3>2. ASSUME blockInfo.longestChain
          PROVE  /\ blockInfo.height = Len(currentChain)
                 /\ blockInfo.previous = TipOf(currentChain)
      <4>1. blockInfo.previous = longestBlock
        BY <2>3, <3>2 DEF Reorganises
      <4>2. PathAbove(currentChain, 0, Null) /\ longestBlock \in {Null, TipOf(currentChain)}
        BY <1>2, Zenon DEF ChainOK
      <4>3. CASE currentChain = <<>>
        <5>1. longestBlock = Null /\ Len(currentChain) = 0 /\ Null \notin DOMAIN blocks
          BY <1>3, <4>2, <4>3 DEF TipOf
        <5> QED
          BY <1>5, <4>1, <4>3, <5>1 DEF Hangs, TipOf
      <4>4. CASE currentChain # <<>>
        <5> DEFINE len == Len(currentChain)
        <5>1. len \in 1..len /\ len \in Nat
          BY <4>4, Lengths DEF TypeOK
        <5>2. /\ currentChain[len] \in DOMAIN blocks
              /\ blocks[currentChain[len]].height = len - 1
              /\ currentChain[1] \in DOMAIN blocks
          BY <4>2, <5>1 DEF PathAbove
        <5>3. longestBlock # Null
          <6>1. SUFFICES ASSUME blockInfo.previous = Null PROVE FALSE
            BY <4>1
          <6>2. hash = 1
            <7>1. hash \in 1..Len(file) /\ file[hash].previous = Null
              BY <1>2, <1>3, <6>1, Lengths DEF ImportOK, Importing
            <7> QED
              BY <7>1 DEF FileOrdered
          <6> QED
            BY <1>3, <5>2, <6>2
        <5>4. blockInfo.previous = currentChain[len]
          BY <4>1, <4>2, <4>4, <5>3 DEF TipOf
        <5>5. blockInfo.height = blocks[currentChain[len]].height + 1
          BY <1>3, <1>5, <5>2, <5>4 DEF Hangs
        <5> QED
          BY <4>4, <5>1, <5>2, <5>4, <5>5 DEF TipOf
      <4> QED
        BY <4>3, <4>4
    <3> QED
      BY <1>1, <2>1, <3>1, <3>2 DEF ReorganiseOK, TipOf
  <2> QED
    BY <2>2, <2>3
<1> QED
  BY <1>6, <1>7, <1>8, <1>9, <1>10, <1>11, <1>12

\* During a commit that replaces blocks, the lowest block of the new path
\* hangs in the tree, and the blocks to append are in the tree.
LEMMA LowestFacts ==
  ASSUME Inv, InCommit
  PROVE  /\ Lowest \in BlockInfo /\ Hangs(Lowest)
         /\ Len(toAppend) \in Nat
         /\ toAppend # <<>> => /\ Len(toAppend) \in 1..Len(toAppend)
                              /\ toAppend[Len(toAppend)] \in DOMAIN blocks
<1> USE DEF Inv
<1>1. toAppend # <<>> => Len(toAppend) \in 1..Len(toAppend) /\ Len(toAppend) \in Nat
  BY DEF TypeOK
<1>2. toAppend # <<>> => toAppend[Len(toAppend)] \in DOMAIN blocks
  BY TreeFacts
<1>3. blockInfo \in BlockInfo /\ Hangs(blockInfo)
  BY TreeFacts DEF TypeOK, Importing, InCommit
<1>4. \A h \in DOMAIN blocks : blocks[h] \in BlockInfo /\ Hangs(blocks[h])
  BY TreeFacts DEF TypeOK
<1> QED
  BY <1>1, <1>2, <1>3, <1>4, Lengths DEF Lowest

\* The walk moves to the parent: the path to append is one block longer.
LEMMA InvWalkBack == Inv /\ WalkBack => Inv'
<1> SUFFICES ASSUME Inv, WalkBack PROVE Inv'
  OBVIOUS
<1> USE ConstantsAssumption DEF Inv
<1>1. UNCHANGED <<file, dbBlocks, dbPosition, blockIds, currentChain,
                  longestBlock, totalBits, hash, blockInfo, previousBlock,
                  best, bestBits, position, rescanIndex, pc, starts>>
  BY DEF WalkBack, dbVars, tipVars, importVars, bestVars, readVars
<1>2. /\ pc = "walk" /\ height > 0
      /\ DOMAIN blocks' = DOMAIN blocks
      /\ \A b \in DOMAIN blocks :
           blocks'[b] = [blocks[b] EXCEPT !.longestChain =
                           b = walk \/ (@ /\ b \notin Replaced(walk))]
      /\ height' = blocks[walk].height
      /\ toAppend' = Append(toAppend, walk)
      /\ walk' = blocks[walk].previous
  BY DEF WalkBack
<1>3. /\ InCommit /\ Lowest \in BlockInfo /\ Hangs(Lowest)
      /\ walk = Lowest.previous /\ height = Lowest.height
      /\ Len(toAppend) \in Nat
  BY <1>2, LowestFacts DEF InCommit, ReorganiseOK
<1>4. walk \in DOMAIN blocks
  BY <1>2, <1>3 DEF Hangs
<1>5. \A b \in DOMAIN blocks : /\ blocks'[b] \in BlockInfo
                               /\ SamePlace(blocks'[b], blocks[b])
  <2> SUFFICES ASSUME NEW b \in DOMAIN blocks
               PROVE  blocks'[b] \in BlockInfo /\ SamePlace(blocks'[b], blocks[b])
    OBVIOUS
  <2> DEFINE flag == b = walk \/ (blocks[b].longestChain /\ b \notin Replaced(walk))
  <2>1. blocks[b] \in BlockInfo
    BY DEF TypeOK
  <2>2. blocks'[b] = [blocks[b] EXCEPT !.longestChain = flag]
    BY <1>2
  <2>3. flag \in BOOLEAN
    OBVIOUS
  <2> HIDE DEF flag
  <2> QED
    BY <2>1, <2>2, <2>3 DEF BlockInfo, SamePlace
<1>6. /\ toAppend' \in Seq(Hash)
      /\ Len(toAppend') = Len(toAppend) + 1
      /\ toAppend'[Len(toAppend) + 1] = walk
      /\ \A j \in 1..Len(toAppend) : toAppend'[j] = toAppend[j]
  <2>1. toAppend \in Seq(Hash) /\ walk \in Hash
    BY <1>4 DEF TypeOK
  <2> QED
    BY <1>2, <2>1, AppendProperties
<1>7. TypeOK'
  <2>1. walk' \in Hash \cup {Null} /\ height' \in Nat
    <3>1. blocks[walk] \in BlockInfo
      BY <1>4 DEF TypeOK
    <3> QED
      BY <1>2, <3>1 DEF BlockInfo
  <2> QED
    BY <1>1, <1>2, <1>5, <1>6, <2>1 DEF TypeOK
<1>8. FileOrdered' /\ IndexedOnce' /\ Progress' /\ ImportOK'
  BY <1>1 DEF FileOrdered, IndexedOnce, Progress, ImportOK, Importing, InCommit
<1>9. TreeOK'
  BY <1>1, <1>2, <1>5 DEF TreeOK, InCommit, SamePlace
<1>10. ChainOK'
  BY <1>1, <1>2, <1>5 DEF ChainOK, PathAbove, SamePlace, TipOf
<1>11. RebuildOK'
  BY <1>1, <1>2 DEF RebuildOK
<1>12. ReorganiseOK'
  <2> DEFINE l == Len(toAppend)
  <2>1. toAppend' # <<>>
    BY <1>3, <1>6
  <2>2. toAppend'[1] = blockInfo.previous
    <3>1. CASE toAppend = <<>>
      BY <1>3, <1>6, <3>1 DEF Lowest
    <3>2. CASE toAppend # <<>>
      BY <1>3, <1>6, <3>2 DEF ReorganiseOK, TypeOK
    <3> QED
      BY <3>1, <3>2
  <2>3. ASSUME NEW j \in 1..(l + 1)
        PROVE  /\ toAppend'[j] \in DOMAIN blocks
               /\ j > 1 => toAppend'[j] = blocks[toAppend'[j - 1]].previous
    <3>1. CASE j = l + 1
      <4>1. j > 1 => toAppend # <<>> /\ l \in 1..l
        BY <1>3, <3>1
      <4>2. j > 1 => toAppend'[j - 1] = toAppend[l] /\ walk = blocks[toAppend[l]].previous
        BY <1>3, <1>6, <3>1, <4>1 DEF Lowest
      <4> QED
        BY <1>4, <1>6, <3>1, <4>2
    <3>2. CASE j # l + 1
      BY <1>3, <1>6, <3>2 DEF ReorganiseOK
    <3> QED
      BY <3>1, <3>2
  <2>4. ASSUME NEW j \in 1..(l + 1)
        PROVE  /\ toAppend'[j] \in DOMAIN blocks'
               /\ j > 1 => toAppend'[j] = blocks'[toAppend'[j - 1]].previous
    <3>1. j > 1 => j - 1 \in 1..(l + 1)
      BY <1>3
    <3> QED
      BY <1>2, <1>5, <2>3, <3>1 DEF SamePlace
  <2>5. blockInfo.longestChain
    BY <1>2 DEF ReorganiseOK
  <2>6. Lowest' = blocks'[walk]
    BY <1>6, <2>1 DEF Lowest
  <2>7. walk' = Lowest'.previous /\ height' = Lowest'.height
    BY <1>2, <1>4, <1>5, <2>6 DEF SamePlace
  <2>8. pc' = "walk" /\ InCommit'
    BY <1>1, <1>2 DEF InCommit
  <2> QED
    BY <1>1, <1>6, <2>1, <2>2, <2>4, <2>5, <2>7, <2>8 DEF ReorganiseOK
<1> QED
  BY <1>7, <1>8, <1>9, <1>10, <1>11, <1>12

\* The new path hangs on the main chain at its height.
LEMMA InvWalkEnds == Inv /\ WalkEnds => Inv'
<1> SUFFICES ASSUME Inv, WalkEnds PROVE Inv'
  OBVIOUS
<1> USE ConstantsAssumption DEF Inv
<1>1. UNCHANGED <<file, dbBlocks, dbPosition, blockIds, blocks, currentChain,
                  longestBlock, totalBits, hash, blockInfo, previousBlock,
                  toAppend, best, bestBits, position, rescanIndex, starts>>
  BY DEF WalkEnds, dbVars, memVars, tipVars, importVars, bestVars, readVars
<1>2. /\ pc = "walk" /\ pc' = "undo" /\ walk' = Null
      /\ \/ height = 0 /\ height' = height
         \/ height > 0 /\ OnMainChain(walk) /\ height' = blocks[walk].height + 1
  BY DEF WalkEnds, AboveCommon
<1>3. /\ Lowest \in BlockInfo /\ Hangs(Lowest)
      /\ walk = Lowest.previous /\ height = Lowest.height
  BY <1>2, LowestFacts DEF InCommit, ReorganiseOK
<1>4. Lowest.height \in Nat /\ Len(currentChain) \in Nat
  BY <1>3, Lengths DEF BlockInfo
<1>5. /\ height' = Lowest.height
      /\ height' <= Len(currentChain)
      /\ Lowest.previous = IF height' = 0 THEN Null ELSE currentChain[height']
  <2>1. CASE height = 0
    <3>1. Lowest.previous = Null
      <4>1. SUFFICES ASSUME Lowest.previous \in DOMAIN blocks,
                            Lowest.height = blocks[Lowest.previous].height + 1
                     PROVE  FALSE
        BY <1>3 DEF Hangs
      <4>2. blocks[Lowest.previous].height \in Nat
        BY <4>1 DEF TypeOK, BlockInfo
      <4>3. Lowest.height = 0
        BY <1>3, <2>1
      <4> QED
        BY <4>1, <4>2, <4>3
    <3> QED
      BY <1>2, <1>3, <1>4, <2>1, <3>1
  <2>2. CASE height > 0
    <3>1. walk \in DOMAIN blocks /\ height = blocks[walk].height + 1
      BY <1>3, <2>2 DEF Hangs
    <3>2. height' = height /\ OnMainChain(walk)
      BY <1>2, <2>2, <3>1
    <3>3. blocks[walk].height \in Nat
      BY <3>1 DEF TypeOK, BlockInfo
    <3> QED
      BY <1>3, <1>4, <3>1, <3>2, <3>3 DEF OnMainChain
  <2> QED
    BY <1>2, <2>1, <2>2
<1>6. TypeOK'
  <2>1. height' \in Nat
    BY <1>4, <1>5
  <2> QED
    BY <1>1, <1>2, <2>1 DEF TypeOK
<1>7. FileOrdered' /\ IndexedOnce' /\ Progress' /\ ImportOK' /\ TreeOK'
  BY <1>1, <1>2 DEF FileOrdered, IndexedOnce, Progress, ImportOK, TreeOK,
                    Importing, InCommit
<1>8. ChainOK' /\ RebuildOK'
  BY <1>1, <1>2 DEF ChainOK, RebuildOK, PathAbove
<1>9. ReorganiseOK'
  <2>1. Lowest' = Lowest
    BY <1>1 DEF Lowest
  <2> QED
    BY <1>1, <1>2, <1>5, <2>1 DEF ReorganiseOK, InCommit
<1> QED
  BY <1>6, <1>7, <1>8, <1>9

\* The chain loses its tip, and keeps the block the new path hangs on.
LEMMA InvUndoBlock == Inv /\ UndoBlock => Inv'
<1> SUFFICES ASSUME Inv, UndoBlock PROVE Inv'
  OBVIOUS
<1> USE ConstantsAssumption DEF Inv
<1> DEFINE len == Len(currentChain)
<1>1. UNCHANGED <<file, dbBlocks, dbPosition, blockIds, blocks, longestBlock,
                  totalBits, hash, blockInfo, previousBlock, walk, height,
                  toAppend, best, bestBits, position, rescanIndex, pc, starts>>
  BY DEF UndoBlock, dbVars, tipVars, importVars, walkVars, bestVars, readVars
<1>2. pc = "undo" /\ len \in Nat /\ height \in Nat /\ height < len
  BY Lengths DEF UndoBlock, TypeOK
<1>3. /\ currentChain' \in Seq(Hash \cup {Null})
      /\ Len(currentChain') = len - 1
      /\ \A i \in 1..(len - 1) : currentChain'[i] = currentChain[i]
  <2>1. currentChain' = AllButLast(currentChain)
    BY DEF UndoBlock
  <2>2. currentChain \in Seq(Hash \cup {Null}) /\ len > 0
    BY <1>2 DEF TypeOK
  <2> QED
    BY <1>2, <2>1, <2>2, AllButLastFacts
<1>4. TypeOK'
  BY <1>1, <1>3 DEF TypeOK
<1>5. FileOrdered' /\ IndexedOnce' /\ Progress' /\ ImportOK' /\ TreeOK'
  BY <1>1 DEF FileOrdered, IndexedOnce, Progress, ImportOK, TreeOK, Importing,
              InCommit
<1>6. ChainOK'
  <2>1. PathAbove(currentChain, 0, Null)
    BY <1>2 DEF ChainOK
  <2>2. ASSUME NEW i \in 1..(len - 1)
        PROVE  /\ currentChain'[i] \in DOMAIN blocks
               /\ blocks[currentChain'[i]].height = i - 1
               /\ blocks[currentChain'[i]].previous
                    = IF i = 1 THEN Null ELSE currentChain'[i - 1]
    BY <1>2, <1>3, <2>1 DEF PathAbove
  <2> QED
    BY <1>1, <1>2, <1>3, <2>2 DEF ChainOK, PathAbove
<1>7. RebuildOK'
  BY <1>1, <1>2 DEF RebuildOK
<1>8. ReorganiseOK'
  <2>1. Lowest' = Lowest /\ InCommit'
    BY <1>1, <1>2 DEF Lowest, InCommit
  <2>2. height <= len - 1
    BY <1>2
  <2>3. Lowest.previous = IF height = 0 THEN Null ELSE currentChain'[height]
    BY <1>2, <1>3 DEF ReorganiseOK
  <2> QED
    BY <1>1, <1>2, <1>3, <2>1, <2>2, <2>3 DEF ReorganiseOK
<1> QED
  BY <1>4, <1>5, <1>6, <1>7, <1>8

\* The chain has exactly the height of the new path: resize() adds nothing.
LEMMA InvUndoEnds == Inv /\ UndoEnds => Inv'
<1> SUFFICES ASSUME Inv, UndoEnds PROVE Inv'
  OBVIOUS
<1> USE ConstantsAssumption DEF Inv
<1> DEFINE len == Len(currentChain)
<1>1. UNCHANGED <<file, dbBlocks, dbPosition, blockIds, blocks, longestBlock,
                  totalBits, hash, blockInfo, previousBlock, walk, toAppend,
                  best, bestBits, position, rescanIndex, starts>>
  BY DEF UndoEnds, dbVars, tipVars, importVars, bestVars, readVars
<1>2. /\ pc = "undo" /\ pc' = "redo" /\ height' = 0
      /\ len \in Nat /\ height = len
  BY Lengths DEF UndoEnds, TypeOK, ReorganiseOK
<1>3. /\ currentChain' \in Seq(Hash \cup {Null})
      /\ Len(currentChain') = len
      /\ \A i \in 1..len : currentChain'[i] = currentChain[i]
  <2>1. currentChain' = [i \in 1..len |->
                           IF i <= len THEN currentChain[i] ELSE Null]
    BY <1>2 DEF UndoEnds
  <2>2. \A i \in 1..len : currentChain[i] \in Hash \cup {Null}
    BY ElementOfSeq DEF TypeOK
  <2>3. \A i \in 1..len : currentChain'[i] = currentChain[i]
    BY <1>2, <2>1
  <2>4. currentChain' \in [1..len -> Hash \cup {Null}]
    BY <1>2, <2>1, <2>2
  <2> QED
    BY <1>2, <2>3, <2>4, IsASeq, LenProperties
<1>4. TypeOK'
  BY <1>1, <1>2, <1>3 DEF TypeOK
<1>5. FileOrdered' /\ IndexedOnce' /\ Progress' /\ ImportOK' /\ TreeOK'
  BY <1>1, <1>2 DEF FileOrdered, IndexedOnce, Progress, ImportOK, TreeOK,
                    Importing, InCommit
<1>6. ChainOK'
  <2>1. PathAbove(currentChain, 0, Null)
    BY <1>2 DEF ChainOK
  <2>2. ASSUME NEW i \in 1..len
        PROVE  /\ currentChain'[i] \in DOMAIN blocks
               /\ blocks[currentChain'[i]].height = i - 1
               /\ blocks[currentChain'[i]].previous
                    = IF i = 1 THEN Null ELSE currentChain'[i - 1]
    BY <1>2, <1>3, <2>1 DEF PathAbove
  <2>3. blockInfo.longestChain /\ blockInfo' = blockInfo /\ pc' = "redo"
    BY <1>1, <1>2 DEF ReorganiseOK
  <2>4. PathAbove(currentChain, 0, Null)'
    BY <1>1, <1>2, <1>3, <2>2 DEF PathAbove
  <2> QED
    BY <2>3, <2>4 DEF ChainOK
<1>7. RebuildOK'
  BY <1>2 DEF RebuildOK
<1>8. ReorganiseOK'
  <2>1. Lowest' = Lowest /\ InCommit'
    BY <1>1, <1>2 DEF Lowest, InCommit
  <2>2. Lowest.height = len /\ blockInfo.longestChain
    BY <1>2 DEF ReorganiseOK
  <2>3. (currentChain' = <<>>) = (len = 0)
    BY <1>2, <1>3
  <2>4. Lowest.previous = TipOf(currentChain')
    BY <1>2, <1>3, <2>3 DEF ReorganiseOK, TipOf
  <2>5. TipOf(currentChain)' = TipOf(currentChain')
    BY DEF TipOf
  <2> QED
    BY <1>1, <1>2, <1>3, <2>1, <2>2, <2>4, <2>5 DEF ReorganiseOK
<1> QED
  BY <1>4, <1>5, <1>6, <1>7, <1>8

\* The lowest block of the new path hangs on the tip of the chain.
LEMMA InvRedoBlock == Inv /\ RedoBlock => Inv'
<1> SUFFICES ASSUME Inv, RedoBlock PROVE Inv'
  OBVIOUS
<1> USE ConstantsAssumption DEF Inv
<1> DEFINE len == Len(currentChain)
           l == Len(toAppend)
           x == toAppend[l]
<1>1. UNCHANGED <<file, dbBlocks, dbPosition, blockIds, blocks, longestBlock,
                  totalBits, hash, blockInfo, previousBlock, walk, height,
                  best, bestBits, position, rescanIndex, pc, starts>>
  BY DEF RedoBlock, dbVars, tipVars, importVars, bestVars, readVars
<1>2. /\ pc = "redo" /\ toAppend # <<>> /\ InCommit
      /\ currentChain' = Append(currentChain, x)
      /\ toAppend' = AllButLast(toAppend)
  BY DEF RedoBlock, InCommit
<1>3. /\ len \in Nat /\ l \in Nat /\ l > 0 /\ l \in 1..l
      /\ x \in DOMAIN blocks /\ x \in Hash /\ x # Null
      /\ toAppend \in Seq(Hash) /\ currentChain \in Seq(Hash \cup {Null})
  <2>1. l \in 1..l /\ x \in DOMAIN blocks
    BY <1>2, LowestFacts
  <2> QED
    BY <2>1, Lengths, HashFacts DEF TypeOK
<1>4. /\ toAppend' \in Seq(Hash) /\ Len(toAppend') = l - 1
      /\ \A j \in 1..(l - 1) : toAppend'[j] = toAppend[j]
  BY <1>2, <1>3, AllButLastFacts
<1>5. /\ currentChain' \in Seq(Hash \cup {Null}) /\ Len(currentChain') = len + 1
      /\ currentChain' # <<>>
      /\ \A i \in 1..len : currentChain'[i] = currentChain[i]
      /\ currentChain'[len + 1] = x
  BY <1>2, <1>3, AppendProperties
<1>6. /\ blockInfo.longestChain
      /\ blocks[x].height = len
      /\ blocks[x].previous = TipOf(currentChain)
  BY <1>2 DEF ReorganiseOK, Lowest
<1>7. TypeOK'
  BY <1>1, <1>4, <1>5 DEF TypeOK
<1>8. FileOrdered' /\ IndexedOnce' /\ Progress' /\ ImportOK' /\ TreeOK'
  BY <1>1 DEF FileOrdered, IndexedOnce, Progress, ImportOK, TreeOK, Importing,
              InCommit
<1>9. ChainOK'
  <2>1. PathAbove(currentChain, 0, Null)
    BY <1>2 DEF ChainOK
  <2>2. ASSUME NEW i \in 1..(len + 1)
        PROVE  /\ currentChain'[i] \in DOMAIN blocks
               /\ blocks[currentChain'[i]].height = i - 1
               /\ blocks[currentChain'[i]].previous
                    = IF i = 1 THEN Null ELSE currentChain'[i - 1]
    <3>1. CASE i = len + 1
      <4>1. TipOf(currentChain) = IF len = 0 THEN Null ELSE currentChain'[len]
        BY <1>3, <1>5 DEF TipOf
      <4> QED
        BY <1>3, <1>5, <1>6, <3>1, <4>1
    <3>2. CASE i # len + 1
      BY <1>3, <1>5, <2>1, <3>2 DEF PathAbove
    <3> QED
      BY <3>1, <3>2
  <2>3. blockInfo.longestChain /\ blockInfo' = blockInfo /\ pc' = "redo"
    BY <1>1, <1>2, <1>6
  <2>4. PathAbove(currentChain, 0, Null)'
    BY <1>1, <1>3, <1>5, <2>2 DEF PathAbove
  <2> QED
    BY <2>3, <2>4 DEF ChainOK
<1>10. RebuildOK'
  BY <1>1, <1>2 DEF RebuildOK
<1>11. ReorganiseOK'
  <2>1. TipOf(currentChain)' = x /\ Len(currentChain') = len + 1
    BY <1>3, <1>5 DEF TipOf
  <2>2. Lowest'.height = len + 1 /\ Lowest'.previous = x
    <3>1. CASE l = 1
      <4>1. Lowest' = blockInfo
        BY <1>1, <1>4, <3>1 DEF Lowest
      <4>2. blockInfo.previous = x
        BY <1>2, <3>1 DEF ReorganiseOK
      <4>3. Hangs(blockInfo)
        BY <1>2, TreeFacts DEF Importing, InCommit
      <4> QED
        BY <1>3, <1>6, <4>1, <4>2, <4>3 DEF Hangs
    <3>2. CASE l # 1
      <4> DEFINE y == toAppend[l - 1]
      <4>1. l - 1 \in 1..l /\ l - 1 \in 1..(l - 1) /\ l > 1
        <5>1. l \in Nat /\ l > 1
          <6>1. \A m \in Nat : m > 0 /\ m # 1 => m > 1
            OBVIOUS
          <6> QED
            BY <1>3, <3>2, <6>1, Zenon
        <5> HIDE DEF l
        <5> QED
          BY <5>1
      <4>2. toAppend' # <<>> /\ toAppend'[Len(toAppend')] = y
        BY <1>4, <4>1
      <4>3. Lowest' = blocks[y]
        BY <1>1, <4>2 DEF Lowest
      <4>4. y \in DOMAIN blocks /\ blocks[y].previous = x
        BY <1>3, <4>1 DEF ReorganiseOK
      <4>5. Hangs(blocks[y])
        BY <4>4, TreeFacts
      <4> QED
        BY <1>3, <1>6, <4>3, <4>4, <4>5 DEF Hangs
    <3> QED
      BY <3>1, <3>2
  <2>3. \A j \in 1..Len(toAppend') :
          /\ toAppend'[j] \in DOMAIN blocks'
          /\ j > 1 => toAppend'[j] = blocks'[toAppend'[j - 1]].previous
    <3> SUFFICES ASSUME NEW j \in 1..(l - 1)
                 PROVE  /\ toAppend'[j] \in DOMAIN blocks
                        /\ j > 1 => toAppend'[j] = blocks[toAppend'[j - 1]].previous
      BY <1>1, <1>4
    <3>1. j \in 1..l /\ (j > 1 => j - 1 \in 1..(l - 1))
      BY <1>3
    <3> QED
      BY <1>4, <3>1 DEF ReorganiseOK
  <2>4. toAppend' # <<>> => toAppend'[1] = blockInfo.previous
    <3>1. toAppend' # <<>> => 1 \in 1..(l - 1)
      BY <1>3, <1>4
    <3> QED
      BY <1>2, <1>4, <3>1 DEF ReorganiseOK
  <2>5. InCommit' /\ pc' = "redo" /\ blockInfo' = blockInfo
    BY <1>1, <1>2 DEF InCommit
  <2> QED
    BY <1>6, <2>1, <2>2, <2>3, <2>4, <2>5 DEF ReorganiseOK
<1> QED
  BY <1>7, <1>8, <1>9, <1>10, <1>11

\* The new block joins the tree, the chain and the database.
LEMMA InvFinish == Inv /\ Finish => Inv'
<1> SUFFICES ASSUME Inv, Finish PROVE Inv'
  OBVIOUS
<1> USE ConstantsAssumption DEF Inv
<1> DEFINE n == Len(dbBlocks)
           new == n + 1
           len == Len(currentChain)
<1>1. UNCHANGED <<file, blockIds, walk, height, toAppend, best, bestBits,
                  position, rescanIndex, starts>>
  BY DEF Finish, walkVars, bestVars, readVars
<1>2. /\ pc = "redo" /\ pc' = "idle" /\ toAppend = <<>> /\ InCommit /\ Importing
      /\ IF blockInfo.longestChain
         THEN /\ totalBits' = blockInfo.totalBits
              /\ longestBlock' = hash
              /\ currentChain' = Append(currentChain, hash)
         ELSE UNCHANGED <<longestBlock, totalBits, currentChain>>
      /\ blocks' = Insert(blocks, hash, blockInfo)
      /\ dbPosition' = position
      /\ hash' = Null /\ blockInfo' = ZeroInfo /\ previousBlock' = NoIndex
  BY DEF Finish, SavedPosition, tipVars, InCommit, Importing
<1>3. /\ n \in Nat /\ len \in Nat /\ Len(blockIds) = new
      /\ position = new /\ hash = new /\ new \in 1..Len(file) /\ Len(file) \in Nat
      /\ DOMAIN blocks = 1..n /\ hash \notin DOMAIN blocks
      /\ hash \in Hash /\ hash # Null
      /\ blockInfo \in BlockInfo
  <2>1. hash \in Hash \cup {Null} /\ blockInfo \in BlockInfo
    BY DEF TypeOK
  <2>2. position = new /\ hash = new /\ position <= Len(file) /\ Len(blockIds) = new
    BY <1>2 DEF Progress
  <2> QED
    BY <1>2, <2>1, <2>2, Lengths, TreeFacts
<1> DEFINE q == file[new].previous
<1>4. /\ blockInfo.index = n /\ blockInfo.previous = q
      /\ blockInfo.bits = file[new].bits /\ previousBlock = q - 1
      /\ blockInfo.height = IF q = Null THEN 0 ELSE dbBlocks[q].height + 1
      /\ q \in Nat /\ q < new /\ q \in Hash \cup {Null}
      /\ file[new].bits \in Bits
  <2>1. q \in Nat /\ q \in Hash \cup {Null} /\ file[new].bits \in Bits
    BY <1>3, FileTypes
  <2>2. q < new
    BY <1>3 DEF FileOrdered
  <2> QED
    BY <1>2, <1>3, <2>1, <2>2 DEF ImportOK
<1>5. /\ DOMAIN blocks' = 1..new
      /\ blocks'[new] = blockInfo
      /\ \A h \in 1..n : blocks'[h] = blocks[h]
  <2>1. 1..n \cup {new} = 1..new
    BY <1>3
  <2>2. /\ DOMAIN Insert(blocks, hash, blockInfo) = DOMAIN blocks \cup {hash}
        /\ \A h \in DOMAIN blocks : Insert(blocks, hash, blockInfo)[h] = blocks[h]
        /\ Insert(blocks, hash, blockInfo)[hash] = blockInfo
    BY <1>3 DEF Insert
  <2> QED
    BY <1>2, <1>3, <2>1, <2>2
<1>6. /\ dbBlocks' \in Seq(DbBlock) /\ Len(dbBlocks') = new
      /\ dbBlocks'[new] = NewDbBlock
      /\ \A i \in 1..n : dbBlocks'[i] = dbBlocks[i]
  <2>1. dbBlocks' = Append(dbBlocks, NewDbBlock)
    BY <1>3, <1>4 DEF Finish
  <2>2. NewDbBlock \in DbBlock
    <3>1. blockInfo.height \in Nat /\ previousBlock \in Nat \cup {NoIndex}
      BY <1>3 DEF BlockInfo, TypeOK
    <3> QED
      BY <1>3, <1>4, <3>1 DEF NewDbBlock, DbBlock
  <2>3. dbBlocks \in Seq(DbBlock)
    BY DEF TypeOK
  <2> QED
    BY <2>1, <2>2, <2>3, AppendProperties
<1>7. TypeOK'
  <2>1. DOMAIN blocks' \subseteq Hash /\ \A h \in DOMAIN blocks' : blocks'[h] \in BlockInfo
    <3>1. 1..new \subseteq Hash
      BY <1>3 DEF Hash
    <3>2. \A h \in 1..n : blocks[h] \in BlockInfo
      BY <1>3 DEF TypeOK
    <3>3. \A h \in 1..new : h = new \/ h \in 1..n
      BY <1>3
    <3> QED
      BY <1>3, <1>5, <3>1, <3>2, <3>3
  <2>2. /\ currentChain' \in Seq(Hash \cup {Null})
        /\ longestBlock' \in Hash \cup {Null} /\ totalBits' \in Nat
    <3>1. currentChain \in Seq(Hash \cup {Null}) /\ hash \in Hash \cup {Null}
      BY DEF TypeOK
    <3>2. Append(currentChain, hash) \in Seq(Hash \cup {Null})
      BY <3>1, AppendProperties
    <3>3. blockInfo.totalBits \in Nat
      BY <1>3 DEF BlockInfo
    <3>4. CASE blockInfo.longestChain
      BY <1>2, <3>1, <3>2, <3>3, <3>4
    <3>5. CASE ~blockInfo.longestChain
      BY <1>2, <3>5 DEF TypeOK
    <3> QED
      BY <3>4, <3>5
  <2>3. ZeroInfo \in BlockInfo
    BY EmptySeq DEF ZeroInfo, BlockInfo
  <2>4. /\ hash' \in Hash \cup {Null} /\ blockInfo' \in BlockInfo
        /\ previousBlock' \in Nat \cup {NoIndex} /\ dbPosition' \in Nat
    BY <1>2, <1>3, <2>3
  <2> QED
    BY <1>1, <1>2, <1>6, <2>1, <2>2, <2>4 DEF TypeOK
<1>8. FileOrdered'
  BY <1>1 DEF FileOrdered
<1>9. IndexedOnce'
  <2>1. /\ NewDbBlock.hash = new /\ NewDbBlock.previous = q - 1
        /\ NewDbBlock.bits = file[new].bits
        /\ NewDbBlock.height = IF q = Null THEN 0 ELSE dbBlocks[q].height + 1
    BY <1>3, <1>4 DEF NewDbBlock
  <2>2. q # Null => q \in 1..n
    BY <1>3, <1>4
  <2>3. ASSUME NEW i \in 1..n
        PROVE  file[i].previous # Null => file[i].previous \in 1..n
    <3>1. i \in 1..Len(file)
      BY <1>3
    <3>2. file[i].previous \in Nat /\ file[i].previous < i
      BY <3>1, FileTypes DEF FileOrdered
    <3> QED
      BY <1>3, <3>2
  <2>4. ASSUME NEW i \in 1..new
        PROVE  /\ dbBlocks'[i].hash = i
               /\ dbBlocks'[i].previous = file[i].previous - 1
               /\ dbBlocks'[i].bits = file[i].bits
               /\ dbBlocks'[i].height = IF file[i].previous = Null THEN 0
                                        ELSE dbBlocks'[file[i].previous].height + 1
    <3>1. CASE i = new
      BY <1>6, <2>1, <2>2, <3>1
    <3>2. CASE i # new
      <4>1. i \in 1..n
        BY <1>3, <3>2
      <4> QED
        BY <1>6, <2>3, <4>1 DEF IndexedOnce
    <3> QED
      BY <3>1, <3>2
  <2>5. dbPosition' = Len(dbBlocks')
    BY <1>2, <1>3, <1>6
  <2> QED
    BY <1>1, <1>6, <2>4, <2>5 DEF IndexedOnce
<1>10. Progress'
  BY <1>1, <1>2, <1>3, <1>6 DEF Progress, Importing, InCommit
<1>11. TreeOK'
  <2>1. ASSUME NEW h \in 1..new
        PROVE  /\ blocks'[h].index = h - 1
               /\ blocks'[h].previous = file[h].previous
               /\ blocks'[h].height = dbBlocks'[h].height
    <3>1. CASE h = new
      BY <1>3, <1>4, <1>5, <1>6, <3>1 DEF NewDbBlock
    <3>2. CASE h # new
      <4>1. h \in 1..n
        BY <1>3, <3>2
      <4> QED
        BY <1>3, <1>5, <1>6, <4>1 DEF TreeOK
    <3> QED
      BY <3>1, <3>2
  <2> QED
    BY <1>1, <1>2, <1>3, <1>5, <2>1 DEF TreeOK, InCommit
<1>12. ImportOK'
  BY <1>2 DEF ImportOK, Importing
<1>13. ChainOK'
  <2>1. PathAbove(currentChain, 0, Null)
    BY <1>2 DEF ChainOK
  <2>2. ASSUME NEW i \in 1..len
        PROVE  /\ currentChain[i] \in 1..n
               /\ currentChain[i] \in DOMAIN blocks'
               /\ blocks'[currentChain[i]].height = i - 1
               /\ blocks'[currentChain[i]].previous
                    = IF i = 1 THEN Null ELSE currentChain[i - 1]
    <3>1. /\ currentChain[i] \in 1..n
          /\ blocks[currentChain[i]].height = i - 1
          /\ blocks[currentChain[i]].previous
               = IF i = 1 THEN Null ELSE currentChain[i - 1]
      BY <1>3, <2>1 DEF PathAbove
    <3>2. 1..n \subseteq 1..new
      BY <1>3
    <3> QED
      BY <1>5, <3>1, <3>2
  <2>3. CASE blockInfo.longestChain
    <3>1. /\ currentChain' # <<>> /\ Len(currentChain') = len + 1
          /\ \A i \in 1..len : currentChain'[i] = currentChain[i]
          /\ currentChain'[len + 1] = hash /\ longestBlock' = hash
      <4>1. currentChain \in Seq(Hash \cup {Null}) /\ hash \in Hash \cup {Null}
        BY DEF TypeOK
      <4> QED
        BY <1>2, <2>3, <4>1, AppendProperties
    <3>2. blockInfo.height = len /\ blockInfo.previous = TipOf(currentChain)
      BY <1>2, <2>3 DEF ReorganiseOK, Lowest
    <3>3. ASSUME NEW i \in 1..(len + 1)
          PROVE  /\ currentChain'[i] \in DOMAIN blocks'
                 /\ blocks'[currentChain'[i]].height = i - 1
                 /\ blocks'[currentChain'[i]].previous
                      = IF i = 1 THEN Null ELSE currentChain'[i - 1]
      <4>1. CASE i = len + 1
        <5>1. TipOf(currentChain) = IF len = 0 THEN Null ELSE currentChain'[len]
          BY <1>3, <3>1, Lengths DEF TipOf, TypeOK
        <5> QED
          BY <1>3, <1>5, <3>1, <3>2, <4>1, <5>1
      <4>2. CASE i # len + 1
        <5>1. i \in 1..len /\ (i # 1 => i - 1 \in 1..len) /\ len \in Nat
          BY <1>3, <4>2
        <5>2. currentChain'[i] = currentChain[i]
          BY <3>1, <5>1
        <5>3. i # 1 => currentChain'[i - 1] = currentChain[i - 1]
          BY <3>1, <5>1
        <5> QED
          BY <2>2, <5>1, <5>2, <5>3
      <4> QED
        BY <4>1, <4>2
    <3>4. TipOf(currentChain)' = longestBlock'
      BY <3>1 DEF TipOf
    <3> QED
      BY <1>2, <3>1, <3>3, <3>4 DEF ChainOK, PathAbove
  <2>4. CASE ~blockInfo.longestChain
    <3>1. currentChain' = currentChain /\ longestBlock' = longestBlock
      BY <1>2, <2>4
    <3>2. longestBlock \in {Null, TipOf(currentChain)}
      BY <1>2, <2>4 DEF ChainOK
    <3> QED
      BY <1>2, <2>2, <3>1, <3>2 DEF ChainOK, PathAbove, TipOf
  <2> QED
    BY <2>3, <2>4
<1>14. RebuildOK'
  BY <1>2 DEF RebuildOK
<1>15. ReorganiseOK'
  <2>1. toAppend' = <<>> /\ Len(toAppend') = 0 /\ pc' = "idle"
    BY <1>1, <1>2
  <2> QED
    BY <2>1 DEF ReorganiseOK
<1> QED
  BY <1>7, <1>8, <1>9, <1>10, <1>11, <1>12, <1>13, <1>14, <1>15
-----------------------------------------------------------------------------
(* The theorems.                                                           *)

\* Every step of the daemon, of bitcoind and every crash keeps the invariant,
\* if no start asks for a rescan.
LEMMA InvNext == ASSUME NoRescans PROVE Inv /\ [Next]_vars => Inv'
<1> SUFFICES ASSUME Inv, [Next]_vars PROVE Inv'
  OBVIOUS
<1>1. CASE BlockArrives
  BY <1>1, InvBlockArrives
<1>2. CASE Crash
  BY <1>2, InvDown DEF Crash
<1>3. CASE Start
  BY <1>3, InvStart
<1>4. CASE Restore
  <2>1. CASE RestoreBlock
    BY <2>1, InvRestoreBlock
  <2>2. CASE SizeChain
    BY <2>2, InvSizeChain
  <2>3. CASE RebuildChain
    BY <2>3, InvRebuildChain
  <2>4. CASE RestorePosition
    BY <2>4, InvRestorePosition
  <2> QED
    BY <1>4, <2>1, <2>2, <2>3, <2>4 DEF Restore
<1>5. CASE Commit
  <2>1. CASE BeginCommit
    BY <2>1, InvBeginCommit
  <2>2. CASE WalkBack
    BY <2>2, InvWalkBack
  <2>3. CASE WalkEnds
    BY <2>3, InvWalkEnds
  <2>4. CASE UndoBlock
    BY <2>4, InvUndoBlock
  <2>5. CASE UndoEnds
    BY <2>5, InvUndoEnds
  <2>6. CASE RedoBlock
    BY <2>6, InvRedoBlock
  <2>7. CASE Finish
    BY <2>7, InvFinish
  <2> QED
    BY <1>5, <2>1, <2>2, <2>3, <2>4, <2>5, <2>6, <2>7 DEF Commit
<1>6. CASE ReadFails
  BY <1>6, InvReadFails
<1>7. CASE SkipBlock
  BY <1>7, InvSkipBlock
<1>8. CASE ReadExistingBlock \/ RestoreFails
  BY <1>8, InvDown DEF ReadExistingBlock, RestoreFails
<1>9. CASE ReadBlock
  BY <1>9, InvReadBlock
<1>10. CASE UNCHANGED vars
  BY <1>10 DEF vars, dbVars, memVars, tipVars, importVars, walkVars, bestVars,
    readVars, Inv, TypeOK, FileOrdered, IndexedOnce, Progress, TreeOK,
    ImportOK, ChainOK, RebuildOK, ReorganiseOK, PathAbove, TipOf, Lowest,
    Importing, InCommit
<1> QED
  BY <1>1, <1>2, <1>3, <1>4, <1>5, <1>6, <1>7, <1>8, <1>9, <1>10
  DEF Next, Main

\* The invariant holds of every state that a daemon without rescans reaches.
LEMMA InvAlways == ASSUME NoRescans PROVE Spec => []Inv
<1>1. Inv /\ [Next]_vars => Inv'
  BY InvNext
<1> QED
  BY <1>1, InvInit, PTL DEF Spec

\* Every variable keeps its type: indices, heights and positions stay natural
\* numbers, and only hashes of the files are in memory or in LevelDB.
THEOREM TypeCorrect == ASSUME NoRescans PROVE Spec => []TypeOK
<1>1. Inv => TypeOK
  BY DEF Inv
<1> QED
  BY <1>1, InvAlways, PTL

\* Whatever the crashes, a block of the files is indexed once, in the order of
\* the files and under its parent (main.cpp:823-831 and 408-415).
THEOREM IndexedOnceAlways == ASSUME NoRescans PROVE Spec => []IndexedOnce
<1>1. Inv => IndexedOnce
  BY DEF Inv
<1> QED
  BY <1>1, InvAlways, PTL

\* Every reader of currentChain finds one path of the tree, by height, after
\* any reorganisation and any restart (main.cpp:397-406 and 834-942).
THEOREM ChainLinkedAlways == ASSUME NoRescans PROVE Spec => []ChainLinked
<1>1. Inv => ChainLinked
  <2> SUFFICES ASSUME Inv, LockFree PROVE ChainLinked
    BY DEF ChainLinked
  <2>1. PathAbove(currentChain, 0, Null)
    BY DEF Inv, ChainOK, LockFree
  <2> QED
    BY <2>1 DEF ChainLinked, PathAbove
<1> QED
  BY <1>1, InvAlways, PTL

-----------------------------------------------------------------------------
(* BestChain.                                                              *)

\* What the comparison of totals rests on: the tip is known and has the total
\* that new blocks are compared with, which a block that is imported keeps from
\* the moment it is read (main.cpp:553-571) to its commit (927-929).
TipInv ==
  /\ pc \notin {"down", "restore", "rebuild"}
  /\ longestBlock \in DOMAIN blocks \cup {Null}
  /\ totalBits = IF longestBlock = Null THEN 0 ELSE blocks[longestBlock].totalBits
  /\ Importing =>
       /\ blockInfo.totalBits =
            blockInfo.bits + IF blockInfo.previous = Null THEN 0
                             ELSE blocks[blockInfo.previous].totalBits
       /\ blockInfo.longestChain <=> blockInfo.totalBits > totalBits

\* A step that neither adds a block nor changes a parent or a total.
TotalsKept ==
  /\ DOMAIN blocks' = DOMAIN blocks
  /\ \A h \in DOMAIN blocks : /\ blocks'[h].previous = blocks[h].previous
                              /\ blocks'[h].totalBits = blocks[h].totalBits

\* BestChain does not see such a step, unless the tip changes.
LEMMA BestStutters ==
  ASSUME TotalsKept, UNCHANGED longestBlock
  PROVE  UNCHANGED Best!vars
<1> DEFINE tree == [h \in DOMAIN blocks |-> [parent |-> blocks[h].previous,
                                            total  |-> blocks[h].totalBits]]
<1>1. tree' = tree
  BY DEF TotalsKept
<1> QED
  BY <1>1 DEF Best!vars

\* What is imported is not touched by a step of the commit, nor is the tip.
LEMMA TipKept ==
  ASSUME Inv, TipInv, TotalsKept, UNCHANGED <<longestBlock, totalBits>>,
         pc' \notin {"down", "restore", "rebuild"},
         Importing' => Importing /\ UNCHANGED blockInfo
  PROVE  TipInv' /\ UNCHANGED Best!vars
<1>1. Importing => blockInfo.previous \in DOMAIN blocks \cup {Null}
  BY TreeFacts DEF Hangs
<1>2. longestBlock' \in DOMAIN blocks' \cup {Null}
  BY DEF TipInv, TotalsKept
<1>3. totalBits' = IF longestBlock' = Null THEN 0 ELSE blocks'[longestBlock'].totalBits
  BY DEF TipInv, TotalsKept
<1>4. Importing' =>
        /\ blockInfo'.totalBits =
             blockInfo'.bits + IF blockInfo'.previous = Null THEN 0
                               ELSE blocks'[blockInfo'.previous].totalBits
        /\ blockInfo'.longestChain <=> blockInfo'.totalBits > totalBits'
  BY <1>1 DEF TipInv, TotalsKept
<1> QED
  BY <1>2, <1>3, <1>4, BestStutters DEF TipInv

\* A block is read: its parent gets a child, its total is that of the parent
\* and its own bits.
LEMMA TipReadBlock ==
  ASSUME Inv, TipInv, ReadBlock
  PROVE  TipInv' /\ UNCHANGED Best!vars
<1> DEFINE new == position + 1
           q == file[new].previous
<1>1. /\ pc = "idle" /\ pc' = "process" /\ hash' = new
      /\ UNCHANGED <<file, dbBlocks, longestBlock, totalBits>>
  BY DEF ReadBlock, dbVars, tipVars
<1>2. q = Null \/ q \in DOMAIN blocks
  <2>1. new \in 1..Len(file) /\ new = Len(dbBlocks) + 1 /\ Len(dbBlocks) \in Nat
    BY <1>1, Lengths DEF Inv, Progress, ReadBlock, MoreToRead
  <2>2. q \in Nat /\ q < new
    BY <2>1, FileTypes DEF Inv, FileOrdered
  <2>3. DOMAIN blocks = 1..Len(dbBlocks)
    BY <1>1, TreeFacts
  <2> QED
    BY <2>1, <2>2, <2>3 DEF Null
<1>3. q # Null => Insert(blocks, q, ZeroInfo) = [h \in DOMAIN blocks |-> blocks[h]]
  <2>1. q # Null => DOMAIN blocks \cup {q} = DOMAIN blocks
    BY <1>2
  <2> QED
    BY <1>2, <2>1 DEF Insert
<1> DEFINE known == [h \in DOMAIN blocks |-> blocks[h]]
<1>4. TotalsKept
  <2>1. CASE q = Null
    BY <2>1 DEF ReadBlock, TotalsKept
  <2>2. CASE q # Null
    <3>1. blocks' = WithChild(known, q, new)
      BY <1>3, <2>2 DEF ReadBlock
    <3>2. blocks' = [known EXCEPT ![q] = [known[q] EXCEPT !.nexts = Append(@, new)]]
      BY <3>1 DEF WithChild
    <3>3. q \in DOMAIN blocks /\ blocks[q] \in BlockInfo
      BY <1>2, <2>2 DEF Inv, TypeOK
    <3>4. /\ [known[q] EXCEPT !.nexts = Append(@, new)].previous = blocks[q].previous
          /\ [known[q] EXCEPT !.nexts = Append(@, new)].totalBits = blocks[q].totalBits
      BY <3>3 DEF BlockInfo
    <3> QED
      BY <3>2, <3>3, <3>4 DEF TotalsKept
  <2> QED
    BY <2>1, <2>2
<1>5. /\ blockInfo'.previous = q /\ blockInfo'.bits = file[new].bits
      /\ blockInfo'.totalBits =
           file[new].bits + IF q = Null THEN 0 ELSE blocks[q].totalBits
      /\ blockInfo'.longestChain = (blockInfo'.totalBits > totalBits)
  BY <1>2, <1>3 DEF ReadBlock, NewLongest
<1>6. /\ blockInfo'.totalBits =
           blockInfo'.bits + IF blockInfo'.previous = Null THEN 0
                             ELSE blocks'[blockInfo'.previous].totalBits
      /\ blockInfo'.longestChain <=> blockInfo'.totalBits > totalBits'
  BY <1>1, <1>2, <1>4, <1>5 DEF TotalsKept
<1>7. longestBlock' \in DOMAIN blocks' \cup {Null}
  BY <1>1, <1>4 DEF TipInv, TotalsKept
<1>8. totalBits' = IF longestBlock' = Null THEN 0 ELSE blocks'[longestBlock'].totalBits
  BY <1>1, <1>4 DEF TipInv, TotalsKept
<1> QED
  BY <1>1, <1>4, <1>6, <1>7, <1>8, BestStutters DEF TipInv

\* Of the steps of a commit before the last one, only the walk changes the tree,
\* and of that the flags only.
LEMMA TipCommit ==
  ASSUME Inv, TipInv,
         BeginCommit \/ WalkBack \/ WalkEnds \/ UndoBlock \/ UndoEnds \/ RedoBlock
  PROVE  TipInv' /\ UNCHANGED Best!vars
<1>1. /\ UNCHANGED <<longestBlock, totalBits, blockInfo>>
      /\ Importing /\ pc' \in {"walk", "undo", "redo"}
  BY DEF BeginCommit, WalkBack, WalkEnds, UndoBlock, UndoEnds, RedoBlock,
    tipVars, importVars, memVars, Importing
<1>2. TotalsKept
  <2>1. CASE WalkBack
    <3>1. ASSUME NEW b \in DOMAIN blocks, NEW flag
          PROVE  /\ [blocks[b] EXCEPT !.longestChain = flag].previous = blocks[b].previous
                 /\ [blocks[b] EXCEPT !.longestChain = flag].totalBits = blocks[b].totalBits
      <4>1. blocks[b] \in BlockInfo
        BY DEF Inv, TypeOK
      <4> QED
        BY <4>1 DEF BlockInfo
    <3> QED
      BY <2>1, <3>1 DEF WalkBack, TotalsKept
  <2>2. CASE ~WalkBack
    BY <2>2 DEF BeginCommit, WalkEnds, UndoBlock, UndoEnds, RedoBlock, memVars, TotalsKept
  <2> QED
    BY <2>1, <2>2
<1> QED
  BY <1>1, <1>2, TipKept

\* The last step of a commit: the block is learned, and becomes the tip if its
\* total is larger than that of the tip.
LEMMA TipFinish ==
  ASSUME Inv, TipInv, Finish
  PROVE  TipInv' /\ Best!Next
<1> DEFINE tree == [h \in DOMAIN blocks |-> [parent |-> blocks[h].previous,
                                            total  |-> blocks[h].totalBits]]
           parent == blockInfo.previous
           bits == blockInfo.bits
           total == blockInfo.totalBits
           above == IF parent = Null THEN 0 ELSE blocks[parent].totalBits
<1>1. /\ Importing /\ ~Importing' /\ pc' = "idle"
      /\ blocks' = Insert(blocks, hash, blockInfo)
      /\ longestBlock' = IF blockInfo.longestChain THEN hash ELSE longestBlock
      /\ totalBits' = IF blockInfo.longestChain THEN total ELSE totalBits
  BY DEF Finish, Importing, tipVars
<1>2. hash \notin DOMAIN blocks /\ parent \in DOMAIN blocks \cup {Null}
  BY <1>1, TreeFacts DEF Hangs
<1>3. hash \in 1..Len(file)
  BY <1>1, Lengths DEF Inv, Progress
<1>4. hash \in Hash /\ hash # Null /\ bits \in Bits
  <2>1. hash \in Hash \cup {Null} /\ file[hash].bits \in Bits
    BY <1>3, FileTypes DEF Inv, TypeOK
  <2> QED
    BY <1>1, <1>3, <2>1 DEF Inv, ImportOK, Null
<1>5. Null \notin DOMAIN blocks /\ DOMAIN blocks \subseteq Hash
  BY HashFacts DEF Inv, TypeOK
<1>6. /\ DOMAIN blocks' = DOMAIN blocks \cup {hash}
      /\ blocks'[hash] = blockInfo
      /\ \A h \in DOMAIN blocks : blocks'[h] = blocks[h]
  BY <1>1, <1>2 DEF Insert
<1>7. total = above + bits /\ (blockInfo.longestChain <=> total > totalBits)
  <2>1. total = bits + above /\ (blockInfo.longestChain <=> total > totalBits)
    BY <1>1 DEF TipInv
  <2>2. bits \in Nat /\ above \in Nat
    BY <1>2, <1>4, HashFacts DEF Inv, TypeOK, BlockInfo
  <2> QED
    BY <2>1, <2>2
<1>8. TipInv'
  <2>1. longestBlock' \in DOMAIN blocks' \cup {Null}
    BY <1>1, <1>6 DEF TipInv
  <2>2. totalBits' = IF longestBlock' = Null THEN 0 ELSE blocks'[longestBlock'].totalBits
    BY <1>1, <1>4, <1>6 DEF TipInv
  <2> QED
    BY <1>1, <2>1, <2>2 DEF TipInv
<1>9. tree' = [h \in DOMAIN tree \cup {hash} |->
                 IF h = hash THEN [parent |-> parent, total |-> total] ELSE tree[h]]
  BY <1>2, <1>6
<1>10. Best!Total(parent) = above
  BY <1>2 DEF Best!Total
<1>11. Best!Total(longestBlock) = totalBits
  BY DEF TipInv, Best!Total
<1>12. Best!Learn(hash, parent, bits)
  <2>1. hash \notin DOMAIN tree /\ parent \in DOMAIN tree \cup {Null}
    BY <1>2
  <2>2. tree' = [h \in DOMAIN tree \cup {hash} |->
                   IF h = hash THEN [parent |-> parent, total |-> Best!Total(parent) + bits]
                   ELSE tree[h]]
    BY <1>7, <1>9, <1>10
  <2>3. longestBlock' = IF Best!Total(parent) + bits > Best!Total(longestBlock)
                        THEN hash ELSE longestBlock
    BY <1>1, <1>7, <1>10, <1>11
  <2> QED
    BY <2>1, <2>2, <2>3, Zenon DEF Best!Learn
<1>13. parent \in Hash \cup {Null}
  BY <1>2, <1>5
<1>14. Best!Next
  <2> HIDE DEF parent, bits, tree
  <2>1. \E b \in Hash, p \in Hash \cup {Null}, s \in Bits : Best!Learn(b, p, s)
    BY <1>4, <1>12, <1>13, Zenon DEF Best!Learn
  <2> QED
    BY <2>1 DEF Best!Next
<1> QED
  BY <1>8, <1>14

\* A step of bitcoind or of a daemon that is never stopped is one of BestChain,
\* or none.
LEMMA TipNext ==
  ASSUME MaxStarts = 0, NoRescans, Inv, TipInv, [Next]_vars
  PROVE  TipInv' /\ [Best!Next]_(Best!vars)
<1>1. CASE BlockArrives
  BY <1>1, TipKept DEF BlockArrives, memVars, tipVars, importVars, TotalsKept, TipInv, Importing
<1>2. CASE Crash
  BY <1>2 DEF Crash, Inv, TypeOK
<1>3. CASE Start
  BY <1>3 DEF Start, TipInv
<1>4. CASE Restore \/ RestoreFails
  BY <1>4 DEF Restore, RestoreFails, RestoreBlock, SizeChain, RebuildChain, RestorePosition, TipInv
<1>5. CASE Finish
  BY <1>5, TipFinish
<1>6. CASE BeginCommit \/ WalkBack \/ WalkEnds \/ UndoBlock \/ UndoEnds \/ RedoBlock
  BY <1>6, TipCommit
<1>7. CASE ReadFails
  BY <1>7, TipKept DEF ReadFails, memVars, tipVars, importVars, TotalsKept, TipInv, Importing
<1>8. CASE SkipBlock
  BY <1>8 DEF SkipBlock, StillSkipping, Inv, Progress, NoIndex
<1>9. CASE ReadExistingBlock
  BY <1>9, Lengths DEF ReadExistingBlock, BlockExists, Inv, Progress
<1>10. CASE ReadBlock
  BY <1>10, TipReadBlock
<1>11. CASE UNCHANGED vars
  BY <1>11, TipKept DEF vars, memVars, tipVars, importVars, TotalsKept, TipInv, Importing
<1> QED
  BY <1>1, <1>2, <1>3, <1>4, <1>5, <1>6, <1>7, <1>8, <1>9, <1>10, <1>11
  DEF Next, Main, Commit

\* A daemon that is not started again learns the blocks of the files one by one
\* and has at any time the tip of the first of their heaviest chains, whatever
\* the branches (main.cpp:557-571 and 834-942).
THEOREM BestChainImplemented ==
  ASSUME MaxStarts = 0, NoRescans PROVE Spec => ImplementsBestChain
<1>1. Init => TipInv /\ Best!Init
  BY DEF Init, TipInv, Best!Init, NoBlocks, Importing, Null
<1>2. Inv /\ TipInv /\ [Next]_vars => TipInv' /\ [Best!Next]_(Best!vars)
  BY TipNext
<1> QED
  BY <1>1, <1>2, InvAlways, PTL DEF Spec, ImplementsBestChain, Best!Spec

-----------------------------------------------------------------------------
(* BlockStream.                                                            *)

\* Nothing but a position that is read, saved or set again changes in the view
\* of BlockStream.
LEMMA StreamStutters ==
  ASSUME UNCHANGED <<Len(file), ReaderPosition, dbPosition>>
  PROVE  UNCHANGED Stream!vars
  BY DEF Stream!vars

\* The process goes down, and the reader with it: it is back where it was saved.
LEMMA StreamDown == ASSUME Down PROVE Stream!Restart
  BY DEF Down, dbVars, ReaderPosition, Stream!Restart

\* The steps of the restore leave the position alone; the last one sets the
\* saved one.
LEMMA StreamRestore ==
  ASSUME Inv, Restore
  PROVE  UNCHANGED Stream!vars
<1> USE DEF ReaderPosition, dbVars, readVars
<1>1. CASE RestoreBlock
  BY <1>1, StreamStutters DEF RestoreBlock
<1>2. CASE SizeChain
  BY <1>2, StreamStutters DEF SizeChain
<1>3. CASE RebuildChain
  BY <1>3, StreamStutters DEF RebuildChain
<1>4. CASE RestorePosition
  <2>1. rescanIndex = NoIndex
    BY DEF Inv, Progress
  <2> QED
    BY <1>4, <2>1, StreamStutters DEF RestorePosition
<1> QED
  BY <1>1, <1>2, <1>3, <1>4 DEF Restore

\* Of the steps of a commit only the last one saves a position, that of the
\* reader.
LEMMA StreamCommit ==
  ASSUME Inv, Commit
  PROVE  Stream!Save \/ UNCHANGED Stream!vars
<1> USE DEF ReaderPosition, dbVars, readVars
<1>1. CASE BeginCommit
  BY <1>1, StreamStutters DEF BeginCommit
<1>2. CASE WalkBack
  BY <1>2, StreamStutters DEF WalkBack
<1>3. CASE WalkEnds
  BY <1>3, StreamStutters DEF WalkEnds
<1>4. CASE UndoBlock
  BY <1>4, StreamStutters DEF UndoBlock
<1>5. CASE UndoEnds
  BY <1>5, StreamStutters DEF UndoEnds
<1>6. CASE RedoBlock
  BY <1>6, StreamStutters DEF RedoBlock
<1>7. CASE Finish
  <2>1. dbPosition' = ReaderPosition /\ UNCHANGED <<Len(file), ReaderPosition>>
    BY <1>7 DEF Finish, SavedPosition
  <2> QED
    BY <2>1 DEF Stream!Save
<1> QED
  BY <1>1, <1>2, <1>3, <1>4, <1>5, <1>6, <1>7 DEF Commit

\* A step of bitcoind or of the daemon is one of BlockStream, or none.
LEMMA StreamNext ==
  ASSUME NoRescans, Inv, [Next]_vars
  PROVE  [Stream!Next]_(Stream!vars)
<1> USE DEF Stream!Next
<1>1. CASE BlockArrives
  <2>1. Len(file') = Len(file) + 1 /\ UNCHANGED <<ReaderPosition, dbPosition>>
    BY <1>1 DEF BlockArrives, Inv, TypeOK, ReaderPosition, dbVars, readVars
  <2> QED
    BY <2>1 DEF Stream!Write
<1>2. CASE Crash
  BY <1>2, StreamDown DEF Crash
<1>3. CASE Start
  BY <1>3, StreamStutters DEF Start, ReaderPosition, dbVars
<1>4. CASE Restore
  BY <1>4, StreamRestore
<1>5. CASE Commit
  BY <1>5, StreamCommit
<1>6. CASE ReadFails
  BY <1>6, StreamStutters DEF ReadFails, ReaderPosition, dbVars
<1>7. CASE SkipBlock
  BY <1>7 DEF SkipBlock, StillSkipping, Inv, Progress, NoIndex
<1>8. CASE ReadExistingBlock \/ RestoreFails
  BY <1>8, StreamDown DEF ReadExistingBlock, RestoreFails
<1>9. CASE ReadBlock
  <2>1. ReaderPosition < Len(file) /\ ReaderPosition' = ReaderPosition + 1
    BY <1>9 DEF ReadBlock, MoreToRead, ReaderPosition
  <2>2. UNCHANGED <<Len(file), dbPosition>>
    BY <1>9 DEF ReadBlock, dbVars
  <2> QED
    BY <2>1, <2>2 DEF Stream!Read
<1>10. CASE UNCHANGED vars
  BY <1>10, StreamStutters DEF vars, dbVars, readVars, ReaderPosition
<1> QED
  BY <1>1, <1>2, <1>3, <1>4, <1>5, <1>6, <1>7, <1>8, <1>9, <1>10 DEF Next, Main

\* The import loop, its restarts and its saved position implement BlockStream:
\* no block is passed over or read twice but after a restart, which resumes at
\* the position saved with the last block indexed (main.cpp:408-415, 482-500
\* and 827-831).
THEOREM StreamImplemented == ASSUME NoRescans PROVE Spec => ImplementsBlockStream
<1>1. Init => Stream!Init
  BY DEF Init, Stream!Init, ReaderPosition
<1>2. Inv /\ [Next]_vars => [Stream!Next]_(Stream!vars)
  BY StreamNext
<1> QED
  BY <1>1, <1>2, InvAlways, PTL DEF Spec, ImplementsBlockStream, Stream!Spec

-----------------------------------------------------------------------------
(* What is kept of the history of the files: the tree of blocks with their *)
(* totals and children, the heaviest chain, the flags of its blocks and    *)
(* the walk of a reorganisation.  The reference of these properties is     *)
(* defined by recursion along the ancestry of a block (Path and Work of    *)
(* ChainIndexProperties); what such a definition computes is shown with    *)
(* the smallest counterexample, since every nonempty set of numbers has a  *)
(* least element.                                                          *)

\* A nonempty set of natural numbers has a least element.
LEMMA LeastElement ==
  ASSUME NEW S, S \subseteq Nat, S # {}
  PROVE  \E m \in S : \A k \in S : m <= k
<1>1. PICK R : R = OpToRel(<, Nat)
  OBVIOUS
<1>2. IsWellFoundedOn(R, Nat)
  BY <1>1, NatLessThanWellFounded
<1>3. \E x \in S : \A y \in S : ~ (<<y, x>> \in R)
  BY <1>2, WFMin
<1>4. \A x, y \in Nat : <<y, x>> \in R <=> y < x
  BY <1>1 DEF OpToRel
<1>5. PICK x \in S : \A y \in S : ~ (<<y, x>> \in R)
  BY <1>3
<1>6. \A y \in S : x <= y
  <2> TAKE y \in S
  <2>1. x \in Nat /\ y \in Nat
    OBVIOUS
  <2>2. ~(y < x)
    BY <1>4, <1>5, <2>1
  <2> QED
    BY <2>1, <2>2
<1> QED
  BY <1>6

\* Induction over numbers, upwards and downwards: S holds those that are shown.
LEMMA Upwards ==
  ASSUME NEW n \in Nat, NEW S, 0 \in S, \A k \in 0..(n - 1) : k \in S => k + 1 \in S
  PROVE  \A k \in 0..n : k \in S
<1> DEFINE Bad == {k \in 0..n : k \notin S}
<1>1. SUFFICES ASSUME Bad # {} PROVE FALSE
  OBVIOUS
<1>2. PICK m \in Bad : \A k \in Bad : m <= k
  <2>1. Bad \subseteq Nat
    OBVIOUS
  <2> HIDE DEF Bad
  <2> QED
    BY <1>1, <2>1, LeastElement
<1>3. m \in 0..n /\ m \notin S /\ m # 0
  BY <1>2
<1>4. m - 1 \in 0..(n - 1) /\ m - 1 \in 0..n /\ ~(m <= m - 1) /\ m - 1 + 1 = m
  BY <1>3
<1>5. m - 1 \in S
  BY <1>2, <1>4
<1> QED
  BY <1>3, <1>4, <1>5

LEMMA Downwards ==
  ASSUME NEW n \in Nat, NEW S, n \in S, \A k \in 1..n : k \in S => k - 1 \in S
  PROVE  0 \in S
<1> DEFINE T == {k \in 0..n : n - k \in S}
<1>1. 0 \in T
  OBVIOUS
<1>2. ASSUME NEW k \in 0..(n - 1), k \in T PROVE k + 1 \in T
  <2>1. n - k \in 1..n /\ n - k - 1 = n - (k + 1) /\ k + 1 \in 0..n
    OBVIOUS
  <2> QED
    BY <1>2, <2>1
<1>3. n \in T
  <2> HIDE DEF T
  <2> QED
    BY <1>1, <1>2, Upwards
<1> QED
  BY <1>3

-----------------------------------------------------------------------------
(* What Path and Work compute.                                             *)

\* The files, as the recursions need them.
LEMMA Ancestry ==
  ASSUME TypeOK, FileOrdered
  PROVE  /\ Len(file) \in Nat
         /\ \A k \in 1..Len(file) : /\ file[k].previous \in 0..(k - 1)
                                    /\ file[k].bits \in Nat \ {0}
                                    /\ k \in Hash
<1> USE ConstantsAssumption
<1>1. Len(file) \in Nat /\ Len(file) <= MaxFile
  BY Lengths DEF FileOrdered
<1>2. ASSUME NEW k \in 1..Len(file)
      PROVE  file[k].previous \in 0..(k - 1) /\ file[k].bits \in Nat \ {0} /\ k \in Hash
  <2>1. file[k].previous \in Nat /\ file[k].bits \in Bits
    BY FileTypes
  <2>2. file[k].previous < k
    BY DEF FileOrdered
  <2>3. file[k].previous \in 0..(k - 1) /\ k \in Hash
    BY <1>1, <2>1, <2>2 DEF Hash
  <2>4. file[k].bits \in Nat \ {0}
    BY <2>1
  <2> QED
    BY <2>3, <2>4
<1> QED
  BY <1>1, <1>2

\* The path of a block is that of its parent and the block itself.
LEMMA PathSteps ==
  TypeOK /\ FileOrdered =>
    /\ Path[0] = <<>>
    /\ \A h \in 1..Len(file) : Path[h] = Append(Path[file[h].previous], h)
<1> SUFFICES ASSUME TypeOK, FileOrdered
             PROVE  /\ Path[0] = <<>>
                    /\ \A h \in 1..Len(file) : Path[h] = Append(Path[file[h].previous], h)
  OBVIOUS
<1> DEFINE IsPath(f, n) ==
             f = [h \in 0..n |-> IF h = 0 THEN <<>> ELSE Append(f[file[h].previous], h)]
           Bad == {n \in 0..Len(file) : ~ \E f : IsPath(f, n)}
<1>1. /\ Len(file) \in Nat
      /\ \A k \in 1..Len(file) : file[k].previous \in 0..(k - 1)
  BY Ancestry
<1>2. Bad = {}
  <2> SUFFICES ASSUME Bad # {} PROVE FALSE
    OBVIOUS
  <2>1. Bad \subseteq Nat
    OBVIOUS
  <2>2. PICK m \in Bad : \A k \in Bad : m <= k
    <3> HIDE DEF Bad
    <3> QED
      BY <2>1, LeastElement
  <2>3. m \in 0..Len(file) /\ ~ \E f : IsPath(f, m)
    BY <2>2
  <2>4. CASE m = 0
    <3> DEFINE f == [h \in 0..0 |-> <<>>]
    <3>1. IsPath(f, 0)
      OBVIOUS
    <3> QED
      BY <2>3, <2>4, <3>1
  <2>5. CASE m # 0
    <3>1. m \in 1..Len(file) /\ m - 1 \in 0..Len(file) /\ m - 1 \notin Bad
      <4>1. m \in 1..Len(file) /\ m - 1 \in 0..Len(file) /\ ~(m <= m - 1)
        BY <1>1, <2>3, <2>5
      <4> HIDE DEF Bad
      <4> QED
        BY <2>2, <4>1
    <3>2. PICK f : IsPath(f, m - 1)
      BY <3>1
    <3> DEFINE g == [h \in 0..m |-> IF h = m THEN Append(f[file[m].previous], m) ELSE f[h]]
    <3>3. \A h \in 0..m :
            g[h] = IF h = 0 THEN <<>> ELSE Append(g[file[h].previous], h)
      <4> SUFFICES ASSUME NEW h \in 0..m
                   PROVE  g[h] = IF h = 0 THEN <<>> ELSE Append(g[file[h].previous], h)
        OBVIOUS
      <4>1. CASE h = m
        <5>1. file[m].previous \in 0..m /\ file[m].previous # m
          BY <1>1, <3>1
        <5> QED
          BY <2>5, <4>1, <5>1
      <4>2. CASE h # m
        <5>1. h \in 0..(m - 1) /\ g[h] = f[h]
          BY <3>1, <4>2
        <5>2. f[h] = IF h = 0 THEN <<>> ELSE Append(f[file[h].previous], h)
          BY <3>2, <5>1
        <5>3. h # 0 => g[file[h].previous] = f[file[h].previous]
          BY <1>1, <3>1, <5>1, SMTT(30)
        <5> QED
          BY <5>1, <5>2, <5>3
      <4> QED
        BY <4>1, <4>2
    <3>4. IsPath(g, m)
      BY <3>3
    <3> QED
      BY <2>3, <3>4
  <2> QED
    BY <2>4, <2>5
<1>3. PICK f : IsPath(f, Len(file))
  BY <1>1, <1>2
<1>4. Path = [h \in 0..Len(file) |-> IF h = 0 THEN <<>> ELSE Append(Path[file[h].previous], h)]
  BY <1>3, Zenon DEF Path
<1>5. \A h \in 0..Len(file) :
        Path[h] = IF h = 0 THEN <<>> ELSE Append(Path[file[h].previous], h)
  <2> DEFINE step == [h \in 0..Len(file) |->
                        IF h = 0 THEN <<>> ELSE Append(Path[file[h].previous], h)]
  <2>1. \A h \in 0..Len(file) :
          step[h] = IF h = 0 THEN <<>> ELSE Append(Path[file[h].previous], h)
    OBVIOUS
  <2>2. Path = step
    BY <1>4
  <2> HIDE DEF step
  <2> QED
    BY <2>1, <2>2, Zenon
<1>6. 0 \in 0..Len(file) /\ \A h \in 1..Len(file) : h \in 0..Len(file) /\ h # 0
  BY <1>1
<1> QED
  BY <1>5, <1>6, Zenon

\* The work of a block is that of its parent and its bits.
LEMMA WorkSteps ==
  TypeOK /\ FileOrdered =>
    /\ Work[0] = 0
    /\ \A h \in 1..Len(file) : Work[h] = Work[file[h].previous] + file[h].bits
<1> SUFFICES ASSUME TypeOK, FileOrdered
             PROVE  /\ Work[0] = 0
                    /\ \A h \in 1..Len(file) : Work[h] = Work[file[h].previous] + file[h].bits
  OBVIOUS
<1> DEFINE IsWork(f, n) ==
             f = [h \in 0..n |-> IF h = 0 THEN 0 ELSE f[file[h].previous] + file[h].bits]
           Bad == {n \in 0..Len(file) : ~ \E f : IsWork(f, n)}
<1>1. /\ Len(file) \in Nat
      /\ \A k \in 1..Len(file) : file[k].previous \in 0..(k - 1)
  BY Ancestry
<1>2. Bad = {}
  <2> SUFFICES ASSUME Bad # {} PROVE FALSE
    OBVIOUS
  <2>1. Bad \subseteq Nat
    OBVIOUS
  <2>2. PICK m \in Bad : \A k \in Bad : m <= k
    <3> HIDE DEF Bad
    <3> QED
      BY <2>1, LeastElement
  <2>3. m \in 0..Len(file) /\ ~ \E f : IsWork(f, m)
    BY <2>2
  <2>4. CASE m = 0
    <3> DEFINE f == [h \in 0..0 |-> 0]
    <3>1. IsWork(f, 0)
      OBVIOUS
    <3> QED
      BY <2>3, <2>4, <3>1
  <2>5. CASE m # 0
    <3>1. m \in 1..Len(file) /\ m - 1 \in 0..Len(file) /\ m - 1 \notin Bad
      <4>1. m \in 1..Len(file) /\ m - 1 \in 0..Len(file) /\ ~(m <= m - 1)
        BY <1>1, <2>3, <2>5
      <4> HIDE DEF Bad
      <4> QED
        BY <2>2, <4>1
    <3>2. PICK f : IsWork(f, m - 1)
      BY <3>1
    <3> DEFINE g == [h \in 0..m |-> IF h = m THEN f[file[m].previous] + file[m].bits
                                    ELSE f[h]]
    <3>3. \A h \in 0..m :
            g[h] = IF h = 0 THEN 0 ELSE g[file[h].previous] + file[h].bits
      <4> SUFFICES ASSUME NEW h \in 0..m
                   PROVE  g[h] = IF h = 0 THEN 0 ELSE g[file[h].previous] + file[h].bits
        OBVIOUS
      <4>1. CASE h = m
        <5>1. file[m].previous \in 0..m /\ file[m].previous # m
          BY <1>1, <3>1
        <5> QED
          BY <2>5, <4>1, <5>1
      <4>2. CASE h # m
        <5>1. h \in 0..(m - 1) /\ g[h] = f[h]
          BY <3>1, <4>2
        <5>2. f[h] = IF h = 0 THEN 0 ELSE f[file[h].previous] + file[h].bits
          BY <3>2, <5>1
        <5>3. h # 0 => g[file[h].previous] = f[file[h].previous]
          BY <1>1, <3>1, <5>1
        <5> QED
          BY <5>1, <5>2, <5>3
      <4> QED
        BY <4>1, <4>2
    <3>4. IsWork(g, m)
      BY <3>3
    <3> QED
      BY <2>3, <3>4
  <2> QED
    BY <2>4, <2>5
<1>3. PICK f : IsWork(f, Len(file))
  BY <1>1, <1>2
<1>4. Work = [h \in 0..Len(file) |-> IF h = 0 THEN 0 ELSE Work[file[h].previous] + file[h].bits]
  BY <1>3, Zenon DEF Work
<1> QED
  BY <1>1, <1>4

\* Both, for the files before and after a step.
Recursions ==
  /\ Path[0] = <<>> /\ Work[0] = 0
  /\ \A h \in 1..Len(file) :
       /\ Path[h] = Append(Path[file[h].previous], h)
       /\ Work[h] = Work[file[h].previous] + file[h].bits

LEMMA RecursionsHold == TypeOK /\ FileOrdered => Recursions
  BY PathSteps, WorkSteps DEF Recursions

LEMMA RecursionsNext == TypeOK' /\ FileOrdered' => Recursions'
  BY RecursionsHold, PTL

\* What is known of a block does not change when bitcoind appends to the files.
LEMMA HistoryKept ==
  ASSUME TypeOK, FileOrdered, TypeOK', FileOrdered', file' = file \/ BlockArrives
  PROVE  /\ Len(file) <= Len(file')
         /\ \A h \in 1..Len(file) : file'[h] = file[h]
         /\ \A h \in 0..Len(file) : Path'[h] = Path[h] /\ Work'[h] = Work[h]
<1>1. Len(file) \in Nat /\ \A k \in 1..Len(file) : file[k].previous \in 0..(k - 1)
  BY Ancestry
<1>2. CASE file' = file
  BY <1>1, <1>2 DEF Path, Work
<1>3. CASE BlockArrives
  <2>1. Len(file') = Len(file) + 1 /\ \A k \in 1..Len(file) : file'[k] = file[k]
    BY <1>1, <1>3 DEF BlockArrives, TypeOK
  <2> DEFINE Bad == {h \in 0..Len(file) : Path'[h] # Path[h] \/ Work'[h] # Work[h]}
  <2>2. SUFFICES ASSUME Bad # {} PROVE FALSE
    BY <1>1, <2>1
  <2>3. Bad \subseteq Nat
    OBVIOUS
  <2>4. PICK m \in Bad : \A k \in Bad : m <= k
    <3> HIDE DEF Bad
    <3> QED
      BY <2>2, <2>3, LeastElement
  <2>5. m # 0
    BY <2>4, RecursionsHold, RecursionsNext DEF Recursions
  <2>6. m \in 1..Len(file) /\ m \in 1..Len(file')
    BY <1>1, <2>1, <2>4, <2>5
  <2> DEFINE p == file[m].previous
  <2>7. p \in 0..(m - 1) /\ p \in 0..Len(file) /\ file'[m] = file[m]
    BY <1>1, <2>1, <2>6
  <2>8. p \notin Bad
    BY <2>4, <2>7
  <2>9. Path'[p] = Path[p] /\ Work'[p] = Work[p]
    BY <2>7, <2>8
  <2>10. Path'[m] = Path[m] /\ Work'[m] = Work[m]
    BY <2>6, <2>7, <2>9, RecursionsHold, RecursionsNext DEF Recursions
  <2> QED
    BY <2>4, <2>10
<1> QED
  BY <1>2, <1>3

\* Paths are sequences of blocks that end in their block.
LEMMA PathTypes ==
  ASSUME TypeOK, FileOrdered
  PROVE  /\ \A h \in 0..Len(file) : Path[h] \in Seq(Nat)
         /\ \A h \in 1..Len(file) :
              LET p == file[h].previous IN
              /\ Len(Path[h]) = Len(Path[p]) + 1 /\ Len(Path[p]) \in Nat
              /\ Path[h][Len(Path[h])] = h
              /\ \A i \in 1..Len(Path[p]) : Path[h][i] = Path[p][i]
<1>1. /\ Len(file) \in Nat
      /\ \A k \in 1..Len(file) : file[k].previous \in 0..(k - 1)
  BY Ancestry
<1>2. \A h \in 0..Len(file) : Path[h] \in Seq(Nat)
  <2> DEFINE Bad == {h \in 0..Len(file) : Path[h] \notin Seq(Nat)}
  <2>1. SUFFICES ASSUME Bad # {} PROVE FALSE
    OBVIOUS
  <2>2. Bad \subseteq Nat
    OBVIOUS
  <2>3. PICK m \in Bad : \A k \in Bad : m <= k
    <3> HIDE DEF Bad
    <3> QED
      BY <2>1, <2>2, LeastElement
  <2>4. m # 0
    <3>1. Path[0] = <<>> /\ <<>> \in Seq(Nat)
      BY RecursionsHold, EmptySeq DEF Recursions
    <3> QED
      BY <2>3, <3>1
  <2>5. m \in 1..Len(file) /\ file[m].previous \in 0..Len(file) /\ ~(m <= file[m].previous)
    BY <1>1, <2>3, <2>4
  <2>6. file[m].previous \notin Bad
    <3> HIDE DEF Bad
    <3> QED
      BY <2>3, <2>5
  <2>7. Path[file[m].previous] \in Seq(Nat) /\ m \in Nat
    BY <2>5, <2>6
  <2>8. Path[m] = Append(Path[file[m].previous], m)
    BY <2>5, RecursionsHold DEF Recursions
  <2>9. Path[m] \in Seq(Nat)
    BY <2>7, <2>8, AppendProperties
  <2> QED
    BY <2>3, <2>9
<1>3. ASSUME NEW h \in 1..Len(file)
      PROVE  LET p == file[h].previous IN
             /\ Len(Path[h]) = Len(Path[p]) + 1 /\ Len(Path[p]) \in Nat
             /\ Path[h][Len(Path[h])] = h
             /\ \A i \in 1..Len(Path[p]) : Path[h][i] = Path[p][i]
  <2> DEFINE p == file[h].previous
  <2>1. Path[p] \in Seq(Nat) /\ h \in Nat
    BY <1>1, <1>2
  <2>2. Path[h] = Append(Path[p], h)
    BY RecursionsHold DEF Recursions
  <2> QED
    BY <2>1, <2>2, AppendProperties
<1> QED
  BY <1>2, <1>3

\* The blocks of a path are an ancestor of each height, and each is the parent
\* of the next.
LEMMA PathElements ==
  ASSUME TypeOK, FileOrdered
  PROVE  \A h \in 0..Len(file) : \A i \in 1..Len(Path[h]) :
           /\ Path[h][i] \in 1..Len(file)
           /\ Len(Path[Path[h][i]]) = i
           /\ file[Path[h][i]].previous = IF i = 1 THEN 0 ELSE Path[h][i - 1]
<1> DEFINE Good(h, i) == /\ Path[h][i] \in 1..Len(file)
                         /\ Len(Path[Path[h][i]]) = i
                         /\ file[Path[h][i]].previous = IF i = 1 THEN 0 ELSE Path[h][i - 1]
           Bad == {h \in 0..Len(file) : ~ \A i \in 1..Len(Path[h]) : Good(h, i)}
<1>1. /\ Len(file) \in Nat
      /\ \A k \in 1..Len(file) : file[k].previous \in 0..(k - 1)
  BY Ancestry
<1>2. SUFFICES ASSUME Bad # {} PROVE FALSE
  OBVIOUS
<1>3. Bad \subseteq Nat
  OBVIOUS
<1>4. PICK m \in Bad : \A k \in Bad : m <= k
  <2> HIDE DEF Bad
  <2> QED
    BY <1>2, <1>3, LeastElement
<1>5. m \in 0..Len(file) /\ ~ \A i \in 1..Len(Path[m]) : Good(m, i)
  <2> HIDE DEF Good
  <2> QED
    BY <1>4
<1>6. Path[0] = <<>>
  BY RecursionsHold DEF Recursions
<1>7. m \in 1..Len(file)
  <2>1. m # 0
    BY <1>5, <1>6
  <2> QED
    BY <1>1, <1>5, <2>1
<1> DEFINE p == file[m].previous
<1>8. p \in 0..Len(file) /\ ~(m <= p)
  BY <1>1, <1>7
<1>9. \A i \in 1..Len(Path[p]) : Good(p, i)
  <2>1. p \notin Bad
    <3> HIDE DEF Bad
    <3> QED
      BY <1>4, <1>8
  <2> HIDE DEF Good
  <2> QED
    BY <1>8, <2>1
<1>10. /\ Len(Path[m]) = Len(Path[p]) + 1 /\ Len(Path[p]) \in Nat
       /\ Path[m][Len(Path[m])] = m
       /\ \A i \in 1..Len(Path[p]) : Path[m][i] = Path[p][i]
       /\ p = 0 => Len(Path[p]) = 0
       /\ p # 0 => Len(Path[p]) > 0 /\ Path[p][Len(Path[p])] = p
  <2>1. /\ Len(Path[m]) = Len(Path[p]) + 1 /\ Len(Path[p]) \in Nat
        /\ Path[m][Len(Path[m])] = m
        /\ \A i \in 1..Len(Path[p]) : Path[m][i] = Path[p][i]
    BY <1>7, PathTypes
  <2>2. p = 0 => Len(Path[p]) = 0
    BY <1>6
  <2>3. p # 0 => Len(Path[p]) > 0 /\ Path[p][Len(Path[p])] = p
    <3>1. p # 0 => p \in 1..Len(file)
      BY <1>1, <1>8
    <3>2. p # 0 => LET q == file[p].previous IN
                   /\ Len(Path[p]) = Len(Path[q]) + 1 /\ Len(Path[q]) \in Nat
                   /\ Path[p][Len(Path[p])] = p
      BY <3>1, PathTypes
    <3> QED
      BY <3>2
  <2> QED
    BY <2>1, <2>2, <2>3
<1>11. ASSUME NEW i \in 1..Len(Path[m]) PROVE Good(m, i)
  <2>1. CASE i = Len(Path[m])
    <3>1. Path[m][i] = m /\ Len(Path[m]) = i
      BY <1>10, <2>1
    <3>2. CASE i = 1
      <4>1. p = 0
        BY <1>10, <2>1, <3>2
      <4> QED
        BY <1>7, <3>1, <3>2, <4>1
    <3>3. CASE i # 1
      <4>1. p # 0 /\ i - 1 = Len(Path[p]) /\ i - 1 \in 1..Len(Path[p])
        BY <1>10, <2>1, <3>3
      <4>2. Path[m][i - 1] = p
        BY <1>10, <4>1
      <4> QED
        BY <1>7, <3>1, <3>3, <4>2
    <3> QED
      BY <3>2, <3>3
  <2>2. CASE i # Len(Path[m])
    <3>1. i \in 1..Len(Path[p])
      <4> HIDE DEF p, Good
      <4> QED
        BY <1>10, <2>2
    <3>2. i # 1 => i - 1 \in 1..Len(Path[p])
      <4> HIDE DEF p, Good
      <4> QED
        BY <1>10, <3>1
    <3>3. /\ Path[m][i] = Path[p][i]
          /\ i # 1 => Path[m][i - 1] = Path[p][i - 1]
      <4> HIDE DEF p, Good
      <4> QED
        BY <1>10, <3>1, <3>2
    <3>4. Good(p, i)
      BY <1>9, <3>1
    <3> QED
      BY <3>3, <3>4
  <2> QED
    BY <2>1, <2>2
<1> QED
  BY <1>5, <1>11

\* The work of a block is a number, and that of a block is not zero.
LEMMA WorkTypes ==
  ASSUME TypeOK, FileOrdered
  PROVE  /\ \A h \in 0..Len(file) : Work[h] \in Nat
         /\ \A h \in 1..Len(file) : Work[h] > 0
<1>1. /\ Len(file) \in Nat
      /\ \A k \in 1..Len(file) : /\ file[k].previous \in 0..(k - 1)
                                 /\ file[k].bits \in Nat \ {0}
  BY Ancestry
<1>2. \A h \in 0..Len(file) : Work[h] \in Nat
  <2> DEFINE Bad == {h \in 0..Len(file) : Work[h] \notin Nat}
  <2>1. SUFFICES ASSUME Bad # {} PROVE FALSE
    OBVIOUS
  <2>2. Bad \subseteq Nat
    OBVIOUS
  <2>3. PICK m \in Bad : \A k \in Bad : m <= k
    <3> HIDE DEF Bad
    <3> QED
      BY <2>1, <2>2, LeastElement
  <2>4. m # 0
    <3>1. Work[0] \in Nat
      BY RecursionsHold DEF Recursions
    <3> QED
      BY <2>3, <3>1
  <2>5. m \in 1..Len(file) /\ file[m].previous \in 0..Len(file) /\ ~(m <= file[m].previous)
    BY <1>1, <2>3, <2>4
  <2>6. file[m].previous \notin Bad
    <3> HIDE DEF Bad
    <3> QED
      BY <2>3, <2>5
  <2>7. Work[file[m].previous] \in Nat /\ file[m].bits \in Nat
    BY <1>1, <2>5, <2>6
  <2>8. Work[m] \in Nat
    BY <2>5, <2>7, RecursionsHold DEF Recursions
  <2> QED
    BY <2>3, <2>8
<1>3. ASSUME NEW h \in 1..Len(file) PROVE Work[h] > 0
  <2>1. Work[h] = Work[file[h].previous] + file[h].bits
    BY RecursionsHold DEF Recursions
  <2>2. Work[file[h].previous] \in Nat /\ file[h].bits \in Nat /\ file[h].bits # 0
    BY <1>1, <1>2
  <2> QED
    BY <2>1, <2>2
<1> QED
  BY <1>2, <1>3

\* The height of a record of the database is that of its block in the files.
LEMMA HeightIsLength ==
  ASSUME Inv
  PROVE  \A h \in 1..Len(dbBlocks) : /\ Len(Path[h]) \in Nat \ {0}
                                     /\ dbBlocks[h].height = Len(Path[h]) - 1
<1> USE DEF Inv
<1>1. /\ Len(file) \in Nat /\ Len(dbBlocks) \in Nat /\ Len(dbBlocks) <= Len(file)
      /\ \A k \in 1..Len(file) : file[k].previous \in 0..(k - 1)
  BY Ancestry, Lengths DEF Progress
<1> DEFINE Good(h) == /\ Len(Path[h]) \in Nat \ {0}
                      /\ dbBlocks[h].height = Len(Path[h]) - 1
           Bad == {h \in 1..Len(dbBlocks) : ~ Good(h)}
<1>2. SUFFICES ASSUME Bad # {} PROVE FALSE
  OBVIOUS
<1>3. Bad \subseteq Nat
  OBVIOUS
<1>4. PICK m \in Bad : \A k \in Bad : m <= k
  <2> HIDE DEF Bad
  <2> QED
    BY <1>2, <1>3, LeastElement
<1> DEFINE p == file[m].previous
<1>5. m \in 1..Len(dbBlocks) /\ m \in 1..Len(file) /\ ~(m <= p) /\ p \in 0..(m - 1)
  BY <1>1, <1>4
<1>6. p # 0 => Good(p)
  <2>1. p # 0 => p \in 1..Len(dbBlocks) /\ p \notin Bad
    <3> HIDE DEF Bad, p
    <3> QED
      BY <1>1, <1>4, <1>5
  <2> HIDE DEF Good
  <2> QED
    BY <2>1
<1>7. Len(Path[m]) = Len(Path[p]) + 1 /\ (p = 0 => Len(Path[p]) = 0)
  BY <1>5, PathTypes, RecursionsHold, SMTT(30) DEF Recursions
<1>8. dbBlocks[m].height = IF p = 0 THEN 0 ELSE dbBlocks[p].height + 1
  BY <1>5 DEF IndexedOnce
<1>9. Good(m)
  BY <1>6, <1>7, <1>8
<1> QED
  BY <1>4, <1>9

\* A chain of the tree from a block without parent is the path of its tip.
LEMMA ChainIsPath ==
  ASSUME Inv, PathAbove(currentChain, 0, Null)
  PROVE  /\ TipOf(currentChain) \in DOMAIN blocks \cup {Null}
         /\ currentChain = Path[TipOf(currentChain)]
<1> USE DEF Inv
<1> DEFINE c == currentChain
           n == Len(c)
<1>1. /\ n \in Nat /\ c \in Seq(Nat)
      /\ \A i \in 1..n : /\ c[i] \in DOMAIN blocks /\ c[i] \in 1..Len(file)
                         /\ file[c[i]].previous = IF i = 1 THEN 0 ELSE c[i - 1]
  <2>1. n \in Nat
    BY Lengths
  <2>2. ASSUME NEW i \in 1..n
        PROVE  /\ c[i] \in DOMAIN blocks /\ c[i] \in 1..Len(file)
               /\ file[c[i]].previous = IF i = 1 THEN 0 ELSE c[i - 1]
    <3>1. /\ c[i] \in DOMAIN blocks
          /\ blocks[c[i]].previous = IF i = 1 THEN 0 ELSE c[i - 1]
      BY <2>1 DEF PathAbove
    <3> QED
      BY <3>1, TreeFacts DEF TreeOK
  <2>3. c \in Seq(Nat)
    <3>1. c \in Seq(Hash \cup {Null}) /\ \A x \in Hash \cup {Null} : x \in Nat
      BY HashFacts DEF TypeOK
    <3> QED
      BY <3>1
  <2> QED
    BY <2>1, <2>2, <2>3
<1>2. Path[0] = <<>> /\ Len(file) \in Nat
  BY Ancestry, RecursionsHold DEF Recursions
<1> DEFINE Good(i) == /\ Len(Path[c[i]]) = i
                      /\ \A j \in 1..i : Path[c[i]][j] = c[j]
           Bad == {i \in 1..n : ~ Good(i)}
<1>3. Bad = {}
  <2> SUFFICES ASSUME Bad # {} PROVE FALSE
    OBVIOUS
  <2>1. Bad \subseteq Nat
    OBVIOUS
  <2>2. PICK m \in Bad : \A k \in Bad : m <= k
    <3> HIDE DEF Bad
    <3> QED
      BY <2>1, LeastElement
  <2>3. m \in 1..n
    BY <2>2
  <2> DEFINE p == file[c[m]].previous
  <2>4. /\ Len(Path[c[m]]) = Len(Path[p]) + 1 /\ Len(Path[p]) \in Nat
        /\ Path[c[m]][Len(Path[c[m]])] = c[m]
        /\ \A i \in 1..Len(Path[p]) : Path[c[m]][i] = Path[p][i]
    BY <1>1, <2>3, PathTypes
  <2>5. CASE m = 1
    <3>1. p = 0
      BY <1>1, <2>3, <2>5
    <3>2. Len(Path[p]) = 0
      BY <1>2, <3>1
    <3> QED
      BY <2>2, <2>4, <2>5, <3>2
  <2>6. CASE m # 1
    <3>1. p = c[m - 1] /\ m - 1 \in 1..n /\ ~(m <= m - 1)
      BY <1>1, <2>3, <2>6
    <3>2. m - 1 \notin Bad
      <4> HIDE DEF Bad
      <4> QED
        BY <2>2, <3>1
    <3>3. Good(m - 1)
      <4> HIDE DEF Good
      <4> QED
        BY <3>1, <3>2
    <3>4. Len(Path[p]) = m - 1 /\ m - 1 + 1 = m
      BY <1>1, <2>3, <3>1, <3>3
    <3>5. ASSUME NEW j \in 1..m PROVE Path[c[m]][j] = c[j]
      <4>1. CASE j = m
        BY <2>4, <3>4, <4>1
      <4>2. CASE j # m
        <5>1. j \in 1..(m - 1)
          BY <1>1, <2>3, <4>2
        <5> QED
          BY <2>4, <3>1, <3>3, <3>4, <5>1
      <4> QED
        BY <4>1, <4>2
    <3>6. Good(m)
      BY <2>4, <3>4, <3>5
    <3> QED
      BY <2>2, <3>6
  <2> QED
    BY <2>5, <2>6
<1>4. CASE n = 0
  <2>1. c = <<>>
    BY <1>1, <1>4
  <2> QED
    BY <1>2, <2>1 DEF TipOf
<1>5. CASE n # 0
  <2>1. n \in 1..n /\ c # <<>>
    BY <1>1, <1>5
  <2>2. TipOf(c) = c[n] /\ c[n] \in DOMAIN blocks /\ c[n] \in 0..Len(file)
    BY <1>1, <1>2, <2>1 DEF TipOf
  <2>3. Good(n)
    <3> HIDE DEF Good
    <3> QED
      BY <1>3, <2>1
  <2>4. Path[c[n]] \in Seq(Nat)
    BY <2>2, PathTypes
  <2>5. c = Path[c[n]]
    BY <1>1, <2>3, <2>4, SeqEqual
  <2> QED
    BY <2>2, <2>5
<1> QED
  BY <1>4, <1>5

-----------------------------------------------------------------------------
(* The steps, as these proofs tell them apart.                             *)

\* A step of the commit before the last one.
InnerCommit == BeginCommit \/ WalkBack \/ WalkEnds \/ UndoBlock \/ UndoEnds \/ RedoBlock

\* The steps that add no block, and take none away.
Quiet ==
  \/ file' = file /\ (Start \/ SizeChain \/ RebuildChain \/ RestorePosition)
  \/ file' = file /\ InnerCommit
  \/ BlockArrives
  \/ UNCHANGED vars

LEMMA StepCases ==
  ASSUME NoRescans, Inv, [Next]_vars
  PROVE  Quiet \/ Down \/ RestoreBlock \/ ReadBlock \/ Finish
<1>1. ~SkipBlock
  BY DEF SkipBlock, StillSkipping, Inv, Progress
<1>2. ReadFails => UNCHANGED vars
  BY DEF ReadFails, Inv, Progress, vars, dbVars, memVars, tipVars, importVars,
    walkVars, bestVars, readVars
<1>3. SizeChain \/ RebuildChain \/ RestorePosition \/ InnerCommit => file' = file
  BY DEF SizeChain, RebuildChain, RestorePosition, InnerCommit, BeginCommit, WalkBack,
    WalkEnds, UndoBlock, UndoEnds, RedoBlock
<1>4. Start => file' = file
  BY DEF Start
<1>5. CASE Crash
  BY <1>5 DEF Crash
<1>6. CASE Start
  BY <1>4, <1>6 DEF Quiet
<1>7. CASE Main
  <2>1. CASE Restore
    BY <1>3, <2>1 DEF Restore, Quiet
  <2>2. CASE Commit
    BY <1>3, <2>2 DEF Commit, InnerCommit, Quiet
  <2>3. CASE RestoreFails \/ ReadFails \/ SkipBlock \/ ReadExistingBlock \/ ReadBlock
    BY <1>1, <1>2, <2>3 DEF Quiet, ReadExistingBlock, RestoreFails
  <2> QED
    BY <1>7, <2>1, <2>2, <2>3 DEF Main
<1>8. CASE BlockArrives \/ UNCHANGED vars
  BY <1>8 DEF Quiet
<1> QED
  BY <1>5, <1>6, <1>7, <1>8 DEF Next

\* The flag of a block is all that the walk and the restore change of it.
LEMMA FlagFacts ==
  ASSUME NEW info \in BlockInfo, NEW flag \in BOOLEAN
  PROVE  /\ [info EXCEPT !.longestChain = flag].totalBits = info.totalBits
         /\ [info EXCEPT !.longestChain = flag].height = info.height
         /\ [info EXCEPT !.longestChain = flag].previous = info.previous
         /\ [info EXCEPT !.longestChain = flag].nexts = info.nexts
         /\ [info EXCEPT !.longestChain = flag].longestChain = flag
  BY DEF BlockInfo

\* The records of the tree but for their flags.
SameRecords ==
  /\ DOMAIN blocks' = DOMAIN blocks
  /\ \A h \in DOMAIN blocks : /\ blocks'[h].totalBits = blocks[h].totalBits
                              /\ blocks'[h].height = blocks[h].height
                              /\ blocks'[h].previous = blocks[h].previous
                              /\ blocks'[h].nexts = blocks[h].nexts

LEMMA QuietFacts ==
  ASSUME Inv, Quiet
  PROVE  /\ SameRecords
         /\ UNCHANGED <<dbBlocks, longestBlock, totalBits, blockInfo, hash>>
         /\ file' = file \/ BlockArrives
         /\ Importing' <=> Importing
<1> USE DEF dbVars, memVars, tipVars, importVars
<1>1. \A h \in DOMAIN blocks : blocks[h] \in BlockInfo
  BY DEF Inv, TypeOK
<1>2. CASE WalkBack
  <2>1. ASSUME NEW b \in DOMAIN blocks
        PROVE  /\ blocks'[b].totalBits = blocks[b].totalBits
               /\ blocks'[b].height = blocks[b].height
               /\ blocks'[b].previous = blocks[b].previous
               /\ blocks'[b].nexts = blocks[b].nexts
    <3> DEFINE flag == b = walk \/ (blocks[b].longestChain /\ b \notin Replaced(walk))
    <3>1. flag \in BOOLEAN /\ blocks[b] \in BlockInfo
      BY <1>1
    <3>2. blocks'[b] = [blocks[b] EXCEPT !.longestChain = flag]
      BY <1>2 DEF WalkBack
    <3> HIDE DEF flag
    <3> QED
      BY <3>1, <3>2, FlagFacts
  <2>2. DOMAIN blocks' = DOMAIN blocks
    BY <1>2 DEF WalkBack
  <2> QED
    BY <1>2, <2>1, <2>2 DEF WalkBack, SameRecords, Importing
<1>3. CASE RebuildChain
  <2>1. ASSUME NEW b \in DOMAIN blocks
        PROVE  /\ blocks'[b].totalBits = blocks[b].totalBits
               /\ blocks'[b].height = blocks[b].height
               /\ blocks'[b].previous = blocks[b].previous
               /\ blocks'[b].nexts = blocks[b].nexts
    <3>1. blocks'[b] = IF b = walk THEN [blocks[b] EXCEPT !.longestChain = TRUE]
                       ELSE blocks[b]
      BY <1>3 DEF RebuildChain
    <3> QED
      BY <1>1, <3>1, FlagFacts
  <2>2. DOMAIN blocks' = DOMAIN blocks
    BY <1>3 DEF RebuildChain
  <2> QED
    BY <1>3, <2>1, <2>2 DEF RebuildChain, SameRecords, Importing
<1>4. CASE ~WalkBack /\ ~RebuildChain
  <2>1. blocks' = blocks
    BY <1>4 DEF Quiet, InnerCommit, vars, Start, SizeChain, RestorePosition, BeginCommit,
      WalkEnds, UndoBlock, UndoEnds, RedoBlock, BlockArrives
  <2>2. UNCHANGED <<dbBlocks, longestBlock, totalBits, blockInfo, hash>>
    BY <1>4 DEF Quiet, InnerCommit, vars, Start, SizeChain, RestorePosition, BeginCommit,
      WalkEnds, UndoBlock, UndoEnds, RedoBlock, BlockArrives
  <2>3. file' = file \/ BlockArrives
    BY DEF Quiet, vars
  <2>4. Importing' <=> Importing
    BY <1>4 DEF Quiet, InnerCommit, vars, Start, SizeChain, RestorePosition, BeginCommit,
      WalkEnds, UndoBlock, UndoEnds, RedoBlock, BlockArrives, Importing
  <2> QED
    BY <2>1, <2>2, <2>3, <2>4 DEF SameRecords
<1> QED
  BY <1>2, <1>3, <1>4

-----------------------------------------------------------------------------
(* The totals and the children of the tree.                                *)

\* The blocks that have been hung in the tree as a child of their parent.
ReadSoFar == IF Importing THEN hash ELSE Len(blockIds)

\* What is kept of a block beside its place is what its ancestry in the files
\* says.
RecordsOK ==
  /\ \A h \in DOMAIN blocks : /\ blocks[h].totalBits = Work[h]
                              /\ ChildrenInOrder(blocks[h].nexts, h, ReadSoFar)
  /\ Importing => blockInfo.totalBits = Work[hash] /\ blockInfo.nexts = <<>>

\* Where the import is.
LEMMA ReadFacts ==
  ASSUME Inv
  PROVE  /\ ReadSoFar \in Nat /\ ReadSoFar <= Len(file)
         /\ DOMAIN blocks \subseteq 1..ReadSoFar
         /\ Importing => hash \in 1..Len(file)
<1> USE DEF Inv
<1>1. /\ Len(file) \in Nat /\ Len(dbBlocks) \in Nat /\ Len(blockIds) \in Nat
      /\ Len(dbBlocks) <= Len(file) /\ position \in Nat
  BY Lengths DEF Progress, TypeOK
<1>2. CASE Importing
  <2>1. hash = Len(dbBlocks) + 1 /\ hash <= Len(file) /\ DOMAIN blocks \subseteq 1..Len(dbBlocks)
    BY <1>2, TreeFacts DEF Progress
  <2> QED
    BY <1>1, <1>2, <2>1 DEF ReadSoFar
<1>3. CASE ~Importing
  <2>1. Len(blockIds) <= Len(dbBlocks)
    BY <1>1, <1>3 DEF Progress, Importing, InCommit, TypeOK
  <2>2. DOMAIN blocks = 1..Len(blockIds)
    BY <1>3 DEF TreeOK, Importing, InCommit
  <2> QED
    BY <1>1, <1>3, <2>1, <2>2 DEF ReadSoFar
<1> QED
  BY <1>2, <1>3

\* The next block of the files joins the children of its parent only.
LEMMA ChildAppended ==
  ASSUME TypeOK, FileOrdered, NEW h \in Nat, NEW kids \in Seq(Hash), NEW n \in Nat,
         n + 1 <= Len(file), ChildrenInOrder(kids, h, n)
  PROVE  IF file[n + 1].previous = h THEN ChildrenInOrder(Append(kids, n + 1), h, n + 1)
         ELSE ChildrenInOrder(kids, h, n + 1)
<1>1. Len(kids) \in Nat /\ n + 1 \in Hash /\ 1..(n + 1) = 1..n \cup {n + 1}
  BY Ancestry, LenProperties
<1>2. /\ {kids[i] : i \in 1..Len(kids)} = {c \in 1..n : file[c].previous = h}
      /\ \A i, j \in 1..Len(kids) : i < j => kids[i] < kids[j]
  BY DEF ChildrenInOrder
<1>3. \A i \in 1..Len(kids) : kids[i] \in 1..n
  BY <1>2
<1>4. CASE file[n + 1].previous = h
  <2> DEFINE more == Append(kids, n + 1)
  <2>1. /\ Len(more) = Len(kids) + 1 /\ more[Len(kids) + 1] = n + 1
        /\ \A i \in 1..Len(kids) : more[i] = kids[i]
    BY <1>1, AppendProperties
  <2> HIDE DEF more
  <2>2. {more[i] : i \in 1..Len(more)} = {kids[i] : i \in 1..Len(kids)} \cup {n + 1}
    <3>1. 1..Len(more) = 1..Len(kids) \cup {Len(kids) + 1}
      BY <1>1, <2>1
    <3> QED
      BY <2>1, <3>1
  <2>3. {c \in 1..(n + 1) : file[c].previous = h}
          = {c \in 1..n : file[c].previous = h} \cup {n + 1}
    BY <1>1, <1>4
  <2>4. ASSUME NEW i \in 1..Len(more), NEW j \in 1..Len(more), i < j
        PROVE  more[i] < more[j]
    <3>1. i \in 1..Len(kids)
      BY <1>1, <2>1, <2>4
    <3>2. CASE j \in 1..Len(kids)
      BY <1>2, <2>1, <2>4, <3>1, <3>2
    <3>3. CASE j \notin 1..Len(kids)
      <4>1. more[j] = n + 1
        BY <1>1, <2>1, <3>3
      <4> QED
        BY <1>3, <2>1, <3>1, <4>1
    <3> QED
      BY <3>2, <3>3
  <2>5. ChildrenInOrder(more, h, n + 1)
    BY <1>2, <2>2, <2>3, <2>4 DEF ChildrenInOrder
  <2> QED
    BY <1>4, <2>5 DEF more
<1>5. CASE file[n + 1].previous # h
  <2>1. {c \in 1..(n + 1) : file[c].previous = h} = {c \in 1..n : file[c].previous = h}
    BY <1>1, <1>5
  <2> QED
    BY <1>2, <1>5, <2>1 DEF ChildrenInOrder
<1> QED
  BY <1>4, <1>5

\* The record that WithChild changes, and how.
LEMMA WithChildRecords ==
  ASSUME NEW map, \A h \in DOMAIN map : map[h] \in BlockInfo,
         NEW q \in DOMAIN map, NEW c
  PROVE  \A h \in DOMAIN map :
           /\ WithChild(map, q, c)[h].totalBits = map[h].totalBits
           /\ WithChild(map, q, c)[h].nexts =
                IF h = q THEN Append(map[q].nexts, c) ELSE map[h].nexts
<1> DEFINE child == [map[q] EXCEPT !.nexts = Append(@, c)]
<1>1. WithChild(map, q, c) = [map EXCEPT ![q] = child]
  BY DEF WithChild
<1>2. map[q] \in BlockInfo
  OBVIOUS
<1>3. child.totalBits = map[q].totalBits /\ child.nexts = Append(map[q].nexts, c)
  BY <1>2 DEF BlockInfo
<1> HIDE DEF child
<1> QED
  BY <1>1, <1>3

\* A tree whose next block is hung under its parent.
LEMMA Linked ==
  ASSUME Inv, RecordsOK, NEW n \in Nat, n = ReadSoFar, n + 1 <= Len(file),
         NEW q, q = file[n + 1].previous, q # Null => q \in DOMAIN blocks,
         NEW base, DOMAIN base = DOMAIN blocks, \A h \in DOMAIN blocks : base[h] = blocks[h],
         NEW map, map = IF q = Null THEN blocks ELSE WithChild(base, q, n + 1)
  PROVE  /\ DOMAIN map = DOMAIN blocks
         /\ \A h \in DOMAIN blocks : /\ map[h].totalBits = Work[h]
                                     /\ ChildrenInOrder(map[h].nexts, h, n + 1)
<1>1. /\ \A h \in DOMAIN blocks : blocks[h] \in BlockInfo
      /\ DOMAIN blocks \subseteq Nat \ {0} /\ n + 1 \in Hash
  BY Ancestry, TreeFacts, SMTT(30) DEF Inv, TypeOK
<1>2. ASSUME NEW h \in DOMAIN blocks
      PROVE  IF h = q THEN ChildrenInOrder(Append(blocks[h].nexts, n + 1), h, n + 1)
             ELSE ChildrenInOrder(blocks[h].nexts, h, n + 1)
  <2>1. blocks[h].nexts \in Seq(Hash) /\ ChildrenInOrder(blocks[h].nexts, h, n)
    BY <1>1 DEF BlockInfo, RecordsOK
  <2> QED
    BY <1>1, <2>1, ChildAppended DEF Inv
<1>3. CASE q = Null
  BY <1>1, <1>2, <1>3 DEF RecordsOK
<1>4. CASE q # Null
  <2>1. /\ map = WithChild(base, q, n + 1) /\ q \in DOMAIN base
        /\ \A h \in DOMAIN base : base[h] \in BlockInfo
    BY <1>1, <1>4
  <2>2. DOMAIN map = DOMAIN blocks
    BY <1>1, <2>1, WithChildFacts
  <2>3. \A h \in DOMAIN blocks :
          /\ map[h].totalBits = blocks[h].totalBits
          /\ map[h].nexts = IF h = q THEN Append(blocks[q].nexts, n + 1)
                            ELSE blocks[h].nexts
    BY <2>1, WithChildRecords
  <2> QED
    BY <1>2, <2>2, <2>3 DEF RecordsOK
<1> QED
  BY <1>3, <1>4

LEMMA RecordsInit == ASSUME Init PROVE RecordsOK
  BY DEF Init, RecordsOK, NoBlocks, Importing

LEMMA RecordsDown == ASSUME Down PROVE RecordsOK'
  BY DEF Down, RecordsOK, NoBlocks, Importing

\* A step that adds no block leaves what the records say.
LEMMA RecordsQuiet ==
  ASSUME Inv, Inv', RecordsOK, Quiet
  PROVE  RecordsOK'
<1>1. /\ SameRecords
      /\ UNCHANGED <<blockInfo, hash>>
      /\ file' = file \/ BlockArrives
      /\ Importing' <=> Importing
  BY QuietFacts
<1>2. /\ \A h \in 1..Len(file) : file'[h] = file[h]
      /\ \A h \in 0..Len(file) : Work'[h] = Work[h]
  BY <1>1, HistoryKept DEF Inv
<1>3. ReadSoFar' = ReadSoFar
  <2>1. CASE Importing
    BY <1>1, <2>1 DEF ReadSoFar
  <2>2. CASE ~Importing
    <3>1. blockIds' = blockIds
      BY <2>2 DEF Quiet, InnerCommit, Importing, Start, SizeChain, RebuildChain,
        RestorePosition, BeginCommit, WalkBack, WalkEnds, UndoBlock, UndoEnds, RedoBlock,
        BlockArrives, vars, memVars
    <3> QED
      BY <1>1, <2>2, <3>1 DEF ReadSoFar
  <2> QED
    BY <2>1, <2>2
<1>4. /\ ReadSoFar \in Nat /\ ReadSoFar <= Len(file) /\ Len(file) \in Nat
      /\ DOMAIN blocks \subseteq 1..ReadSoFar
      /\ Importing => hash \in 1..Len(file)
  BY ReadFacts, Ancestry DEF Inv
<1>5. ASSUME NEW h \in DOMAIN blocks'
      PROVE  /\ blocks'[h].totalBits = Work'[h]
             /\ ChildrenInOrder(blocks[h].nexts, h, ReadSoFar)'
  <2>1. h \in DOMAIN blocks /\ h \in 0..Len(file)
    BY <1>1, <1>4 DEF SameRecords
  <2>2. blocks'[h].totalBits = Work'[h]
    BY <1>1, <1>2, <2>1 DEF SameRecords, RecordsOK
  <2>3. blocks'[h].nexts = blocks[h].nexts
    BY <1>1, <2>1 DEF SameRecords
  <2>4. ChildrenInOrder(blocks[h].nexts, h, ReadSoFar)
    BY <2>1 DEF RecordsOK
  <2>5. {c \in 1..ReadSoFar : file'[c].previous = h} = {c \in 1..ReadSoFar : file[c].previous = h}
    <3>1. \A c \in 1..ReadSoFar : file'[c] = file[c]
      BY <1>2, <1>4
    <3> QED
      BY <3>1
  <2>6. ChildrenInOrder(blocks[h].nexts, h, ReadSoFar)'
    BY <1>3, <2>3, <2>4, <2>5 DEF ChildrenInOrder
  <2> QED
    BY <2>2, <2>6
<1>6. Importing' => blockInfo'.totalBits = Work'[hash'] /\ blockInfo'.nexts = <<>>
  BY <1>1, <1>2, <1>4 DEF RecordsOK
<1> QED
  BY <1>5, <1>6 DEF RecordsOK

\* Totals are added up in the tree as they are in the files.
LEMMA TotalOfChild ==
  ASSUME Inv, RecordsOK, NEW h \in 1..Len(file),
         file[h].previous # Null => file[h].previous \in DOMAIN blocks
  PROVE  Work[h] = file[h].bits + (IF file[h].previous = Null THEN 0
                                   ELSE blocks[file[h].previous].totalBits)
<1> DEFINE p == file[h].previous
<1>1. p \in 0..Len(file) /\ file[h].bits \in Nat
  BY Ancestry DEF Inv
<1>2. Work[h] = Work[p] + file[h].bits /\ Work[0] = 0 /\ Work[p] \in Nat
  BY <1>1, RecursionsHold, WorkTypes DEF Inv, Recursions
<1>3. p # Null => blocks[p].totalBits = Work[p]
  BY DEF RecordsOK
<1> QED
  BY <1>1, <1>2, <1>3

LEMMA RecordsRestoreBlock ==
  ASSUME Inv, Inv', RecordsOK, RestoreBlock
  PROVE  RecordsOK'
<1> DEFINE n == Len(blockIds)
           new == n + 1
           q == file[new].previous
           map == IF q = Null THEN blocks ELSE WithChild(blocks, q, new)
<1>1. /\ pc = "restore" /\ pc' = "restore" /\ file' = file
      /\ n < Len(dbBlocks) /\ ~Importing /\ ~Importing'
  BY DEF RestoreBlock, MoreToRestore, readVars, Importing
<1>2. n \in Nat /\ Len(dbBlocks) \in Nat /\ Len(dbBlocks) <= Len(file) /\ Len(file) \in Nat
  BY Lengths DEF Inv, Progress
<1>3. /\ new \in 1..Len(dbBlocks) /\ new \in 1..Len(file) /\ ReadSoFar = n
      /\ DOMAIN blocks = 1..n
  BY <1>1, <1>2 DEF ReadSoFar, Inv, TreeOK, InCommit
<1>4. /\ dbBlocks[new].hash = new /\ dbBlocks[new].previous = q - 1
      /\ dbBlocks[new].bits = file[new].bits
      /\ q \in 0..n /\ file[new].bits \in Nat
  BY <1>2, <1>3, Ancestry DEF Inv, IndexedOnce
<1>5. q # Null => q \in DOMAIN blocks /\ blockIds[(q - 1) + 1] = q
  <2>1. q # Null => q \in 1..n /\ (q - 1) + 1 = q
    BY <1>2, <1>4
  <2> QED
    BY <1>3, <2>1 DEF Inv, TreeOK
<1>6. (q - 1 = NoIndex) <=> (q = Null)
  BY <1>2, <1>4
<1> DEFINE total == (IF q = Null THEN 0 ELSE blocks[q].totalBits) + file[new].bits
           info == [index |-> n, height |-> dbBlocks[new].height,
                    bits |-> dbBlocks[new].bits, totalBits |-> total,
                    previous |-> q, longestChain |-> FALSE, nexts |-> <<>>]
<1>7. blockIds' = Append(blockIds, new) /\ blocks' = Insert(map, new, info)
  <2> HIDE DEF q
  <2> QED
    BY <1>4, <1>5, <1>6 DEF RestoreBlock
<1>8. total = Work[new]
  <2>1. Work[new] = file[new].bits + (IF q = Null THEN 0 ELSE blocks[q].totalBits)
    BY <1>3, <1>5, TotalOfChild
  <2>2. q # Null => blocks[q].totalBits \in Nat
    BY <1>5 DEF Inv, TypeOK, BlockInfo
  <2> QED
    BY <1>4, <2>1, <2>2
<1>9. /\ DOMAIN map = 1..n
      /\ \A h \in 1..n : /\ map[h].totalBits = Work[h]
                         /\ ChildrenInOrder(map[h].nexts, h, new)
  <2> HIDE DEF q
  <2>1. new <= Len(file)
    BY <1>2, <1>3
  <2>2. q = file[new].previous
    BY DEF q
  <2> HIDE DEF map
  <2>3. map = IF q = Null THEN blocks ELSE WithChild(blocks, q, new)
    BY DEF map
  <2> QED
    BY <1>2, <1>3, <1>5, <2>1, <2>2, <2>3, Linked, SMTT(30)
<1>10. /\ DOMAIN blocks' = 1..new
       /\ blocks'[new] = info
       /\ \A h \in 1..n : blocks'[h] = map[h]
  <2> HIDE DEF map, info
  <2>1. new \notin DOMAIN map /\ 1..new = 1..n \cup {new}
    BY <1>2, <1>9
  <2>2. /\ DOMAIN Insert(map, new, info) = DOMAIN map \cup {new}
        /\ \A h \in DOMAIN map : Insert(map, new, info)[h] = map[h]
        /\ Insert(map, new, info)[new] = info
    BY <2>1, InsertFacts, ZenonT(30)
  <2> QED
    BY <1>7, <1>9, <2>1, <2>2, Zenon
<1>11. Work' = Work /\ ReadSoFar' = new
  <2>1. Len(blockIds') = new
    BY <1>2, <1>7 DEF Inv, TypeOK
  <2> QED
    BY <1>1, <2>1 DEF Work, ReadSoFar
<1>12. ChildrenInOrder(<<>>, new, new)
  <2>1. \A c \in 1..new : file[c].previous # new
    BY <1>2, <1>3, Ancestry DEF Inv
  <2> QED
    BY <2>1 DEF ChildrenInOrder
<1>13. ASSUME NEW h \in DOMAIN blocks'
       PROVE  /\ blocks'[h].totalBits = Work'[h]
              /\ ChildrenInOrder(blocks[h].nexts, h, ReadSoFar)'
  <2>1. blocks'[h].totalBits = Work[h] /\ ChildrenInOrder(blocks'[h].nexts, h, new)
    <3>1. CASE h = new
      BY <1>8, <1>10, <1>12, <3>1
    <3>2. CASE h # new
      <4>1. h \in 1..n
        BY <1>2, <1>10, <3>2
      <4> HIDE DEF map
      <4> QED
        BY <1>9, <1>10, <4>1
    <3> QED
      BY <3>1, <3>2
  <2> QED
    BY <1>1, <1>11, <2>1 DEF ChildrenInOrder
<1> QED
  BY <1>1, <1>13 DEF RecordsOK

\* What a read does to the tree: the parent of the block is known, so that none
\* is inserted, and it gets a child.
LEMMA ReadEffect ==
  ASSUME Inv, ReadBlock
  PROVE  LET n   == Len(dbBlocks)
             new == n + 1
             q   == file[new].previous
         IN /\ n \in Nat /\ position = n /\ Len(blockIds) = n
            /\ new \in 1..Len(file) /\ Len(file) \in Nat /\ DOMAIN blocks = 1..n
            /\ q \in 0..n /\ (q # Null => q \in DOMAIN blocks)
            /\ file[new].bits \in Nat
            /\ hash' = new
            /\ \E known :
                 /\ DOMAIN known = DOMAIN blocks
                 /\ \A h \in DOMAIN blocks : known[h] = blocks[h]
                 /\ blocks' = IF q = Null THEN blocks ELSE WithChild(known, q, new)
            /\ blockInfo'.totalBits =
                 file[new].bits + (IF q = Null THEN 0 ELSE blocks[q].totalBits)
            /\ blockInfo'.longestChain = (blockInfo'.totalBits > totalBits)
            /\ blockInfo'.nexts = <<>>
<1> DEFINE n == Len(dbBlocks)
           new == n + 1
           q == file[new].previous
           known == IF q = Null THEN blocks ELSE Insert(blocks, q, ZeroInfo)
<1>1. position = n /\ Len(blockIds) = n /\ position < Len(file)
  BY DEF ReadBlock, MoreToRead, Inv, Progress
<1>2. n \in Nat /\ Len(file) \in Nat /\ DOMAIN blocks = 1..n
  BY Lengths, TreeFacts DEF Inv, ReadBlock
<1>3. new \in 1..Len(file) /\ q \in 0..n /\ file[new].bits \in Nat
  BY <1>1, <1>2, Ancestry DEF Inv
<1>4. q # Null => q \in DOMAIN blocks
  BY <1>2, <1>3
<1>5. /\ DOMAIN known = DOMAIN blocks
      /\ \A h \in DOMAIN blocks : known[h] = blocks[h]
  <2>1. CASE q = Null
    BY <2>1
  <2>2. CASE q # Null
    <3>1. DOMAIN blocks \cup {q} = DOMAIN blocks
      BY <1>4, <2>2
    <3>2. known = Insert(blocks, q, ZeroInfo)
      BY <2>2
    <3>3. /\ DOMAIN Insert(blocks, q, ZeroInfo) = DOMAIN blocks \cup {q}
          /\ \A h \in DOMAIN blocks : Insert(blocks, q, ZeroInfo)[h] = blocks[h]
      BY DEF Insert
    <3> HIDE DEF known
    <3> QED
      BY <3>1, <3>2, <3>3, Zenon
  <2> QED
    BY <2>1, <2>2
<1> HIDE DEF known
<1>6. /\ hash' = new
      /\ blocks' = IF q = Null THEN blocks ELSE WithChild(known, q, new)
      /\ blockInfo'.totalBits =
           file[new].bits + (IF q = Null THEN 0 ELSE known[q].totalBits)
      /\ blockInfo'.longestChain = (blockInfo'.totalBits > totalBits)
      /\ blockInfo'.nexts = <<>>
  BY <1>1 DEF ReadBlock, NewLongest, known
<1> QED
  BY <1>1, <1>2, <1>3, <1>4, <1>5, <1>6

LEMMA RecordsReadBlock ==
  ASSUME Inv, Inv', RecordsOK, ReadBlock
  PROVE  RecordsOK'
<1> DEFINE n == Len(dbBlocks)
           new == n + 1
           q == file[new].previous
<1>1. /\ n \in Nat /\ Len(blockIds) = n
      /\ new \in 1..Len(file) /\ Len(file) \in Nat /\ DOMAIN blocks = 1..n
      /\ q # Null => q \in DOMAIN blocks
      /\ hash' = new /\ blockInfo'.nexts = <<>>
      /\ blockInfo'.totalBits =
           file[new].bits + (IF q = Null THEN 0 ELSE blocks[q].totalBits)
  BY ReadEffect
<1>2. PICK known :
        /\ DOMAIN known = DOMAIN blocks
        /\ \A h \in DOMAIN blocks : known[h] = blocks[h]
        /\ blocks' = IF q = Null THEN blocks ELSE WithChild(known, q, new)
  BY ReadEffect
<1>3. file' = file /\ ~Importing /\ Importing'
  BY DEF ReadBlock, Importing
<1>4. Work' = Work /\ ReadSoFar = n /\ ReadSoFar' = new
  BY <1>1, <1>3 DEF Work, ReadSoFar
<1>5. /\ DOMAIN blocks' = DOMAIN blocks
      /\ \A h \in DOMAIN blocks : /\ blocks'[h].totalBits = Work[h]
                                  /\ ChildrenInOrder(blocks'[h].nexts, h, new)
  <2>1. new <= Len(file)
    BY <1>1
  <2>2. q = file[new].previous
    OBVIOUS
  <2> HIDE DEF q
  <2> QED
    BY <1>1, <1>2, <1>4, <2>1, <2>2, Linked
<1>6. blockInfo'.totalBits = Work[new]
  BY <1>1, TotalOfChild
<1>7. \A h \in DOMAIN blocks' : /\ blocks'[h].totalBits = Work'[h]
                                /\ ChildrenInOrder(blocks[h].nexts, h, ReadSoFar)'
  BY <1>3, <1>4, <1>5 DEF ChildrenInOrder
<1> QED
  BY <1>1, <1>4, <1>6, <1>7 DEF RecordsOK

\* What the end of a commit does to the tree: the block joins it.
LEMMA FinishEffect ==
  ASSUME Inv, Finish
  PROVE  LET n == Len(dbBlocks) IN
         /\ n \in Nat /\ hash = n + 1 /\ hash \in 1..Len(file)
         /\ DOMAIN blocks = 1..n /\ DOMAIN blocks' = 1..(n + 1)
         /\ blocks'[hash] = blockInfo
         /\ \A h \in 1..n : blocks'[h] = blocks[h]
         /\ Len(dbBlocks') = n + 1 /\ Len(blockIds') = n + 1
         /\ Importing /\ pc' = "idle" /\ file' = file
<1> DEFINE n == Len(dbBlocks)
<1>1. Importing /\ pc' = "idle" /\ file' = file /\ blocks' = Insert(blocks, hash, blockInfo)
  BY DEF Finish, Importing
<1>2. n \in Nat /\ Len(file) \in Nat /\ hash = n + 1 /\ hash <= Len(file)
  BY <1>1, Lengths DEF Inv, Progress
<1>3. DOMAIN blocks = 1..n /\ hash \notin DOMAIN blocks
  BY <1>1, TreeFacts DEF Finish
<1>4. /\ DOMAIN blocks' = 1..(n + 1) /\ blocks'[hash] = blockInfo
      /\ \A h \in 1..n : blocks'[h] = blocks[h]
  <2>1. 1..(n + 1) = 1..n \cup {hash}
    BY <1>2
  <2>2. /\ DOMAIN Insert(blocks, hash, blockInfo) = DOMAIN blocks \cup {hash}
        /\ \A h \in DOMAIN blocks : Insert(blocks, hash, blockInfo)[h] = blocks[h]
        /\ Insert(blocks, hash, blockInfo)[hash] = blockInfo
    BY <1>3, InsertFacts, Zenon
  <2> QED
    BY <1>1, <1>3, <2>1, <2>2, Zenon
<1>5. blockInfo.index = n
  BY <1>1 DEF Inv, ImportOK
<1>6. Len(dbBlocks') = n + 1
  <2>1. dbBlocks' = Append(dbBlocks, NewDbBlock) /\ dbBlocks \in Seq(DbBlock)
    BY <1>2, <1>5 DEF Finish, Inv, TypeOK
  <2> QED
    BY <2>1
<1>7. Len(blockIds') = n + 1
  BY <1>1 DEF Finish, Inv, Progress, InCommit
<1> QED
  BY <1>1, <1>2, <1>3, <1>4, <1>6, <1>7

LEMMA RecordsFinish ==
  ASSUME Inv, Inv', RecordsOK, Finish
  PROVE  RecordsOK'
<1> DEFINE n == Len(dbBlocks)
<1>1. /\ n \in Nat /\ hash = n + 1 /\ hash \in 1..Len(file)
      /\ DOMAIN blocks = 1..n /\ DOMAIN blocks' = 1..(n + 1)
      /\ blocks'[hash] = blockInfo
      /\ \A h \in 1..n : blocks'[h] = blocks[h]
      /\ Len(blockIds') = n + 1
      /\ Importing /\ pc' = "idle" /\ file' = file
  BY FinishEffect
<1>2. ~Importing' /\ ReadSoFar = n + 1 /\ ReadSoFar' = n + 1 /\ Work' = Work
  BY <1>1 DEF Importing, ReadSoFar, Work
<1>3. ChildrenInOrder(<<>>, hash, n + 1)
  <2>1. ASSUME NEW c \in 1..(n + 1)
        PROVE  file[c].previous # hash
    <3>1. c \in 1..Len(file) /\ c < hash + 1
      BY <1>1, Lengths DEF Inv
    <3>2. file[c].previous < c /\ file[c].previous \in Nat
      BY <3>1, Ancestry DEF Inv
    <3> QED
      BY <1>1, <3>1, <3>2
  <2> QED
    BY <2>1 DEF ChildrenInOrder
<1>4. ASSUME NEW h \in DOMAIN blocks'
      PROVE  blocks'[h].totalBits = Work[h] /\ ChildrenInOrder(blocks'[h].nexts, h, n + 1)
  <2>1. CASE h = hash
    BY <1>1, <1>3, <2>1 DEF RecordsOK
  <2>2. CASE h # hash
    <3>1. h \in 1..n
      BY <1>1, <2>2
    <3> QED
      BY <1>1, <1>2, <3>1 DEF RecordsOK
  <2> QED
    BY <2>1, <2>2
<1> QED
  BY <1>1, <1>2, <1>4 DEF RecordsOK, ChildrenInOrder

LEMMA RecordsNext ==
  ASSUME NoRescans, Inv, Inv', RecordsOK, [Next]_vars
  PROVE  RecordsOK'
<1>1. Quiet \/ Down \/ RestoreBlock \/ ReadBlock \/ Finish
  BY StepCases
<1> QED
  BY <1>1, RecordsQuiet, RecordsDown, RecordsRestoreBlock, RecordsReadBlock, RecordsFinish

LEMMA RecordsAlways == ASSUME NoRescans PROVE Spec => [](Inv /\ RecordsOK)
<1>1. Init => RecordsOK
  BY RecordsInit
<1>2. Inv /\ Inv' /\ RecordsOK /\ [Next]_vars => RecordsOK'
  BY RecordsNext
<1> QED
  BY <1>1, <1>2, InvAlways, PTL DEF Spec

\* Whatever the crashes, an import and a restore leave the same tree: every
\* block of LevelDB with its index, its height, the sum of the bits of its
\* ancestry and its children in the order of the files (main.cpp:322-395
\* against 510-555).
THEOREM TreeAlwaysMatches == ASSUME NoRescans PROVE Spec => []TreeMatchesDatabase
<1>1. Inv /\ RecordsOK => TreeMatchesDatabase
  <2> SUFFICES ASSUME Inv, RecordsOK, pc = "idle" PROVE TreeMatchesDatabase
    BY DEF TreeMatchesDatabase
  <2> DEFINE n == Len(dbBlocks)
  <2>1. /\ position = n /\ Len(blockIds) = n /\ n \in Nat
        /\ DOMAIN blocks = 1..n /\ ReadSoFar = n
    BY Lengths, TreeFacts DEF Inv, Progress, ReadSoFar, Importing
  <2>2. blockIds = [i \in 1..n |-> i]
    <3>1. blockIds \in Seq(Hash) /\ \A i \in 1..n : blockIds[i] = i
      BY <2>1 DEF Inv, TypeOK, TreeOK
    <3> QED
      BY <2>1, <3>1
  <2>3. \A h \in 1..n :
          /\ blocks[h].index = h - 1
          /\ blocks[h].height = Len(Path[h]) - 1
          /\ blocks[h].previous = file[h].previous
          /\ blocks[h].totalBits = Work[h]
          /\ ChildrenInOrder(blocks[h].nexts, h, n)
    BY <2>1, HeightIsLength DEF Inv, TreeOK, RecordsOK
  <2> QED
    BY <2>1, <2>2, <2>3 DEF TreeMatchesDatabase
<1> QED
  BY <1>1, RecordsAlways, PTL

-----------------------------------------------------------------------------
(* The heaviest chain.                                                     *)

\* h is the tip of the main chain of the first n blocks.
TipIs(h, n) == IF n = 0 THEN h = Null ELSE h \in 1..n /\ FirstHeaviest(h, n)

Running == pc \notin {"down", "restore", "rebuild"}

\* The tip of the import and that of the restore are the first of the heaviest
\* blocks; the chain that the restore builds ends in its tip.
TipsOK ==
  /\ longestBlock \in DOMAIN blocks \cup {Null} /\ totalBits = Work[longestBlock]
  /\ Importing => (blockInfo.longestChain <=> blockInfo.totalBits > totalBits)
  /\ pc \in {"restore", "rebuild"} => starts > 0
  /\ Running /\ starts = 0 => TipIs(longestBlock, Len(dbBlocks))
  /\ ~Running => TipIs(best, Len(blockIds)) /\ bestBits = Work[best]
  /\ pc = "rebuild" =>
       LET k == IF walk = Null THEN 0 ELSE blocks[walk].height + 1 IN
       \/ walk = best /\ Len(currentChain) = k
       \/ k < Len(currentChain) /\ TipOf(currentChain) = best
  /\ LockFree /\ longestBlock = Null => TipIs(TipOf(currentChain), Len(dbBlocks))

\* There is one such tip.
LEMMA TipIsBest ==
  ASSUME TypeOK, FileOrdered, NEW n \in Nat, n <= Len(file), NEW h, TipIs(h, n)
  PROVE  h = BestTip(n)
<1>1. CASE n = 0
  BY <1>1 DEF TipIs, BestTip
<1>2. CASE n # 0
  <2>1. h \in 1..n /\ FirstHeaviest(h, n)
    BY <1>2 DEF TipIs
  <2>2. \A g \in 1..n : Work[g] \in Nat
    BY Ancestry, WorkTypes
  <2>3. ASSUME NEW g \in 1..n, FirstHeaviest(g, n) PROVE g = h
    <3>1. /\ IF g < h THEN Work[g] < Work[h] ELSE Work[g] <= Work[h]
          /\ IF h < g THEN Work[h] < Work[g] ELSE Work[h] <= Work[g]
      BY <2>1, <2>3 DEF FirstHeaviest
    <3>2. Work[g] \in Nat /\ Work[h] \in Nat /\ g \in Nat /\ h \in Nat
      BY <2>1, <2>2
    <3> QED
      BY <3>1, <3>2
  <2>4. BestTip(n) = CHOOSE g \in 1..n : FirstHeaviest(g, n)
    BY <1>2 DEF BestTip
  <2> QED
    BY <2>1, <2>3, <2>4
<1> QED
  BY <1>1, <1>2

\* It stays what it is when bitcoind appends a block to the files.
LEMMA TipIsKept ==
  ASSUME TypeOK, FileOrdered, TypeOK', FileOrdered', file' = file \/ BlockArrives,
         NEW n \in Nat, n <= Len(file), NEW h, TipIs(h, n)
  PROVE  TipIs(h, n)'
<1>1. Len(file) \in Nat /\ \A g \in 0..Len(file) : Work'[g] = Work[g]
  BY Ancestry, HistoryKept
<1> QED
  BY <1>1 DEF TipIs, FirstHeaviest

\* The next block is the tip if it is heavier than the tip.
LEMMA TipGrows ==
  ASSUME TypeOK, FileOrdered, NEW n \in Nat, n + 1 <= Len(file), NEW h, TipIs(h, n)
  PROVE  IF Work[n + 1] > Work[h] THEN TipIs(n + 1, n + 1) ELSE TipIs(h, n + 1)
<1>1. Len(file) \in Nat /\ \A g \in 0..Len(file) : Work[g] \in Nat
  BY Ancestry, WorkTypes
<1>2. CASE n = 0
  <2>1. h = 0 /\ Work[0] = 0 /\ Work[1] > 0 /\ n + 1 = 1
    BY <1>1, <1>2, RecursionsHold, WorkTypes DEF TipIs, Recursions
  <2> QED
    BY <1>1, <2>1 DEF TipIs, FirstHeaviest
<1>3. CASE n # 0
  <2>1. /\ h \in 1..n
        /\ \A g \in 1..n : IF g < h THEN Work[g] < Work[h] ELSE Work[g] <= Work[h]
    BY <1>3 DEF TipIs, FirstHeaviest
  <2>2. h \in 0..Len(file) /\ n + 1 \in 0..Len(file) /\ n + 1 \in 1..(n + 1)
    BY <1>1, <2>1
  <2>3. Work[h] \in Nat /\ Work[n + 1] \in Nat
    BY <1>1, <2>2
  <2>4. \A g \in 1..(n + 1) : g \in 1..n \/ g = n + 1
    OBVIOUS
  <2>5. CASE Work[n + 1] > Work[h]
    <3>1. ASSUME NEW g \in 1..(n + 1)
          PROVE  IF g < n + 1 THEN Work[g] < Work[n + 1] ELSE Work[g] <= Work[n + 1]
      <4>1. CASE g = n + 1
        BY <2>3, <4>1
      <4>2. CASE g \in 1..n
        <5>1. Work[g] \in Nat /\ Work[g] <= Work[h]
          BY <1>1, <2>1, <2>3, <4>2
        <5> QED
          BY <2>3, <2>5, <4>2, <5>1
      <4> QED
        BY <2>4, <4>1, <4>2
    <3> QED
      BY <2>2, <2>5, <3>1 DEF TipIs, FirstHeaviest
  <2>6. CASE ~(Work[n + 1] > Work[h])
    <3>1. ASSUME NEW g \in 1..(n + 1)
          PROVE  IF g < h THEN Work[g] < Work[h] ELSE Work[g] <= Work[h]
      <4>1. CASE g = n + 1
        BY <2>1, <2>3, <2>6, <4>1
      <4>2. CASE g \in 1..n
        BY <2>1, <4>2
      <4> QED
        BY <2>4, <4>1, <4>2
    <3>2. h \in 1..(n + 1)
      BY <2>1
    <3> QED
      BY <2>6, <3>1, <3>2 DEF TipIs, FirstHeaviest
  <2> QED
    BY <2>5, <2>6
<1> QED
  BY <1>2, <1>3

-----------------------------------------------------------------------------
LEMMA TipsInit == ASSUME Init, Inv PROVE TipsOK
<1>1. Work[0] = 0
  BY RecursionsHold DEF Inv, Recursions
<1> QED
  BY <1>1 DEF Init, TipsOK, NoBlocks, Importing, Running, LockFree, TipIs, TipOf

LEMMA TipsDown == ASSUME Inv', Down PROVE TipsOK'
<1>1. Work'[0] = 0
  BY RecursionsNext DEF Inv, Recursions
<1> QED
  BY <1>1 DEF Down, TipsOK, NoBlocks, Importing, Running, LockFree, TipIs

\* The lengths that the tips are compared along.
LEMMA TipLengths ==
  ASSUME Inv
  PROVE  /\ Len(dbBlocks) \in Nat /\ Len(dbBlocks) <= Len(file)
         /\ Len(file) \in Nat
         /\ ~Importing => Len(blockIds) \in Nat /\ Len(blockIds) <= Len(file)
         /\ longestBlock \in DOMAIN blocks \cup {Null} => longestBlock \in 0..Len(file)
         /\ best \in DOMAIN blocks \cup {Null} => best \in 0..Len(file)
<1>1. /\ Len(dbBlocks) \in Nat /\ Len(dbBlocks) <= Len(file) /\ Len(file) \in Nat
      /\ DOMAIN blocks \subseteq 1..Len(file)
  BY Lengths, TreeFacts DEF Inv, Progress
<1>2. ~Importing => Len(blockIds) \in Nat /\ Len(blockIds) <= Len(file)
  BY <1>1, ReadFacts, Lengths DEF ReadSoFar, Inv
<1> QED
  BY <1>1, <1>2

\* A step that leaves the tips and the chain as they are.
LEMMA TipsSame ==
  ASSUME Inv, Inv', TipsOK, SameRecords, file' = file \/ BlockArrives,
         UNCHANGED <<longestBlock, totalBits, best, bestBits, dbBlocks, blockIds, blockInfo,
                     currentChain, walk>>,
         Importing' <=> Importing, Running' <=> Running,
         pc' = "rebuild" => pc = "rebuild", LockFree' => LockFree,
         starts' = starts \/ (starts' > 0 /\ ~Running), pc' = pc \/ starts' > 0
  PROVE  TipsOK'
<1>1. /\ Len(dbBlocks) \in Nat /\ Len(dbBlocks) <= Len(file) /\ Len(file) \in Nat
      /\ ~Importing => Len(blockIds) \in Nat /\ Len(blockIds) <= Len(file)
      /\ longestBlock \in 0..Len(file)
      /\ best \in DOMAIN blocks \cup {Null} => best \in 0..Len(file)
  BY TipLengths DEF TipsOK
<1>2. \A g \in 0..Len(file) : Work'[g] = Work[g]
  BY HistoryKept DEF Inv
<1>3. longestBlock' \in DOMAIN blocks' \cup {Null} /\ totalBits' = Work'[longestBlock']
  BY <1>1, <1>2 DEF TipsOK, SameRecords
<1>4. Importing' => (blockInfo'.longestChain <=> blockInfo'.totalBits > totalBits')
  BY DEF TipsOK
<1>5. pc' \in {"restore", "rebuild"} => starts' > 0
  BY DEF TipsOK, Running
<1>6. Running' /\ starts' = 0 => TipIs(longestBlock, Len(dbBlocks))'
  <2> SUFFICES ASSUME Running', starts' = 0 PROVE TipIs(longestBlock, Len(dbBlocks))'
    OBVIOUS
  <2>1. TipIs(longestBlock, Len(dbBlocks))
    BY DEF TipsOK
  <2> QED
    BY <1>1, <1>2, <2>1 DEF TipIs, FirstHeaviest
<1>7. ~Running' => TipIs(best, Len(blockIds))' /\ bestBits' = Work'[best']
  <2> SUFFICES ASSUME ~Running PROVE TipIs(best, Len(blockIds))' /\ bestBits' = Work'[best']
    OBVIOUS
  <2>1. TipIs(best, Len(blockIds)) /\ bestBits = Work[best] /\ ~Importing
    BY DEF TipsOK, Running, Importing
  <2>2. best \in 0..Len(file)
    BY <1>1 DEF Inv, RebuildOK, Running
  <2> QED
    BY <1>1, <1>2, <2>1, <2>2 DEF TipIs, FirstHeaviest
<1>8. pc' = "rebuild" =>
        LET k == IF walk' = Null THEN 0 ELSE blocks'[walk'].height + 1 IN
        \/ walk' = best' /\ Len(currentChain') = k
        \/ k < Len(currentChain') /\ TipOf(currentChain)' = best'
  BY DEF TipsOK, SameRecords, TipOf, Inv, RebuildOK
<1>9. LockFree' /\ longestBlock' = Null => TipIs(TipOf(currentChain), Len(dbBlocks))'
  <2> SUFFICES ASSUME LockFree, longestBlock = Null
               PROVE  TipIs(TipOf(currentChain), Len(dbBlocks))'
    OBVIOUS
  <2>1. TipIs(TipOf(currentChain), Len(dbBlocks))
    BY DEF TipsOK
  <2> QED
    BY <1>1, <1>2, <2>1 DEF TipIs, FirstHeaviest, TipOf
<1> QED
  BY <1>3, <1>4, <1>5, <1>6, <1>7, <1>8, <1>9 DEF TipsOK

\* The steps of a commit, which begin and end with the lock.
LEMMA TipsCommit ==
  ASSUME Inv, Inv', TipsOK, InnerCommit
  PROVE  TipsOK'
<1>1. /\ UNCHANGED <<longestBlock, totalBits, blockInfo, dbBlocks, file, starts>>
      /\ Importing /\ Importing' /\ Running /\ Running' /\ ~LockFree'
      /\ pc' \notin {"restore", "rebuild"}
  BY DEF InnerCommit, BeginCommit, WalkBack, WalkEnds, UndoBlock, UndoEnds, RedoBlock,
    dbVars, memVars, tipVars, importVars, Importing, Running, LockFree
<1>2. SameRecords
  BY <1>1, QuietFacts DEF Quiet
<1>3. Work' = Work /\ FirstHeaviest(longestBlock, Len(dbBlocks))' =
                        FirstHeaviest(longestBlock, Len(dbBlocks))
  BY <1>1 DEF Work, FirstHeaviest
<1> QED
  BY <1>1, <1>2, <1>3 DEF TipsOK, SameRecords, TipIs

\* The chain gets the length that its tip asks for.
LEMMA TipsSizeChain ==
  ASSUME Inv, Inv', TipsOK, SizeChain
  PROVE  TipsOK'
<1>1. /\ UNCHANGED <<longestBlock, totalBits, best, bestBits, dbBlocks, blockIds, blocks,
                     blockInfo, file, starts>>
      /\ pc = "restore" /\ pc' = "rebuild" /\ walk' = best
      /\ ~Running /\ ~Running' /\ ~Importing' /\ ~LockFree'
  BY DEF SizeChain, dbVars, tipVars, importVars, bestVars, Running, Importing, LockFree
<1>2. Work' = Work
  BY <1>1 DEF Work
<1>3. TipIs(best, Len(blockIds))' = TipIs(best, Len(blockIds))
  BY <1>1, <1>2 DEF TipIs, FirstHeaviest
<1>4. Len(currentChain') = IF walk' = Null THEN 0 ELSE blocks'[walk'].height + 1
  <2>1. Null \notin DOMAIN blocks /\ best \in DOMAIN blocks \cup {Null}
    BY <1>1, HashFacts DEF Inv, TypeOK, RebuildOK
  <2>2. best # Null => blocks[best].height \in Nat
    BY <2>1 DEF Inv, TypeOK, BlockInfo
  <2>3. CASE best = Null
    <3>1. currentChain' = <<>>
      BY <2>1, <2>3 DEF SizeChain
    <3> QED
      BY <1>1, <2>3, <3>1
  <2>4. CASE best # Null
    <3> DEFINE k == blocks[best].height + 1
    <3>1. best \in DOMAIN blocks /\ k \in Nat
      BY <2>1, <2>2, <2>4
    <3>2. currentChain' = [i \in 1..k |-> Null]
      BY <3>1 DEF SizeChain
    <3>3. Len(currentChain') = k
      <4> HIDE DEF k
      <4> QED
        BY <3>1, <3>2
    <3> QED
      BY <1>1, <2>4, <3>3
  <2> QED
    BY <2>3, <2>4
<1> QED
  BY <1>1, <1>2, <1>3, <1>4 DEF TipsOK

\* The chain is filled from its tip down.
LEMMA TipsRebuildChain ==
  ASSUME Inv, Inv', TipsOK, RebuildChain
  PROVE  TipsOK'
<1> DEFINE k == blocks[walk].height + 1
           len == Len(currentChain)
<1>1. /\ UNCHANGED <<longestBlock, totalBits, best, bestBits, dbBlocks, blockIds,
                     blockInfo, file, starts, pc>>
      /\ pc = "rebuild" /\ ~Running /\ ~Running' /\ ~Importing' /\ ~LockFree'
      /\ walk \in DOMAIN blocks /\ walk' = blocks[walk].previous
      /\ currentChain' = [currentChain EXCEPT ![k] = walk]
  BY DEF RebuildChain, dbVars, tipVars, importVars, bestVars, Running, Importing, LockFree
<1>2. Work' = Work
  BY <1>1 DEF Work
<1>3. TipIs(best, Len(blockIds))' = TipIs(best, Len(blockIds))
  BY <1>1, <1>2 DEF TipIs, FirstHeaviest
<1>4. SameRecords
  BY <1>1, QuietFacts DEF Quiet
<1>5. /\ walk # Null /\ Null \notin DOMAIN blocks /\ k \in 1..len /\ len \in Nat
      /\ \/ walk = best /\ len = k
         \/ k < len /\ TipOf(currentChain) = best
  <2>1. Null \notin DOMAIN blocks
    BY HashFacts DEF Inv, TypeOK
  <2>2. blocks[walk].height \in Nat /\ len \in Nat
    BY <1>1, Lengths DEF Inv, TypeOK, BlockInfo
  <2> QED
    BY <1>1, <2>1, <2>2 DEF Inv, RebuildOK, TipsOK
<1>6. k - 1 = IF walk' = Null THEN 0 ELSE blocks'[walk'].height + 1
  <2>1. Hangs(blocks[walk]) /\ blocks[walk].height \in Nat
    BY <1>1, TreeFacts DEF Inv, TypeOK, BlockInfo
  <2> QED
    BY <1>1, <1>4, <1>5, <2>1 DEF Hangs, SameRecords
<1>7. Len(currentChain') = len /\ TipOf(currentChain)' = best
  <2>1. /\ Len(currentChain') = len
        /\ \A i \in 1..len : currentChain'[i] = IF i = k THEN walk ELSE currentChain[i]
    <3>1. currentChain \in Seq(Hash \cup {Null}) /\ walk \in Hash \cup {Null}
      BY DEF Inv, TypeOK
    <3> QED
      BY <1>1, <1>5, <3>1, ExceptSeq
  <2>2. /\ len \in 1..len /\ currentChain # <<>> /\ currentChain' # <<>>
        /\ TipOf(currentChain)' = currentChain'[len] /\ TipOf(currentChain) = currentChain[len]
    BY <1>5, <2>1 DEF TipOf
  <2> QED
    BY <1>5, <2>1, <2>2
<1>8. k - 1 < Len(currentChain')
  BY <1>5, <1>7
<1>9. longestBlock' \in DOMAIN blocks' \cup {Null} /\ totalBits' = Work'[longestBlock']
  BY <1>1, <1>2, <1>4 DEF TipsOK, SameRecords
<1> QED
  BY <1>1, <1>2, <1>3, <1>6, <1>7, <1>8, <1>9 DEF TipsOK

\* The chain is filled: it ends in the tip of the restore.
LEMMA TipsRestorePosition ==
  ASSUME Inv, Inv', TipsOK, RestorePosition
  PROVE  TipsOK'
<1>1. /\ UNCHANGED <<longestBlock, totalBits, dbBlocks, blockIds, blocks, currentChain,
                     blockInfo, file, starts>>
      /\ pc = "rebuild" /\ pc' = "idle" /\ walk \notin DOMAIN blocks
      /\ ~Running /\ Running' /\ ~Importing'
  BY DEF RestorePosition, dbVars, memVars, tipVars, importVars, Running, Importing
<1>2. Work' = Work /\ starts > 0
  BY <1>1 DEF Work, TipsOK
<1>3. walk = Null /\ Len(blockIds) = Len(dbBlocks) /\ Len(currentChain) \in Nat
  BY <1>1, Lengths DEF Inv, RebuildOK, Progress
<1>4. TipOf(currentChain) = best
  <2>1. \/ best = Null /\ Len(currentChain) = 0
        \/ TipOf(currentChain) = best
    BY <1>1, <1>3 DEF TipsOK
  <2>2. Len(currentChain) = 0 => currentChain = <<>>
    BY DEF Inv, TypeOK
  <2> QED
    BY <2>1, <2>2 DEF TipOf
<1>5. TipIs(TipOf(currentChain), Len(dbBlocks))
  BY <1>1, <1>3, <1>4 DEF TipsOK
<1>6. TipIs(TipOf(currentChain), Len(dbBlocks))' = TipIs(TipOf(currentChain), Len(dbBlocks))
  BY <1>1, <1>2 DEF TipIs, FirstHeaviest, TipOf
<1> QED
  BY <1>1, <1>2, <1>5, <1>6 DEF TipsOK

\* The next block of the database is the tip if it is heavier.
LEMMA TipsRestoreBlock ==
  ASSUME Inv, Inv', RecordsOK, RecordsOK', TipsOK, RestoreBlock
  PROVE  TipsOK'
<1> DEFINE n == Len(blockIds)
           new == n + 1
<1>1. /\ UNCHANGED <<longestBlock, totalBits, dbBlocks, currentChain, blockInfo, file,
                     starts, pc>>
      /\ pc = "restore" /\ ~Running /\ ~Running' /\ ~Importing /\ ~Importing' /\ ~LockFree'
      /\ n < Len(dbBlocks) /\ starts > 0
  BY DEF RestoreBlock, MoreToRestore, dbVars, tipVars, importVars, readVars, Running,
    Importing, LockFree, TipsOK
<1>2. Work' = Work /\ n \in Nat /\ new \in 1..Len(file) /\ new \in 1..Len(dbBlocks)
  BY <1>1, TipLengths DEF Work
<1>3. dbBlocks[new].hash = new
  BY <1>2 DEF Inv, IndexedOnce
<1>4. blockIds' = Append(blockIds, new) /\ Len(blockIds') = new
  <2>1. blockIds' = Append(blockIds, new) /\ blockIds \in Seq(Hash)
    BY <1>3 DEF RestoreBlock, Inv, TypeOK
  <2> QED
    BY <2>1
<1>5. DOMAIN blocks = 1..n /\ DOMAIN blocks' = 1..new
  BY <1>1, <1>4 DEF Inv, TreeOK, InCommit
<1>6. \E total :
        /\ best' = IF total > bestBits THEN new ELSE best
        /\ bestBits' = IF total > bestBits THEN total ELSE bestBits
        /\ blocks'[new].totalBits = total
  <2> DEFINE index == Len(blockIds)
             dbBlock == dbBlocks[index + 1]
             root == dbBlock.previous = NoIndex
             previous == IF root THEN Null ELSE blockIds[dbBlock.previous + 1]
             map == IF root THEN blocks ELSE WithChild(blocks, previous, dbBlock.hash)
             total == (IF root THEN 0 ELSE blocks[previous].totalBits) + dbBlock.bits
             info == [index |-> index, height |-> dbBlock.height,
                      bits |-> dbBlock.bits, totalBits |-> total,
                      previous |-> previous, longestChain |-> FALSE, nexts |-> <<>>]
  <2>1. /\ best' = IF total > bestBits THEN new ELSE best
        /\ bestBits' = IF total > bestBits THEN total ELSE bestBits
        /\ blocks' = Insert(map, new, info)
    BY <1>3 DEF RestoreBlock, RestoreLongest
  <2>2. new \notin DOMAIN map
    <3>1. new \notin DOMAIN blocks
      BY <1>2, <1>5
    <3>2. DOMAIN map = DOMAIN blocks
      BY DEF WithChild
    <3> QED
      BY <3>1, <3>2
  <2>3. info.totalBits = total
    OBVIOUS
  <2>4. Insert(map, new, info)[new] = info
    <3> HIDE DEF map, info
    <3> QED
      BY <2>2, InsertFacts, Zenon
  <2>5. blocks'[new].totalBits = total
    <3> HIDE DEF map, info, total
    <3> QED
      BY <2>1, <2>3, <2>4
  <2> HIDE DEF map, info, total
  <2> QED
    BY <2>1, <2>5
<1>7. /\ best' = IF Work[new] > bestBits THEN new ELSE best
      /\ bestBits' = IF Work[new] > bestBits THEN Work[new] ELSE bestBits
  <2>1. new \in DOMAIN blocks'
    BY <1>2, <1>5
  <2>2. blocks'[new].totalBits = Work[new]
    BY <1>2, <2>1 DEF RecordsOK
  <2> QED
    BY <1>6, <2>2
<1>8. TipIs(best, n) /\ bestBits = Work[best]
  BY <1>1 DEF TipsOK
<1>9. TipIs(best', new) /\ bestBits' = Work[best']
  <2>1. IF Work[new] > Work[best] THEN TipIs(new, new) ELSE TipIs(best, new)
    BY <1>2, <1>8, TipGrows DEF Inv
  <2> QED
    BY <1>7, <1>8, <2>1
<1>10. TipIs(best, Len(blockIds))' /\ bestBits' = Work'[best']
  BY <1>1, <1>2, <1>4, <1>9 DEF TipIs, FirstHeaviest
<1>11. longestBlock' \in DOMAIN blocks' \cup {Null} /\ totalBits' = Work'[longestBlock']
  BY <1>1, <1>2, <1>5 DEF TipsOK
<1> QED
  BY <1>1, <1>10, <1>11 DEF TipsOK

\* A block that is read is compared with the tip.
LEMMA TipsReadBlock ==
  ASSUME Inv, Inv', TipsOK, ReadBlock
  PROVE  TipsOK'
<1>1. /\ UNCHANGED <<longestBlock, totalBits, dbBlocks, currentChain, file, starts>>
      /\ pc = "idle" /\ pc' = "process" /\ Running /\ Running' /\ LockFree
  BY DEF ReadBlock, dbVars, tipVars, Running, LockFree
<1>2. /\ DOMAIN blocks' = DOMAIN blocks
      /\ blockInfo'.longestChain = (blockInfo'.totalBits > totalBits)
  BY <1>1, ReadEffect, TreeFacts DEF Inv, Progress, TreeOK, InCommit
<1>3. Work' = Work
  BY <1>1 DEF Work
<1>4. /\ TipIs(longestBlock, Len(dbBlocks))' = TipIs(longestBlock, Len(dbBlocks))
      /\ TipIs(TipOf(currentChain), Len(dbBlocks))' = TipIs(TipOf(currentChain), Len(dbBlocks))
  BY <1>1, <1>3 DEF TipIs, FirstHeaviest, TipOf
<1> QED
  BY <1>1, <1>2, <1>3, <1>4 DEF TipsOK

\* The block of a commit is the tip if it is heavier.
LEMMA TipsFinish ==
  ASSUME Inv, Inv', RecordsOK, TipsOK, Finish
  PROVE  TipsOK'
<1> DEFINE n == Len(dbBlocks)
<1>1. /\ n \in Nat /\ hash = n + 1 /\ hash \in 1..Len(file)
      /\ DOMAIN blocks = 1..n /\ DOMAIN blocks' = 1..(n + 1)
      /\ Len(dbBlocks') = n + 1
      /\ Importing /\ pc' = "idle" /\ file' = file
  BY FinishEffect
<1>2. /\ Running /\ Running' /\ ~Importing' /\ Work' = Work
      /\ starts' = starts
      /\ longestBlock' = IF blockInfo.longestChain THEN hash ELSE longestBlock
      /\ totalBits' = IF blockInfo.longestChain THEN blockInfo.totalBits ELSE totalBits
  BY <1>1 DEF Finish, Running, Importing, Work, tipVars
<1>3. /\ blockInfo.totalBits = Work[hash]
      /\ blockInfo.longestChain <=> Work[hash] > Work[longestBlock]
      /\ totalBits = Work[longestBlock] /\ longestBlock \in DOMAIN blocks \cup {Null}
  BY <1>1 DEF RecordsOK, TipsOK
<1>4. longestBlock' \in DOMAIN blocks' \cup {Null} /\ totalBits' = Work'[longestBlock']
  BY <1>1, <1>2, <1>3
<1>5. starts' = 0 => TipIs(longestBlock', n + 1)
  <2> SUFFICES ASSUME starts = 0 PROVE TipIs(longestBlock', n + 1)
    BY <1>2
  <2>1. TipIs(longestBlock, n)
    BY <1>2 DEF TipsOK
  <2>2. n + 1 <= Len(file)
    BY <1>1
  <2>3. IF Work[n + 1] > Work[longestBlock] THEN TipIs(n + 1, n + 1)
        ELSE TipIs(longestBlock, n + 1)
    BY <1>1, <2>1, <2>2, TipGrows DEF Inv
  <2> QED
    BY <1>1, <1>2, <1>3, <2>3
<1>6. longestBlock' # Null
  <2>1. Work[hash] > 0 /\ Work[0] = 0 /\ hash # 0
    BY <1>1, WorkTypes, RecursionsHold DEF Inv, Recursions
  <2> QED
    BY <1>2, <1>3, <2>1
<1>7. starts' = 0 => TipIs(longestBlock, Len(dbBlocks))'
  BY <1>1, <1>2, <1>5 DEF TipIs, FirstHeaviest
<1> QED
  BY <1>1, <1>2, <1>4, <1>6, <1>7 DEF TipsOK

LEMMA TipsQuiet ==
  ASSUME Inv, Inv', TipsOK, Quiet
  PROVE  TipsOK'
<1>1. /\ SameRecords
      /\ UNCHANGED <<dbBlocks, longestBlock, totalBits, blockInfo>>
      /\ file' = file \/ BlockArrives
      /\ Importing' <=> Importing
  BY QuietFacts
<1>2. CASE SizeChain \/ RebuildChain \/ RestorePosition
  BY <1>2, TipsSizeChain, TipsRebuildChain, TipsRestorePosition
<1>3. CASE InnerCommit
  BY <1>3, TipsCommit
<1>4. CASE Start
  <2>1. /\ UNCHANGED <<best, bestBits, blockIds, currentChain, walk>>
        /\ ~Running /\ ~Running' /\ pc' = "restore" /\ ~LockFree' /\ starts' > 0
    BY <1>4 DEF Start, memVars, walkVars, bestVars, Running, LockFree, Inv, TypeOK
  <2> QED
    BY <1>1, <2>1, TipsSame
<1>5. CASE BlockArrives \/ UNCHANGED vars
  <2>1. /\ UNCHANGED <<best, bestBits, blockIds, currentChain, walk, starts, pc>>
        /\ (Running' <=> Running) /\ (LockFree' <=> LockFree)
    BY <1>5 DEF BlockArrives, vars, memVars, walkVars, bestVars, Running, LockFree
  <2> QED
    BY <1>1, <2>1, TipsSame
<1> QED
  BY <1>2, <1>3, <1>4, <1>5 DEF Quiet

LEMMA TipsNext ==
  ASSUME NoRescans, Inv, Inv', RecordsOK, RecordsOK', TipsOK, [Next]_vars
  PROVE  TipsOK'
<1>1. Quiet \/ Down \/ RestoreBlock \/ ReadBlock \/ Finish
  BY StepCases
<1> QED
  BY <1>1, TipsQuiet, TipsDown, TipsRestoreBlock, TipsReadBlock, TipsFinish

\* Until it is started again, and after a restore until the first import, the
\* main chain is that of the first of the heaviest blocks, for any blocks and
\* any crashes (main.cpp:374-378 and 397-406 against 557-571 and 834-942).
THEOREM AlwaysHeaviest == ASSUME NoRescans PROVE Spec => []HeaviestChain
<1>1. Inv /\ TipsOK => HeaviestChain
  <2> SUFFICES ASSUME Inv, TipsOK, pc = "idle", starts = 0 \/ longestBlock = Null
               PROVE  currentChain = Path[BestTip(Len(dbBlocks))]
    BY DEF HeaviestChain
  <2>1. PathAbove(currentChain, 0, Null) /\ longestBlock \in {Null, TipOf(currentChain)}
    BY Zenon DEF Inv, ChainOK
  <2>2. TipIs(TipOf(currentChain), Len(dbBlocks))
    BY <2>1 DEF TipsOK, Running, LockFree
  <2>3. TipOf(currentChain) = BestTip(Len(dbBlocks))
    BY <2>2, TipLengths, TipIsBest DEF Inv
  <2> QED
    BY <2>1, <2>3, ChainIsPath
<1>2. Init => TipsOK
  BY TipsInit, InvInit
<1>3. Inv /\ Inv' /\ RecordsOK /\ RecordsOK' /\ TipsOK /\ [Next]_vars => TipsOK'
  BY TipsNext
<1> QED
  BY <1>1, <1>2, <1>3, RecordsAlways, PTL DEF Spec

-----------------------------------------------------------------------------
(* The walk of a reorganisation.                                           *)

\* The new block is one above its parent, and its path is as long as that.
LEMMA HashLength ==
  ASSUME Inv, Importing
  PROVE  /\ hash \in 1..Len(file) /\ hash \notin DOMAIN blocks
         /\ blockInfo.height \in Nat /\ Len(Path[hash]) = blockInfo.height + 1
         /\ blockInfo.previous = file[hash].previous
<1> DEFINE q == file[hash].previous
<1>1. hash \in 1..Len(file) /\ hash \notin DOMAIN blocks /\ Hangs(blockInfo)
  BY ReadFacts, TreeFacts
<1>2. blockInfo.previous = q /\ blockInfo.height \in Nat
  BY DEF Inv, ImportOK, TypeOK, BlockInfo
<1>3. Len(Path[hash]) = Len(Path[q]) + 1 /\ Len(Path[q]) \in Nat
  BY <1>1, PathTypes DEF Inv
<1>4. q = Null => blockInfo.height = 0 /\ Len(Path[q]) = 0
  <2>1. q = Null => Len(Path[q]) = 0
    BY RecursionsHold DEF Inv, Recursions
  <2>2. Null \notin DOMAIN blocks
    BY HashFacts DEF Inv, TypeOK
  <2> QED
    BY <1>1, <1>2, <2>1, <2>2 DEF Hangs
<1>5. q # Null => Len(Path[q]) = blockInfo.height
  <2> SUFFICES ASSUME q # Null PROVE Len(Path[q]) = blockInfo.height
    OBVIOUS
  <2>1. q \in DOMAIN blocks /\ blockInfo.height = blocks[q].height + 1
    BY <1>1, <1>2 DEF Hangs
  <2>2. q \in 1..Len(dbBlocks) /\ blocks[q].height = dbBlocks[q].height
    BY <2>1, TreeFacts DEF Inv, TreeOK
  <2>3. Len(Path[q]) \in Nat \ {0} /\ dbBlocks[q].height = Len(Path[q]) - 1
    BY <2>2, HeightIsLength
  <2> QED
    BY <2>1, <2>2, <2>3
<1> QED
  BY <1>1, <1>2, <1>3, <1>4, <1>5

\* A block of a path that is in the tree has its height there.
LEMMA PathHeights ==
  ASSUME Inv, NEW h \in 0..Len(file), NEW i \in 1..Len(Path[h]), Path[h][i] \in DOMAIN blocks
  PROVE  blocks[Path[h][i]].height = i - 1
<1> DEFINE a == Path[h][i]
<1>1. Len(Path[a]) = i
  BY PathElements DEF Inv
<1>2. a \in 1..Len(dbBlocks) /\ blocks[a].height = dbBlocks[a].height
  BY TreeFacts DEF Inv, TreeOK
<1> QED
  BY <1>1, <1>2, HeightIsLength

\* The cursor of the walk is the parent of the block at its height.
LEMMA WalkFacts ==
  ASSUME Inv, pc = "walk"
  PROVE  /\ height \in Nat /\ PathAbove(currentChain, 0, Null)
         /\ \/ height = 0 /\ walk = Null
            \/ height > 0 /\ walk \in DOMAIN blocks /\ height = blocks[walk].height + 1
<1>1. Hangs(Lowest) /\ walk = Lowest.previous /\ height = Lowest.height
  BY TreeFacts DEF Inv, ReorganiseOK, Lowest, Importing
<1>2. height \in Nat /\ PathAbove(currentChain, 0, Null)
  BY DEF Inv, TypeOK, ChainOK
<1>3. walk \in DOMAIN blocks => blocks[walk].height \in Nat
  BY DEF Inv, TypeOK, BlockInfo
<1> QED
  BY <1>1, <1>2, <1>3 DEF Hangs

\* One step of the walk: the cursor is not on the chain, it is flagged, and the
\* block of the chain at its height loses its flag.
LEMMA WalkBackEffect ==
  ASSUME Inv, WalkBack
  PROVE  /\ pc = "walk" /\ pc' = "walk" /\ UNCHANGED <<file, currentChain, hash, blockInfo>>
         /\ height \in Nat \ {0} /\ height' = height - 1
         /\ walk \in DOMAIN blocks /\ blocks[walk].height = height - 1 /\ ~OnChain(walk)
         /\ walk' = file[walk].previous /\ toAppend' = Append(toAppend, walk)
         /\ DOMAIN blocks' = DOMAIN blocks
         /\ \A b \in DOMAIN blocks :
              blocks'[b].longestChain <=>
                b = walk \/ (blocks[b].longestChain /\ b \notin Replaced(walk))
<1>1. /\ pc = "walk" /\ pc' = "walk" /\ UNCHANGED <<file, currentChain, hash, blockInfo>>
      /\ height > 0 /\ ~OnMainChain(walk)
      /\ height' = blocks[walk].height /\ toAppend' = Append(toAppend, walk)
      /\ walk' = blocks[walk].previous /\ DOMAIN blocks' = DOMAIN blocks
  BY DEF WalkBack, importVars
<1>2. /\ height \in Nat \ {0} /\ walk \in DOMAIN blocks
      /\ blocks[walk].height = height - 1 /\ blocks[walk].height \in Nat
  <2>1. height \in Nat /\ walk \in DOMAIN blocks /\ height = blocks[walk].height + 1
    BY <1>1, WalkFacts
  <2>2. blocks[walk].height \in Nat
    BY <2>1 DEF Inv, TypeOK, BlockInfo
  <2> QED
    BY <2>1, <2>2
<1>3. blocks[walk].previous = file[walk].previous
  BY <1>2 DEF Inv, TreeOK
<1>4. ~OnChain(walk)
  <2> SUFFICES ASSUME NEW i \in 1..Len(currentChain), currentChain[i] = walk PROVE FALSE
    BY DEF OnChain
  <2>1. blocks[currentChain[i]].height = i - 1 /\ Len(currentChain) \in Nat
    BY <1>1, WalkFacts, Lengths DEF PathAbove, Inv
  <2>2. i = blocks[walk].height + 1 /\ blocks[walk].height < Len(currentChain)
    BY <1>2, <2>1
  <2> QED
    BY <1>1, <2>2 DEF OnMainChain
<1>5. ASSUME NEW b \in DOMAIN blocks
      PROVE  blocks'[b].longestChain <=>
               b = walk \/ (blocks[b].longestChain /\ b \notin Replaced(walk))
  <2> DEFINE flag == b = walk \/ (blocks[b].longestChain /\ b \notin Replaced(walk))
  <2>1. flag \in BOOLEAN /\ blocks[b] \in BlockInfo
    BY DEF Inv, TypeOK
  <2>2. blocks'[b] = [blocks[b] EXCEPT !.longestChain = flag]
    BY DEF WalkBack
  <2>3. blocks'[b].longestChain = flag
    <3> HIDE DEF flag
    <3> QED
      BY <2>1, <2>2, FlagFacts
  <2> QED
    BY <2>3
<1> QED
  BY <1>1, <1>2, <1>3, <1>4, <1>5

\* The walk ends where it is: at the height of the lowest block to put on the
\* chain.
LEMMA WalkEndsEffect ==
  ASSUME Inv, WalkEnds
  PROVE  /\ pc = "walk" /\ pc' = "undo" /\ height' = height
         /\ UNCHANGED <<file, currentChain, hash, blockInfo, blocks, toAppend>>
<1>1. /\ pc = "walk" /\ pc' = "undo"
      /\ UNCHANGED <<file, currentChain, hash, blockInfo, blocks, toAppend>>
      /\ height' = height \/ (height > 0 /\ height' = blocks[walk].height + 1)
  BY DEF WalkEnds, importVars, memVars, AboveCommon
<1>2. height > 0 => height = blocks[walk].height + 1
  BY <1>1, WalkFacts
<1> QED
  BY <1>1, <1>2

\* What the undo removes is the last block of the chain, and it stops with the
\* chain as long as the common part.
LEMMA UndoEffect ==
  ASSUME Inv, UndoBlock \/ UndoEnds
  PROVE  /\ pc = "undo" /\ UNCHANGED <<file, hash, blockInfo, blocks, toAppend>>
         /\ Len(currentChain) \in Nat /\ Len(currentChain') \in Nat
         /\ Len(currentChain') <= Len(currentChain) /\ height \in Nat
         /\ \A i \in 1..Len(currentChain') : currentChain'[i] = currentChain[i]
         /\ UndoBlock => /\ pc' = "undo" /\ height' = height
                         /\ Len(currentChain) > height
                         /\ Len(currentChain') = Len(currentChain) - 1
         /\ UndoEnds => /\ pc' = "redo" /\ Len(currentChain) = height
                        /\ Len(currentChain') = height
<1>1. pc = "undo" /\ UNCHANGED <<file, hash, blockInfo, blocks, toAppend>>
  BY DEF UndoBlock, UndoEnds, importVars, walkVars
<1>2. /\ Len(currentChain) \in Nat /\ height \in Nat /\ height <= Len(currentChain)
      /\ currentChain \in Seq(Hash \cup {Null})
  BY <1>1, Lengths DEF Inv, TypeOK, ReorganiseOK
<1>3. CASE UndoBlock
  <2>1. /\ Len(currentChain) > height /\ currentChain' = AllButLast(currentChain)
        /\ pc' = "undo" /\ height' = height
    BY <1>3 DEF UndoBlock, walkVars
  <2>2. /\ Len(currentChain') = Len(currentChain) - 1
        /\ \A i \in 1..(Len(currentChain) - 1) : currentChain'[i] = currentChain[i]
    <3>1. Len(currentChain) > 0
      BY <1>2, <2>1
    <3> QED
      BY <1>2, <2>1, <3>1, AllButLastFacts
  <2>3. ~UndoEnds
    BY <1>3 DEF UndoBlock, UndoEnds
  <2> QED
    BY <1>1, <1>2, <2>1, <2>2, <2>3
<1>4. CASE UndoEnds
  <2>1. /\ pc' = "redo" /\ Len(currentChain) <= height
        /\ currentChain' = [i \in 1..height |->
                              IF i <= Len(currentChain) THEN currentChain[i] ELSE Null]
    BY <1>4 DEF UndoEnds
  <2>2. Len(currentChain) = height /\ Len(currentChain') = height
    BY <1>2, <2>1
  <2>3. \A i \in 1..height : currentChain'[i] = currentChain[i]
    BY <1>2, <2>1, <2>2
  <2>4. ~UndoBlock
    BY <1>4 DEF UndoBlock, UndoEnds
  <2> QED
    BY <1>1, <1>2, <2>1, <2>2, <2>3, <2>4
<1> QED
  BY <1>3, <1>4

\* No block of the path to the new block from the cursor on is on the chain.
UndoOK ==
  /\ pc \in {"walk", "undo"} =>
       \A i \in (height + 1)..Len(Path[hash]) : ~OnChain(Path[hash][i])
  /\ pc = "walk" /\ height > 0 => height <= Len(Path[hash]) /\ Path[hash][height] = walk

\* The commit starts with a reorganisation at the parent of the new block.
LEMMA UndoBegins ==
  ASSUME Inv, Inv', BeginCommit, pc' = "walk"
  PROVE  UndoOK'
<1>1. /\ walk' = blockInfo.previous /\ height' = blockInfo.height
      /\ UNCHANGED <<file, currentChain, hash, blocks>> /\ Importing /\ pc = "process"
  BY DEF BeginCommit, importVars, Importing
<1> DEFINE l == Len(Path[hash])
<1>2. /\ hash \in 1..Len(file) /\ hash \notin DOMAIN blocks
      /\ height' \in Nat /\ l = height' + 1 /\ walk' = file[hash].previous
  BY <1>1, HashLength
<1>3. Path' = Path
  BY <1>1 DEF Path
<1>4. Path[hash][l] = hash
  BY <1>2, PathTypes DEF Inv
<1>5. ~OnChain(hash)
  BY <1>1, <1>2, Lengths DEF OnChain, PathAbove, Inv, ChainOK
<1>6. height' > 0 => Path[hash][height'] = walk'
  <2> SUFFICES ASSUME height' > 0 PROVE Path[hash][height'] = walk'
    OBVIOUS
  <2>1. l \in 1..l /\ l # 1 /\ l - 1 = height' /\ hash \in 0..Len(file)
    <3>1. Len(file) \in Nat
      BY TipLengths
    <3>2. hash \in 0..Len(file)
      BY <1>2, <3>1
    <3>3. l = height' + 1 /\ height' \in Nat
      BY <1>2
    <3>4. \A m, n \in Nat : m = n + 1 /\ n > 0 => m \in 1..m /\ m # 1 /\ m - 1 = n
      OBVIOUS
    <3>5. l \in Nat
      <4>1. \A n \in Nat : n + 1 \in Nat
        OBVIOUS
      <4> QED
        BY <3>3, <4>1, Zenon
    <3>6. l \in 1..l /\ l # 1 /\ l - 1 = height'
      BY <3>3, <3>4, <3>5, Zenon
    <3> QED
      BY <3>2, <3>6
  <2>2. file[Path[hash][l]].previous = IF l = 1 THEN 0 ELSE Path[hash][l - 1]
    <3> HIDE DEF l
    <3>1. l = Len(Path[hash])
      BY DEF l
    <3> QED
      BY <2>1, <3>1, PathElements DEF Inv
  <2> QED
    BY <1>2, <1>4, <2>1, <2>2
<1>7. \A i \in (height' + 1)..l : i = l
  BY <1>2
<1>8. OnChain(hash)' = OnChain(hash)
  BY <1>1 DEF OnChain
<1>9. \A i \in (height' + 1)..Len(Path'[hash']) : ~OnChain(Path[hash][i])'
  BY <1>1, <1>3, <1>4, <1>5, <1>7 DEF OnChain
<1>10. height' > 0 => height' <= Len(Path'[hash']) /\ Path'[hash'][height'] = walk'
  BY <1>1, <1>2, <1>3, <1>6
<1> QED
  BY <1>9, <1>10 DEF UndoOK

LEMMA UndoWalkBack ==
  ASSUME Inv, Inv', UndoOK, WalkBack
  PROVE  UndoOK'
<1>1. /\ pc = "walk" /\ pc' = "walk" /\ UNCHANGED <<file, currentChain, hash>>
      /\ height \in Nat \ {0} /\ height' = height - 1
      /\ walk \in DOMAIN blocks /\ ~OnChain(walk) /\ walk' = file[walk].previous
  BY WalkBackEffect
<1> DEFINE l == Len(Path[hash])
<1>2. Path' = Path
  BY <1>1 DEF Path
<1>3. hash \in 0..Len(file) /\ l \in Nat
  BY <1>1, HashLength DEF Importing
<1>4. height \in 1..l /\ Path[hash][height] = walk
  BY <1>1, <1>3 DEF UndoOK
<1>5. \A i \in (height' + 1)..l : ~OnChain(Path[hash][i])
  <2>1. \A i \in (height' + 1)..l : i = height \/ i \in (height + 1)..l
    BY <1>1, <1>3
  <2>2. \A i \in (height + 1)..l : ~OnChain(Path[hash][i])
    BY <1>1 DEF UndoOK
  <2> QED
    BY <1>1, <1>4, <2>1, <2>2
<1>6. height' > 0 => height' <= l /\ Path[hash][height'] = walk'
  <2>1. file[Path[hash][height]].previous =
          IF height = 1 THEN 0 ELSE Path[hash][height - 1]
    BY <1>3, <1>4, PathElements DEF Inv
  <2> QED
    BY <1>1, <1>3, <1>4, <2>1
<1>7. \A i \in (height' + 1)..Len(Path'[hash']) : ~OnChain(Path[hash][i])'
  BY <1>1, <1>2, <1>5 DEF OnChain
<1> QED
  BY <1>1, <1>2, <1>6, <1>7 DEF UndoOK

\* Steps that do not walk: they shorten the chain, or leave it.
LEMMA UndoShorter ==
  ASSUME Inv, Inv', UndoOK, file' = file \/ BlockArrives, UNCHANGED hash,
         pc \in {"walk", "undo"}, pc' \in {pc, "undo"}, height' = height,
         pc' = "walk" => UNCHANGED walk,
         Len(currentChain) \in Nat, Len(currentChain') \in Nat,
         Len(currentChain') <= Len(currentChain),
         \A i \in 1..Len(currentChain') : currentChain'[i] = currentChain[i]
  PROVE  UndoOK'
<1>1. hash \in 1..Len(file) /\ Len(file) \in Nat
  BY ReadFacts, Ancestry DEF Inv, Importing
<1>2. Path'[hash'] = Path[hash]
  BY <1>1, HistoryKept DEF Inv
<1>3. \A b : OnChain(b)' => OnChain(b)
  BY DEF OnChain
<1>4. \A i \in (height' + 1)..Len(Path'[hash']) : ~OnChain(Path[hash][i])'
  BY <1>2, <1>3 DEF UndoOK, OnChain
<1> QED
  BY <1>2, <1>4 DEF UndoOK

LEMMA UndoNext ==
  ASSUME NoRescans, Inv, Inv', UndoOK, [Next]_vars
  PROVE  UndoOK'
<1>1. CASE pc' \notin {"walk", "undo"}
  BY <1>1 DEF UndoOK
<1>2. CASE BeginCommit
  BY <1>1, <1>2, UndoBegins DEF BeginCommit
<1>3. CASE WalkBack
  BY <1>3, UndoWalkBack
<1>4. CASE WalkEnds
  <2>1. /\ pc = "walk" /\ pc' = "undo" /\ height' = height
        /\ UNCHANGED <<file, currentChain, hash>> /\ Len(currentChain) \in Nat
    BY <1>4, WalkEndsEffect, Lengths DEF Inv
  <2> QED
    BY <2>1, UndoShorter
<1>5. CASE UndoBlock
  BY <1>5, UndoEffect, UndoShorter
<1>6. CASE BlockArrives \/ UNCHANGED vars
  <2>1. /\ UNCHANGED <<currentChain, hash, height, walk, pc>>
        /\ file' = file \/ BlockArrives
    BY <1>6 DEF BlockArrives, vars, memVars, importVars, walkVars
  <2>2. Len(currentChain) \in Nat
    BY Lengths DEF Inv
  <2> QED
    BY <1>1, <2>1, <2>2, UndoShorter
<1>7. CASE pc' \in {"walk", "undo"} /\ ~BeginCommit /\ ~WalkBack /\ ~WalkEnds /\ ~UndoBlock
           /\ ~BlockArrives /\ ~UNCHANGED vars
  BY <1>7, StepCases DEF Quiet, InnerCommit, Down, Start, SizeChain, RebuildChain,
    RestorePosition, UndoEnds, RedoBlock, RestoreBlock, ReadBlock, Finish, readVars
<1> QED
  BY <1>1, <1>2, <1>3, <1>4, <1>5, <1>6, <1>7

\* A reorganisation takes no block off the main chain that is an ancestor of
\* the new block, for any blocks, crashes and restarts: nothing is undone that
\* would have to be done again (main.cpp:834-925).
THEOREM NeverUndoneInVain == ASSUME NoRescans PROVE Spec => NoNeedlessUndo
<1>1. Init => UndoOK
  BY DEF Init, UndoOK
<1>2. Inv /\ Inv' /\ UndoOK /\ [Next]_vars => UndoOK'
  BY UndoNext
<1>3. Inv /\ UndoOK /\ [Next]_vars =>
        [pc = "undo" /\ pc' = "undo" /\ currentChain' # currentChain =>
           \A i \in 1..Len(Path[hash]) :
              Path[hash][i] # currentChain[Len(currentChain)]]_vars
  <2> SUFFICES ASSUME Inv, UndoOK, [Next]_vars, pc = "undo", pc' = "undo",
                      currentChain' # currentChain, NEW i \in 1..Len(Path[hash]),
                      Path[hash][i] = currentChain[Len(currentChain)]
               PROVE  FALSE
    OBVIOUS
  <2>1. UndoBlock
    BY StepCases DEF Quiet, InnerCommit, Down, Start, SizeChain, RebuildChain,
      RestorePosition, BeginCommit, WalkBack, WalkEnds, UndoEnds, RedoBlock, RestoreBlock,
      ReadBlock, Finish, BlockArrives, vars, memVars
  <2> DEFINE len == Len(currentChain)
  <2>2. len \in Nat /\ len > height /\ height \in Nat
    BY <2>1, UndoEffect
  <2>3. PathAbove(currentChain, 0, Null) /\ len \in 1..len
    BY <2>2 DEF Inv, ChainOK
  <2>4. currentChain[len] \in DOMAIN blocks /\ blocks[currentChain[len]].height = len - 1
    BY <2>3 DEF PathAbove
  <2>5. hash \in 0..Len(file) /\ Len(Path[hash]) \in Nat
    BY HashLength DEF Importing
  <2>6. blocks[Path[hash][i]].height = i - 1
    BY <2>4, <2>5, PathHeights
  <2>7. i \in (height + 1)..Len(Path[hash])
    BY <2>2, <2>4, <2>5, <2>6
  <2>8. ~OnChain(Path[hash][i])
    BY <2>7 DEF UndoOK
  <2> QED
    BY <2>3, <2>8 DEF OnChain
<1> QED
  BY <1>1, <1>2, <1>3, InvAlways, PTL DEF Spec, NoNeedlessUndo

-----------------------------------------------------------------------------
(* The flags of the main chain.                                            *)

Flagged(b) == blocks[b].longestChain

\* The blocks of the main chain are flagged, but for those that the restore has
\* not come to yet, and those that a reorganisation replaces; and so are the
\* blocks that it puts in their place.
FlagsOK ==
  /\ \A i \in 1..Len(currentChain) :
       \/ pc = "rebuild" /\ walk # Null /\ i <= blocks[walk].height + 1
       \/ pc \in {"walk", "undo"} /\ i > height
       \/ Flagged(currentChain[i])
  /\ \A j \in 1..Len(toAppend) :
       Flagged(toAppend[j]) /\ (pc = "walk" => blocks[toAppend[j]].height >= height)

\* Steps that touch neither flags nor chains.
LEMMA FlagsSame ==
  ASSUME Inv, FlagsOK, UNCHANGED <<currentChain, toAppend>>,
         DOMAIN blocks \subseteq DOMAIN blocks',
         \A b \in DOMAIN blocks : /\ blocks'[b].longestChain = blocks[b].longestChain
                                  /\ blocks'[b].height = blocks[b].height,
         pc' = "rebuild" => pc = "rebuild" /\ UNCHANGED walk,
         pc' = "walk" => pc = "walk" \/ toAppend = <<>>,
         pc = "walk" => pc' \in {"walk", "undo"},
         pc = "undo" => pc' = "undo",
         pc = "rebuild" => pc' = "rebuild" \/ walk = Null,
         pc \in {"walk", "undo"} => height' = height
  PROVE  FlagsOK'
<1>1. /\ Len(toAppend) \in Nat /\ Len(currentChain) \in Nat
      /\ pc # "rebuild" => \A i \in 1..Len(currentChain) : currentChain[i] \in DOMAIN blocks
      /\ \A j \in 1..Len(toAppend) : toAppend[j] \in DOMAIN blocks
  BY Lengths DEF Inv, ChainOK, PathAbove, ReorganiseOK
<1>2. ASSUME NEW i \in 1..Len(currentChain')
      PROVE  \/ pc' = "rebuild" /\ walk' # Null /\ i <= blocks'[walk'].height + 1
             \/ pc' \in {"walk", "undo"} /\ i > height'
             \/ Flagged(currentChain[i])'
  <2>1. \/ pc = "rebuild" /\ walk # Null /\ i <= blocks[walk].height + 1
        \/ pc \in {"walk", "undo"} /\ i > height
        \/ Flagged(currentChain[i])
    BY DEF FlagsOK
  <2>2. CASE pc = "rebuild" /\ walk # Null /\ i <= blocks[walk].height + 1
    <3>1. walk \in DOMAIN blocks /\ pc' = "rebuild" /\ walk' = walk
      BY <2>2 DEF Inv, RebuildOK
    <3> QED
      BY <2>2, <3>1
  <2>3. CASE pc \in {"walk", "undo"} /\ i > height
    BY <2>3
  <2>4. CASE Flagged(currentChain[i]) /\ pc # "rebuild"
    BY <1>1, <2>4 DEF Flagged
  <2>5. CASE Flagged(currentChain[i]) /\ pc = "rebuild"
             /\ ~(walk # Null /\ i <= blocks[walk].height + 1)
    <3>1. currentChain[i] \in DOMAIN blocks
      <4> DEFINE k == IF walk = Null THEN 0 ELSE blocks[walk].height + 1
      <4>1. k \in Nat
        BY <2>5, SMTT(30) DEF Inv, RebuildOK, TypeOK, BlockInfo
      <4>2. PathAbove(currentChain, k, walk)
        BY <2>5 DEF Inv, RebuildOK
      <4>3. i \in (k + 1)..Len(currentChain)
        BY <1>1, <2>5, <4>1
      <4> HIDE DEF k
      <4> QED
        BY <4>2, <4>3 DEF PathAbove
    <3> QED
      BY <2>5, <3>1 DEF Flagged
  <2> QED
    BY <2>1, <2>2, <2>3, <2>4, <2>5
<1>3. ASSUME NEW j \in 1..Len(toAppend')
      PROVE  /\ Flagged(toAppend[j])'
             /\ pc' = "walk" => blocks'[toAppend'[j]].height >= height'
  <2>1. toAppend # <<>>
    BY <1>3
  <2> QED
    BY <1>1, <2>1 DEF FlagsOK, Flagged
<1> QED
  BY <1>2, <1>3 DEF FlagsOK

\* One block of the chain less to flag.
LEMMA FlagsRebuildChain ==
  ASSUME Inv, Inv', FlagsOK, RebuildChain
  PROVE  FlagsOK'
<1> DEFINE k == blocks[walk].height + 1
           len == Len(currentChain)
<1>1. /\ UNCHANGED <<toAppend, height, pc>> /\ pc = "rebuild"
      /\ walk \in DOMAIN blocks /\ walk' = blocks[walk].previous
      /\ currentChain' = [currentChain EXCEPT ![k] = walk]
      /\ blocks' = [blocks EXCEPT ![walk].longestChain = TRUE]
  BY DEF RebuildChain
<1>2. SameRecords
  BY <1>1, QuietFacts DEF Quiet, RebuildChain
<1>3. \A b \in DOMAIN blocks : Flagged(b)' <=> (b = walk \/ Flagged(b))
  <2> SUFFICES ASSUME NEW b \in DOMAIN blocks PROVE Flagged(b)' <=> (b = walk \/ Flagged(b))
    OBVIOUS
  <2>1. blocks[b] \in BlockInfo
    BY DEF Inv, TypeOK
  <2>2. blocks'[b] = IF b = walk THEN [blocks[b] EXCEPT !.longestChain = TRUE] ELSE blocks[b]
    BY <1>1
  <2> QED
    BY <2>1, <2>2, FlagFacts DEF Flagged
<1>4. /\ walk # Null /\ Null \notin DOMAIN blocks /\ k \in 1..len /\ len \in Nat
      /\ PathAbove(currentChain, k, walk)
  <2>1. Null \notin DOMAIN blocks
    BY HashFacts DEF Inv, TypeOK
  <2>2. blocks[walk].height \in Nat /\ len \in Nat
    BY <1>1, Lengths DEF Inv, TypeOK, BlockInfo
  <2> QED
    BY <1>1, <2>1, <2>2 DEF Inv, RebuildOK
<1>5. k - 1 = IF walk' = Null THEN 0 ELSE blocks'[walk'].height + 1
  <2>1. Hangs(blocks[walk]) /\ blocks[walk].height \in Nat
    BY <1>1, TreeFacts DEF Inv, TypeOK, BlockInfo
  <2> QED
    BY <1>1, <1>2, <1>4, <2>1 DEF Hangs, SameRecords
<1>6. /\ Len(currentChain') = len
      /\ \A i \in 1..len : currentChain'[i] = IF i = k THEN walk ELSE currentChain[i]
  <2>1. currentChain \in Seq(Hash \cup {Null}) /\ walk \in Hash \cup {Null}
    BY DEF Inv, TypeOK
  <2> QED
    BY <1>1, <1>4, <2>1, ExceptSeq
<1>7. ASSUME NEW i \in 1..len
      PROVE  \/ walk' # Null /\ i <= blocks'[walk'].height + 1
             \/ Flagged(currentChain[i])'
  <2>1. CASE i < k
    BY <1>4, <1>5, <2>1
  <2>2. CASE i = k
    <3>1. currentChain'[i] = walk
      BY <1>6, <2>2
    <3>2. blocks'[walk].longestChain
      BY <1>1, <1>3 DEF Flagged
    <3>3. blocks'[currentChain'[i]].longestChain
      BY <3>1, <3>2
    <3> QED
      BY <3>3 DEF Flagged
  <2>3. CASE i > k
    <3>1. currentChain'[i] = currentChain[i]
      BY <1>4, <1>6, <2>3
    <3>2. Flagged(currentChain[i])
      BY <1>1, <1>4, <2>3 DEF FlagsOK
    <3>3. currentChain[i] \in DOMAIN blocks
      BY <1>4, <2>3 DEF PathAbove
    <3> QED
      BY <1>3, <3>1, <3>2, <3>3 DEF Flagged
  <2> QED
    BY <1>4, <2>1, <2>2, <2>3
<1>8. toAppend' = <<>> /\ Len(toAppend') = 0
  BY <1>1 DEF Inv, ReorganiseOK, InCommit
<1> QED
  BY <1>1, <1>6, <1>7, <1>8 DEF FlagsOK

\* The cursor is flagged in the place of a block above the common one.
LEMMA FlagsWalkBack ==
  ASSUME Inv, Inv', FlagsOK, WalkBack
  PROVE  FlagsOK'
<1>1. /\ pc = "walk" /\ pc' = "walk" /\ UNCHANGED currentChain
      /\ height \in Nat \ {0} /\ height' = height - 1
      /\ walk \in DOMAIN blocks /\ blocks[walk].height = height - 1
      /\ toAppend' = Append(toAppend, walk)
      /\ \A b \in DOMAIN blocks :
           Flagged(b)' <=> b = walk \/ (Flagged(b) /\ b \notin Replaced(walk))
  BY WalkBackEffect DEF Flagged
<1>2. SameRecords
  BY QuietFacts DEF Quiet, InnerCommit, WalkBack
<1>3. /\ PathAbove(currentChain, 0, Null) /\ Len(currentChain) \in Nat
      /\ Len(toAppend) \in Nat
      /\ \A j \in 1..Len(toAppend) : toAppend[j] \in DOMAIN blocks
  BY <1>1, Lengths DEF Inv, ChainOK, ReorganiseOK
<1>4. \A b \in Replaced(walk) : b \in DOMAIN blocks /\ blocks[b].height = height - 1
                                /\ height <= Len(currentChain) /\ b = currentChain[height]
  <2> SUFFICES ASSUME NEW b \in Replaced(walk)
               PROVE  b \in DOMAIN blocks /\ blocks[b].height = height - 1
                      /\ height <= Len(currentChain) /\ b = currentChain[height]
    OBVIOUS
  <2>1. blocks[walk].height < Len(currentChain) /\ b = currentChain[blocks[walk].height + 1]
    BY DEF Replaced
  <2>2. b = currentChain[height] /\ height \in 1..Len(currentChain)
    BY <1>1, <1>3, <2>1
  <2> QED
    BY <1>3, <2>2 DEF PathAbove
<1>5. ASSUME NEW i \in 1..Len(currentChain')
      PROVE  i > height' \/ Flagged(currentChain[i])'
  <2>1. CASE i <= height - 1
    <3>1. currentChain[i] \in DOMAIN blocks /\ blocks[currentChain[i]].height = i - 1
      BY <1>1, <1>3 DEF PathAbove
    <3>2. currentChain[i] \notin Replaced(walk)
      BY <1>1, <1>4, <2>1, <3>1
    <3>3. Flagged(currentChain[i])
      BY <1>1, <2>1 DEF FlagsOK
    <3> QED
      BY <1>1, <3>1, <3>2, <3>3 DEF Flagged
  <2> QED
    BY <1>1, <1>3, <2>1
<1>6. ASSUME NEW j \in 1..Len(toAppend')
      PROVE  Flagged(toAppend[j])' /\ blocks'[toAppend'[j]].height >= height'
  <2>1. toAppend \in Seq(Hash) /\ walk \in Hash
    BY <1>1 DEF Inv, TypeOK
  <2>2. CASE j = Len(toAppend) + 1
    <3>1. toAppend'[j] = walk
      BY <1>1, <2>1, <2>2, AppendProperties
    <3> QED
      BY <1>1, <1>2, <3>1 DEF Flagged, SameRecords
  <2>3. CASE j # Len(toAppend) + 1
    <3>1. j \in 1..Len(toAppend)
      BY <1>1, <1>3, <2>1, <2>3, AppendProperties
    <3>2. toAppend'[j] = toAppend[j] /\ toAppend[j] \in DOMAIN blocks
      BY <1>1, <1>3, <2>1, <3>1, AppendProperties
    <3>3. Flagged(toAppend[j]) /\ blocks[toAppend[j]].height >= height
      BY <1>1, <3>1 DEF FlagsOK
    <3>4. blocks[toAppend[j]].height \in Nat
      BY <3>2 DEF Inv, TypeOK, BlockInfo
    <3>5. toAppend[j] \notin Replaced(walk)
      BY <1>1, <1>4, <3>3, <3>4
    <3>6. blocks'[toAppend[j]].height = blocks[toAppend[j]].height
      BY <1>2, <3>2 DEF SameRecords
    <3> QED
      BY <1>1, <3>2, <3>3, <3>4, <3>5, <3>6 DEF Flagged
  <2> QED
    BY <2>2, <2>3
<1> QED
  BY <1>1, <1>5, <1>6 DEF FlagsOK

\* What leaves the chain is above the common part, and that is flagged.
LEMMA FlagsUndo ==
  ASSUME Inv, Inv', FlagsOK, UndoBlock \/ UndoEnds
  PROVE  FlagsOK'
<1>1. /\ pc = "undo" /\ UNCHANGED <<blocks, toAppend>>
      /\ Len(currentChain) \in Nat /\ Len(currentChain') \in Nat
      /\ Len(currentChain') <= Len(currentChain) /\ height \in Nat
      /\ \A i \in 1..Len(currentChain') : currentChain'[i] = currentChain[i]
      /\ UndoBlock => pc' = "undo" /\ height' = height
      /\ UndoEnds => pc' = "redo" /\ Len(currentChain) = height
  BY UndoEffect
<1>2. ASSUME NEW i \in 1..Len(currentChain')
      PROVE  (pc' = "undo" /\ i > height') \/ Flagged(currentChain[i])'
  <2>1. i \in 1..Len(currentChain) /\ currentChain'[i] = currentChain[i]
    BY <1>1
  <2>2. i > height \/ Flagged(currentChain[i])
    BY <1>1, <2>1 DEF FlagsOK
  <2>3. CASE i > height
    BY <1>1, <2>1, <2>3
  <2>4. CASE Flagged(currentChain[i])
    BY <1>1, <2>1, <2>4 DEF Flagged
  <2> QED
    BY <2>2, <2>3, <2>4
<1>3. \A j \in 1..Len(toAppend') : Flagged(toAppend[j])'
  BY <1>1 DEF FlagsOK, Flagged
<1> QED
  BY <1>1, <1>2, <1>3 DEF FlagsOK

\* What joins the chain is the last block of the walk.
LEMMA RedoEffect ==
  ASSUME Inv, RedoBlock
  PROVE  LET len == Len(currentChain)
             l   == Len(toAppend)
         IN /\ pc = "redo" /\ pc' = "redo" /\ UNCHANGED <<file, blocks, hash, blockInfo>>
            /\ len \in Nat /\ l \in Nat \ {0}
            /\ Len(currentChain') = len + 1 /\ currentChain'[len + 1] = toAppend[l]
            /\ \A i \in 1..len : currentChain'[i] = currentChain[i]
            /\ Len(toAppend') = l - 1
            /\ \A j \in 1..(l - 1) : toAppend'[j] = toAppend[j]
<1> DEFINE len == Len(currentChain)
           l == Len(toAppend)
<1>1. /\ pc = "redo" /\ pc' = "redo" /\ UNCHANGED <<file, blocks, hash, blockInfo>>
      /\ toAppend # <<>> /\ currentChain' = Append(currentChain, toAppend[l])
      /\ toAppend' = AllButLast(toAppend)
  BY DEF RedoBlock, importVars
<1>2. /\ len \in Nat /\ currentChain \in Seq(Hash \cup {Null})
      /\ toAppend \in Seq(Hash) /\ l \in Nat /\ l > 0
  BY <1>1, Lengths DEF Inv, TypeOK
<1>3. toAppend[l] \in Hash \cup {Null}
  BY <1>2
<1>4. /\ Len(currentChain') = len + 1 /\ currentChain'[len + 1] = toAppend[l]
      /\ \A i \in 1..len : currentChain'[i] = currentChain[i]
  BY <1>1, <1>2, <1>3, AppendProperties
<1>5. Len(toAppend') = l - 1 /\ \A j \in 1..(l - 1) : toAppend'[j] = toAppend[j]
  BY <1>1, <1>2, AllButLastFacts
<1> QED
  BY <1>1, <1>2, <1>4, <1>5

LEMMA FlagsRedo ==
  ASSUME Inv, Inv', FlagsOK, RedoBlock
  PROVE  FlagsOK'
<1> DEFINE len == Len(currentChain)
           l == Len(toAppend)
<1>1. /\ pc = "redo" /\ pc' = "redo" /\ blocks' = blocks
      /\ len \in Nat /\ l \in Nat \ {0}
      /\ Len(currentChain') = len + 1 /\ currentChain'[len + 1] = toAppend[l]
      /\ \A i \in 1..len : currentChain'[i] = currentChain[i]
      /\ Len(toAppend') = l - 1
      /\ \A j \in 1..(l - 1) : toAppend'[j] = toAppend[j]
  BY RedoEffect
<1>2. ASSUME NEW i \in 1..(len + 1) PROVE Flagged(currentChain[i])'
  <2>1. CASE i = len + 1
    BY <1>1, <2>1 DEF FlagsOK, Flagged
  <2>2. CASE i \in 1..len
    BY <1>1, <2>2 DEF FlagsOK, Flagged
  <2> QED
    BY <1>1, <2>1, <2>2
<1>3. \A j \in 1..(l - 1) : Flagged(toAppend[j])'
  BY <1>1 DEF FlagsOK, Flagged
<1> QED
  BY <1>1, <1>2, <1>3 DEF FlagsOK

\* What the end of a commit does to the chain.
LEMMA FinishChain ==
  ASSUME Inv, Finish
  PROVE  /\ Len(currentChain) \in Nat /\ toAppend = <<>> /\ toAppend' = <<>>
         /\ \A i \in 1..Len(currentChain) : currentChain'[i] = currentChain[i]
         /\ IF blockInfo.longestChain
            THEN /\ Len(currentChain') = Len(currentChain) + 1
                 /\ currentChain'[Len(currentChain) + 1] = hash
            ELSE Len(currentChain') = Len(currentChain)
<1>1. /\ toAppend = <<>> /\ toAppend' = <<>>
      /\ currentChain' = IF blockInfo.longestChain THEN Append(currentChain, hash)
                         ELSE currentChain
  BY DEF Finish, walkVars
<1>2. currentChain \in Seq(Hash \cup {Null}) /\ hash \in Hash \cup {Null}
      /\ Len(currentChain) \in Nat
  BY Lengths DEF Inv, TypeOK
<1> QED
  BY <1>1, <1>2, AppendProperties

LEMMA FlagsFinish ==
  ASSUME Inv, Inv', FlagsOK, Finish
  PROVE  FlagsOK'
<1> DEFINE n == Len(dbBlocks)
           len == Len(currentChain)
<1>1. /\ n \in Nat /\ hash = n + 1 /\ DOMAIN blocks = 1..n
      /\ blocks'[hash] = blockInfo /\ \A h \in 1..n : blocks'[h] = blocks[h]
      /\ pc' = "idle" /\ pc = "redo"
  BY FinishEffect DEF Finish
<1>2. /\ len \in Nat /\ toAppend' = <<>> /\ Len(toAppend') = 0
      /\ \A i \in 1..len : currentChain'[i] = currentChain[i]
      /\ IF blockInfo.longestChain
         THEN Len(currentChain') = len + 1 /\ currentChain'[len + 1] = hash
         ELSE Len(currentChain') = len
  BY FinishChain
<1>3. ASSUME NEW i \in 1..Len(currentChain') PROVE Flagged(currentChain[i])'
  <2>1. CASE i \in 1..len
    <3>1. Flagged(currentChain[i]) /\ currentChain[i] \in 1..n
      BY <1>1, <1>2, <2>1 DEF FlagsOK, Inv, ChainOK, PathAbove
    <3> QED
      BY <1>1, <1>2, <2>1, <3>1 DEF Flagged
  <2>2. CASE i \notin 1..len
    <3>1. blockInfo.longestChain /\ i = len + 1
      BY <1>2, <2>2
    <3> QED
      BY <1>1, <1>2, <3>1 DEF Flagged
  <2> QED
    BY <2>1, <2>2
<1> QED
  BY <1>1, <1>2, <1>3 DEF FlagsOK

\* A read flags no block, and takes no flag away.
LEMMA FlagsRead ==
  ASSUME Inv, ReadBlock
  PROVE  /\ DOMAIN blocks' = DOMAIN blocks
         /\ \A b \in DOMAIN blocks : /\ blocks'[b].longestChain = blocks[b].longestChain
                                     /\ blocks'[b].height = blocks[b].height
<1> DEFINE new == Len(dbBlocks) + 1
           q == file[new].previous
<1>1. q # Null => q \in DOMAIN blocks
  BY ReadEffect
<1>2. PICK known :
        /\ DOMAIN known = DOMAIN blocks
        /\ \A h \in DOMAIN blocks : known[h] = blocks[h]
        /\ blocks' = IF q = Null THEN blocks ELSE WithChild(known, q, new)
  BY ReadEffect
<1>3. CASE q = Null
  BY <1>2, <1>3
<1>4. CASE q # Null
  <2> DEFINE child == [known[q] EXCEPT !.nexts = Append(@, new)]
  <2>1. blocks' = [known EXCEPT ![q] = child]
    BY <1>2, <1>4 DEF WithChild
  <2>2. known[q] \in BlockInfo /\ known[q] = blocks[q] /\ q \in DOMAIN known
    BY <1>1, <1>2, <1>4 DEF Inv, TypeOK
  <2>3. child.longestChain = known[q].longestChain /\ child.height = known[q].height
    BY <2>2 DEF BlockInfo
  <2> HIDE DEF child
  <2> QED
    BY <1>2, <2>1, <2>2, <2>3
<1> QED
  BY <1>3, <1>4

LEMMA FlagsNext ==
  ASSUME NoRescans, Inv, Inv', FlagsOK, [Next]_vars
  PROVE  FlagsOK'
<1>1. CASE pc' \in {"down", "restore"}
  <2>1. /\ currentChain' = <<>> /\ toAppend' = <<>>
        /\ Len(currentChain') = 0 /\ Len(toAppend') = 0
    BY <1>1 DEF Inv, ChainOK, ReorganiseOK, InCommit
  <2> QED
    BY <2>1 DEF FlagsOK
<1>2. CASE SizeChain
  <2>1. /\ pc' = "rebuild" /\ walk' = best /\ blocks' = blocks /\ toAppend' = toAppend
        /\ pc = "restore"
    BY <1>2 DEF SizeChain
  <2>2. toAppend' = <<>> /\ Len(toAppend') = 0
    BY <2>1 DEF Inv, ReorganiseOK, InCommit
  <2>3. walk' \in DOMAIN blocks' \cup {Null} /\ Null \notin DOMAIN blocks
    BY <2>1, HashFacts DEF Inv, RebuildOK, TypeOK
  <2>4. CASE walk' = Null
    <3>1. currentChain' = <<>> /\ Len(currentChain') = 0
      BY <1>2, <2>1, <2>3, <2>4 DEF SizeChain
    <3> QED
      BY <2>2, <3>1 DEF FlagsOK
  <2>5. CASE walk' # Null
    <3> DEFINE k == blocks[best].height + 1
    <3>1. best \in DOMAIN blocks /\ k \in Nat
      <4>1. best \in DOMAIN blocks
        BY <2>1, <2>3, <2>5
      <4>2. blocks[best] \in BlockInfo
        BY <4>1 DEF Inv, TypeOK
      <4> QED
        BY <4>1, <4>2 DEF BlockInfo
    <3>2. currentChain' = [i \in 1..k |-> Null]
      BY <1>2, <3>1 DEF SizeChain
    <3>3. Len(currentChain') = k
      <4> HIDE DEF k
      <4> QED
        BY <3>1, <3>2
    <3>4. \A i \in 1..Len(currentChain') : i <= blocks'[walk'].height + 1
      BY <2>1, <3>1, <3>3
    <3> QED
      BY <2>1, <2>2, <2>5, <3>4 DEF FlagsOK
  <2> QED
    BY <2>4, <2>5
<1>3. CASE RebuildChain
  BY <1>3, FlagsRebuildChain
<1>4. CASE RestorePosition
  <2>1. /\ UNCHANGED <<currentChain, toAppend, blocks>> /\ pc' = "idle" /\ pc = "rebuild"
        /\ walk = Null
    BY <1>4 DEF RestorePosition, memVars, Inv, RebuildOK
  <2> QED
    BY <2>1, FlagsSame
<1>5. CASE ReadBlock
  <2>1. UNCHANGED <<currentChain, toAppend>> /\ pc' = "process" /\ pc = "idle"
    BY <1>5 DEF ReadBlock, walkVars
  <2> QED
    BY <1>5, <2>1, FlagsRead, FlagsSame
<1>6. CASE BeginCommit
  <2>1. /\ UNCHANGED <<currentChain, toAppend, blocks>> /\ pc' \in {"walk", "redo"}
        /\ pc = "process" /\ toAppend = <<>>
    BY <1>6 DEF BeginCommit, Inv, ReorganiseOK, InCommit
  <2> QED
    BY <2>1, FlagsSame
<1>7. CASE WalkBack
  BY <1>7, FlagsWalkBack
<1>8. CASE WalkEnds
  <2>1. /\ UNCHANGED <<currentChain, toAppend, blocks, height>> /\ pc' = "undo"
        /\ pc = "walk"
    BY <1>8, WalkEndsEffect
  <2> QED
    BY <2>1, FlagsSame
<1>9. CASE UndoBlock \/ UndoEnds
  BY <1>9, FlagsUndo
<1>10. CASE RedoBlock
  BY <1>10, FlagsRedo
<1>11. CASE Finish
  BY <1>11, FlagsFinish
<1>12. CASE BlockArrives \/ UNCHANGED vars
  <2>1. UNCHANGED <<currentChain, toAppend, blocks, height, walk, pc>>
    BY <1>12 DEF BlockArrives, vars, memVars, walkVars
  <2> QED
    BY <2>1, FlagsSame
<1>13. Down \/ Start \/ RestoreBlock => pc' \in {"down", "restore"}
  BY DEF Down, Start, RestoreBlock
<1> QED
  BY <1>1, <1>2, <1>3, <1>4, <1>5, <1>6, <1>7, <1>8, <1>9, <1>10, <1>11, <1>12, <1>13,
     StepCases DEF Quiet, InnerCommit

LEMMA FlagsInit == ASSUME Init PROVE FlagsOK
  BY DEF Init, FlagsOK

\* Every block of the main chain is flagged whenever a reader can look,
\* whatever the reorganisations, crashes and restarts (main.cpp:399-406 and
\* 834-942): who trusts the flag misses no block of the chain.
THEOREM ChainAlwaysFlagged == ASSUME NoRescans PROVE Spec => []ChainFlagged
<1>1. Inv /\ FlagsOK => ChainFlagged
  BY DEF FlagsOK, Flagged, ChainFlagged, OnChain, LockFree
<1>2. Init => FlagsOK
  BY FlagsInit
<1>3. Inv /\ Inv' /\ FlagsOK /\ [Next]_vars => FlagsOK'
  BY FlagsNext
<1> QED
  BY <1>1, <1>2, <1>3, InvAlways, PTL DEF Spec

-----------------------------------------------------------------------------
(* The flags of the other blocks, when all blocks have the same bits.      *)

\* Then the heavier of two blocks has the longer path.
LEMMA HeavierIsLonger ==
  ASSUME Inv, EqualBits
  PROVE  \A h, g \in 0..Len(file) : Work[g] > Work[h] => Len(Path[g]) > Len(Path[h])
<1> DEFINE Good(h, g) == Len(Path[g]) <= Len(Path[h]) => Work[g] <= Work[h]
           Bad == {h \in 0..Len(file) : \E g \in 0..Len(file) : ~ Good(h, g)}
<1>1. /\ Len(file) \in Nat
      /\ \A k \in 1..Len(file) : file[k].previous \in 0..(k - 1) /\ file[k].bits \in Nat
      /\ \A h \in 0..Len(file) : Work[h] \in Nat /\ Len(Path[h]) \in Nat
  BY Ancestry, WorkTypes, PathTypes DEF Inv
<1>2. /\ Len(Path[0]) = 0 /\ Work[0] = 0
      /\ \A h \in 1..Len(file) : /\ Len(Path[h]) = Len(Path[file[h].previous]) + 1
                                 /\ Work[h] = Work[file[h].previous] + file[h].bits
  BY PathTypes, RecursionsHold DEF Inv, Recursions
<1>3. Bad = {}
  <2>1. SUFFICES ASSUME Bad # {} PROVE FALSE
    OBVIOUS
  <2>2. Bad \subseteq Nat
    OBVIOUS
  <2>3. PICK m \in Bad : \A k \in Bad : m <= k
    <3> HIDE DEF Bad
    <3> QED
      BY <2>1, <2>2, LeastElement
  <2>4. PICK g \in 0..Len(file) : ~ Good(m, g)
    BY <2>3
  <2>5. m \in 0..Len(file)
    BY <2>3
  <2>6. g # 0
    BY <1>1, <1>2, <2>4, <2>5
  <2>7. m # 0
    <3>1. g \in 1..Len(file) /\ file[g].previous \in 0..Len(file)
      BY <1>1, <2>6
    <3>2. Len(Path[g]) = Len(Path[file[g].previous]) + 1 /\ Len(Path[file[g].previous]) \in Nat
      BY <1>1, <1>2, <3>1
    <3> QED
      BY <1>2, <2>4, <3>2
  <2> DEFINE pm == file[m].previous
             pg == file[g].previous
  <2>8. /\ m \in 1..Len(file) /\ g \in 1..Len(file)
        /\ pm \in 0..Len(file) /\ pg \in 0..Len(file) /\ ~(m <= pm)
    BY <1>1, <2>5, <2>6, <2>7, SMTT(30)
  <2>9. pm \notin Bad
    <3> HIDE DEF Bad
    <3> QED
      BY <2>3, <2>8
  <2>10. Good(pm, pg)
    BY <2>8, <2>9
  <2>11. file[m].bits = file[g].bits
    BY <2>8 DEF EqualBits
  <2>12. /\ Len(Path[m]) = Len(Path[pm]) + 1 /\ Len(Path[g]) = Len(Path[pg]) + 1
         /\ Work[m] = Work[pm] + file[m].bits /\ Work[g] = Work[pg] + file[m].bits
    BY <1>2, <2>8, <2>11
  <2>13. /\ Len(Path[pm]) \in Nat /\ Len(Path[pg]) \in Nat
         /\ Work[pm] \in Nat /\ Work[pg] \in Nat /\ file[m].bits \in Nat
    BY <1>1, <2>8
  <2>14. Good(m, g)
    BY <2>10, <2>12, <2>13, SMTT(30)
  <2> QED
    BY <2>4, <2>14
<1>4. ASSUME NEW h \in 0..Len(file), NEW g \in 0..Len(file), Work[g] > Work[h]
      PROVE  Len(Path[g]) > Len(Path[h])
  <2>1. Good(h, g)
    BY <1>3
  <2>2. /\ Work[g] \in Nat /\ Work[h] \in Nat
        /\ Len(Path[g]) \in Nat /\ Len(Path[h]) \in Nat
    BY <1>1
  <2> QED
    BY <1>4, <2>1, <2>2
<1> QED
  BY <1>4

OnChainOrJoining(h) == OnChain(h) \/ \E j \in 1..Len(toAppend) : toAppend[j] = h

\* Until the daemon is started again, a flagged block is on the chain or about
\* to be put there; what a reorganisation has to remove has lost its flag.
MarksOK ==
  EqualBits /\ starts = 0 /\ Running =>
    /\ \A h \in DOMAIN blocks : Flagged(h) => OnChainOrJoining(h)
    /\ pc \in {"walk", "undo"} =>
         \A i \in (height + 1)..Len(currentChain) : ~ Flagged(currentChain[i])

\* A new longest block is higher than the chain: all that it replaces is met by
\* the walk.
LEMMA LongestIsHigher ==
  ASSUME Inv, RecordsOK, TipsOK, EqualBits, starts = 0, pc = "process", blockInfo.longestChain
  PROVE  Len(currentChain) <= blockInfo.height
<1> DEFINE tip == TipOf(currentChain)
<1>1. /\ hash \in 0..Len(file) /\ blockInfo.height \in Nat
      /\ Len(Path[hash]) = blockInfo.height + 1
  BY HashLength DEF Importing
<1>2. PathAbove(currentChain, 0, Null) /\ longestBlock \in {Null, tip}
  BY Zenon DEF Inv, ChainOK
<1>3. tip \in DOMAIN blocks \cup {Null} /\ currentChain = Path[tip]
  BY <1>2, ChainIsPath
<1>4. tip \in 0..Len(file) /\ longestBlock \in 0..Len(file)
  BY <1>2, <1>3, TreeFacts, TipLengths DEF TipsOK
<1>5. Work[hash] > Work[longestBlock]
  BY DEF TipsOK, RecordsOK, Importing
<1>6. longestBlock = tip
  <2>1. CASE longestBlock = Null
    <3>1. Len(dbBlocks) \in Nat /\ TipIs(Null, Len(dbBlocks))
      BY <2>1, TipLengths DEF TipsOK, Running
    <3>2. TipIs(tip, Len(dbBlocks))
      BY <2>1 DEF TipsOK, LockFree
    <3> QED
      BY <2>1, <3>1, <3>2 DEF TipIs
  <2> QED
    BY <1>2, <2>1
<1>7. Len(Path[hash]) > Len(currentChain)
  BY <1>1, <1>3, <1>4, <1>5, <1>6, HeavierIsLonger
<1>8. Len(currentChain) \in Nat
  BY Lengths DEF Inv
<1> QED
  BY <1>1, <1>7, <1>8

\* Steps that touch neither flags nor chains.
LEMMA MarksSame ==
  ASSUME Inv, MarksOK, UNCHANGED <<currentChain, toAppend, starts>>,
         EqualBits' => EqualBits, Running' => Running,
         DOMAIN blocks' = DOMAIN blocks,
         \A b \in DOMAIN blocks : blocks'[b].longestChain = blocks[b].longestChain,
         pc' \in {"walk", "undo"} => pc \in {"walk", "undo"} /\ height' = height
  PROVE  MarksOK'
<1> SUFFICES ASSUME EqualBits', starts' = 0, Running'
             PROVE  /\ \A h \in DOMAIN blocks' : Flagged(h)' => OnChainOrJoining(h)'
                    /\ pc' \in {"walk", "undo"} =>
                         \A i \in (height' + 1)..Len(currentChain') : ~ Flagged(currentChain[i])'
  BY DEF MarksOK
<1>1. EqualBits /\ starts = 0 /\ Running
  OBVIOUS
<1>2. ASSUME NEW h \in DOMAIN blocks', blocks'[h].longestChain
      PROVE  OnChainOrJoining(h)'
  <2>1. OnChainOrJoining(h)
    BY <1>1, <1>2 DEF MarksOK, Flagged
  <2> QED
    BY <2>1 DEF OnChainOrJoining, OnChain
<1>3. ASSUME pc' \in {"walk", "undo"}, NEW i \in (height' + 1)..Len(currentChain')
      PROVE  ~ Flagged(currentChain[i])'
  <2>1. /\ pc \in {"walk", "undo"} /\ height' = height /\ height \in Nat
        /\ Len(currentChain) \in Nat
    BY <1>3, Lengths DEF Inv, TypeOK
  <2>2. i \in 1..Len(currentChain) /\ i \in (height + 1)..Len(currentChain)
    BY <2>1
  <2>3. PathAbove(currentChain, 0, Null)
    BY <2>1 DEF Inv, ChainOK
  <2>4. currentChain[i] \in DOMAIN blocks
    BY <2>1, <2>2, <2>3 DEF PathAbove
  <2>5. ~ Flagged(currentChain[i])
    BY <1>1, <2>1, <2>2 DEF MarksOK
  <2> QED
    BY <2>4, <2>5 DEF Flagged
<1> QED
  BY <1>2, <1>3 DEF Flagged

LEMMA MarksBeginCommit ==
  ASSUME Inv, Inv', RecordsOK, TipsOK, MarksOK, BeginCommit
  PROVE  MarksOK'
<1>1. /\ pc = "process" /\ UNCHANGED <<file, starts, blocks, currentChain, toAppend>>
      /\ pc' \in {"walk", "redo"}
      /\ pc' = "walk" => blockInfo.longestChain /\ height' = blockInfo.height
  BY DEF BeginCommit, Reorganises
<1> SUFFICES ASSUME EqualBits', starts' = 0, Running'
             PROVE  /\ \A h \in DOMAIN blocks' : Flagged(h)' => OnChainOrJoining(h)'
                    /\ pc' \in {"walk", "undo"} =>
                         \A i \in (height' + 1)..Len(currentChain') : ~ Flagged(currentChain[i])'
  BY DEF MarksOK
<1>2. EqualBits /\ starts = 0 /\ Running
  BY <1>1 DEF EqualBits, Running
<1>3. \A h \in DOMAIN blocks' : blocks'[h].longestChain => OnChainOrJoining(h)'
  BY <1>1, <1>2 DEF MarksOK, Flagged, OnChainOrJoining, OnChain
<1>4. pc' = "walk" => Len(currentChain') <= height' /\ Len(currentChain') \in Nat /\ height' \in Nat
  <2>1. Len(currentChain) \in Nat /\ blockInfo.height \in Nat
    BY Lengths DEF Inv, TypeOK, BlockInfo
  <2> QED
    BY <1>1, <1>2, <2>1, LongestIsHigher
<1> QED
  BY <1>1, <1>3, <1>4 DEF Flagged

\* The walk flags the block it meets, and the one this replaces loses its flag.
LEMMA MarksWalkBack ==
  ASSUME Inv, Inv', MarksOK, WalkBack
  PROVE  MarksOK'
<1>1. /\ pc = "walk" /\ pc' = "walk" /\ UNCHANGED <<file, currentChain>>
      /\ height \in Nat \ {0} /\ height' = height - 1
      /\ walk \in DOMAIN blocks /\ blocks[walk].height = height - 1 /\ ~OnChain(walk)
      /\ toAppend' = Append(toAppend, walk)
      /\ DOMAIN blocks' = DOMAIN blocks
      /\ \A b \in DOMAIN blocks :
           blocks'[b].longestChain <=>
             b = walk \/ (blocks[b].longestChain /\ b \notin Replaced(walk))
  BY WalkBackEffect
<1>2. starts' = starts
  BY DEF WalkBack
<1> SUFFICES ASSUME EqualBits', starts' = 0
             PROVE  /\ \A h \in DOMAIN blocks' : Flagged(h)' => OnChainOrJoining(h)'
                    /\ \A i \in (height' + 1)..Len(currentChain') : ~ Flagged(currentChain[i])'
  BY DEF MarksOK
<1>3. EqualBits /\ starts = 0 /\ Running
  BY <1>1, <1>2 DEF EqualBits, Running
<1>4. /\ PathAbove(currentChain, 0, Null) /\ Len(currentChain) \in Nat
      /\ toAppend \in Seq(Hash) /\ walk \in Hash /\ Len(toAppend) \in Nat
  BY <1>1, Lengths DEF Inv, ChainOK, TypeOK
<1>5. ASSUME NEW h \in DOMAIN blocks', blocks'[h].longestChain
      PROVE  OnChainOrJoining(h)'
  <2>1. CASE h = walk
    <3>1. Len(toAppend') = Len(toAppend) + 1 /\ toAppend'[Len(toAppend) + 1] = walk
      BY <1>1, <1>4, AppendProperties
    <3>2. Len(toAppend) + 1 \in 1..Len(toAppend')
      BY <1>4, <3>1
    <3> QED
      BY <2>1, <3>1, <3>2 DEF OnChainOrJoining
  <2>2. CASE h # walk
    <3>1. OnChainOrJoining(h)
      BY <1>1, <1>3, <1>5, <2>2 DEF MarksOK, Flagged
    <3>2. CASE OnChain(h)
      BY <1>1, <3>2 DEF OnChainOrJoining, OnChain
    <3>3. CASE \E j \in 1..Len(toAppend) : toAppend[j] = h
      <4>1. PICK j \in 1..Len(toAppend) : toAppend[j] = h
        BY <3>3
      <4>2. toAppend'[j] = h /\ j \in 1..Len(toAppend')
        BY <1>1, <1>4, <4>1, AppendProperties
      <4> QED
        BY <4>2 DEF OnChainOrJoining
    <3> QED
      BY <3>1, <3>2, <3>3 DEF OnChainOrJoining
  <2> QED
    BY <2>1, <2>2
<1>6. ASSUME NEW i \in (height' + 1)..Len(currentChain')
      PROVE  ~ blocks'[currentChain'[i]].longestChain
  <2>1. i \in 1..Len(currentChain) /\ i \in height..Len(currentChain) /\ currentChain'[i] = currentChain[i]
    BY <1>1, <1>4
  <2>2. currentChain[i] \in DOMAIN blocks /\ currentChain[i] # walk
    BY <1>1, <1>4, <2>1 DEF PathAbove, OnChain
  <2>3. CASE i = height
    <3>1. currentChain[i] \in Replaced(walk)
      BY <1>1, <1>4, <2>1, <2>3 DEF Replaced
    <3> QED
      BY <1>1, <2>1, <2>2, <3>1
  <2>4. CASE i # height
    <3>1. i \in (height + 1)..Len(currentChain)
      BY <1>1, <1>4, <2>1, <2>4
    <3>2. ~ blocks[currentChain[i]].longestChain
      BY <1>1, <1>3, <3>1 DEF MarksOK, Flagged
    <3> QED
      BY <1>1, <2>1, <2>2, <3>2
  <2> QED
    BY <2>3, <2>4
<1> QED
  BY <1>5, <1>6 DEF Flagged

\* What leaves the chain has no flag.
LEMMA MarksUndo ==
  ASSUME Inv, Inv', MarksOK, UndoBlock \/ UndoEnds
  PROVE  MarksOK'
<1>1. /\ pc = "undo" /\ UNCHANGED <<file, blocks, toAppend>>
      /\ Len(currentChain) \in Nat /\ Len(currentChain') \in Nat
      /\ Len(currentChain') <= Len(currentChain) /\ height \in Nat
      /\ \A i \in 1..Len(currentChain') : currentChain'[i] = currentChain[i]
      /\ UndoBlock => /\ pc' = "undo" /\ height' = height /\ Len(currentChain) > height
                      /\ Len(currentChain') = Len(currentChain) - 1
      /\ UndoEnds => /\ pc' = "redo" /\ Len(currentChain) = height
                     /\ Len(currentChain') = height
  BY UndoEffect
<1>2. starts' = starts
  BY DEF UndoBlock, UndoEnds
<1> SUFFICES ASSUME EqualBits', starts' = 0
             PROVE  /\ \A h \in DOMAIN blocks' : Flagged(h)' => OnChainOrJoining(h)'
                    /\ pc' = "undo" =>
                         \A i \in (height' + 1)..Len(currentChain') : ~ Flagged(currentChain[i])'
  BY <1>1 DEF MarksOK
<1>3. EqualBits /\ starts = 0 /\ Running
  BY <1>1, <1>2 DEF EqualBits, Running
<1>4. \A i \in (height + 1)..Len(currentChain) : ~ blocks[currentChain[i]].longestChain
  BY <1>1, <1>3 DEF MarksOK, Flagged
<1>5. ASSUME NEW h \in DOMAIN blocks', blocks'[h].longestChain
      PROVE  OnChainOrJoining(h)'
  <2>1. OnChainOrJoining(h)
    BY <1>1, <1>3, <1>5 DEF MarksOK, Flagged
  <2>2. CASE OnChain(h)
    <3>1. PICK i \in 1..Len(currentChain) : currentChain[i] = h
      BY <2>2 DEF OnChain
    <3>2. ~(i \in (height + 1)..Len(currentChain))
      BY <1>1, <1>4, <1>5, <3>1
    <3>3. i \in 1..Len(currentChain')
      BY <1>1, <3>2
    <3> QED
      BY <1>1, <3>1, <3>3 DEF OnChainOrJoining, OnChain
  <2>3. CASE \E j \in 1..Len(toAppend) : toAppend[j] = h
    BY <1>1, <2>3 DEF OnChainOrJoining
  <2> QED
    BY <2>1, <2>2, <2>3 DEF OnChainOrJoining
<1>6. ASSUME pc' = "undo", NEW i \in (height' + 1)..Len(currentChain')
      PROVE  ~ blocks'[currentChain'[i]].longestChain
  <2>1. height' = height
    BY <1>1, <1>6
  <2>2. i \in (height + 1)..Len(currentChain) /\ currentChain'[i] = currentChain[i]
    BY <1>1, <2>1
  <2> QED
    BY <1>1, <1>4, <2>2
<1> QED
  BY <1>5, <1>6 DEF Flagged

LEMMA MarksRedo ==
  ASSUME Inv, Inv', MarksOK, RedoBlock
  PROVE  MarksOK'
<1> DEFINE len == Len(currentChain)
           l == Len(toAppend)
<1>1. /\ pc = "redo" /\ pc' = "redo" /\ UNCHANGED <<file, blocks>>
      /\ len \in Nat /\ l \in Nat \ {0}
      /\ Len(currentChain') = len + 1 /\ currentChain'[len + 1] = toAppend[l]
      /\ \A i \in 1..len : currentChain'[i] = currentChain[i]
      /\ Len(toAppend') = l - 1
      /\ \A j \in 1..(l - 1) : toAppend'[j] = toAppend[j]
  BY RedoEffect
<1>2. starts' = starts
  BY DEF RedoBlock
<1> SUFFICES ASSUME EqualBits', starts' = 0
             PROVE  \A h \in DOMAIN blocks' : Flagged(h)' => OnChainOrJoining(h)'
  BY <1>1 DEF MarksOK
<1>3. EqualBits /\ starts = 0 /\ Running
  BY <1>1, <1>2 DEF EqualBits, Running
<1>4. ASSUME NEW h \in DOMAIN blocks', blocks'[h].longestChain
      PROVE  OnChainOrJoining(h)'
  <2>1. OnChainOrJoining(h)
    BY <1>1, <1>3, <1>4 DEF MarksOK, Flagged
  <2>2. CASE OnChain(h)
    <3>1. PICK i \in 1..len : currentChain[i] = h
      BY <2>2 DEF OnChain
    <3> QED
      BY <1>1, <3>1 DEF OnChainOrJoining, OnChain
  <2>3. CASE \E j \in 1..l : toAppend[j] = h
    <3>1. PICK j \in 1..l : toAppend[j] = h
      BY <2>3
    <3>2. CASE j = l
      <4>1. len + 1 \in 1..Len(currentChain') /\ currentChain'[len + 1] = h
        BY <1>1, <3>1, <3>2
      <4> QED
        BY <4>1 DEF OnChainOrJoining, OnChain
    <3>3. CASE j # l
      <4>1. j \in 1..Len(toAppend') /\ toAppend'[j] = h
        BY <1>1, <3>1, <3>3
      <4> QED
        BY <4>1 DEF OnChainOrJoining
    <3> QED
      BY <3>2, <3>3
  <2> QED
    BY <2>1, <2>2, <2>3 DEF OnChainOrJoining
<1> QED
  BY <1>4 DEF Flagged

LEMMA MarksFinish ==
  ASSUME Inv, Inv', MarksOK, Finish
  PROVE  MarksOK'
<1> DEFINE n == Len(dbBlocks)
           len == Len(currentChain)
<1>1. /\ n \in Nat /\ hash = n + 1 /\ DOMAIN blocks = 1..n /\ DOMAIN blocks' = 1..(n + 1)
      /\ blocks'[hash] = blockInfo /\ \A h \in 1..n : blocks'[h] = blocks[h]
      /\ pc' = "idle" /\ file' = file
  BY FinishEffect
<1>2. pc = "redo" /\ starts' = starts
  BY DEF Finish
<1>3. /\ len \in Nat /\ toAppend = <<>>
      /\ \A i \in 1..len : currentChain'[i] = currentChain[i]
      /\ IF blockInfo.longestChain
         THEN Len(currentChain') = len + 1 /\ currentChain'[len + 1] = hash
         ELSE Len(currentChain') = len
  BY FinishChain
<1> SUFFICES ASSUME EqualBits', starts' = 0
             PROVE  \A h \in DOMAIN blocks' : Flagged(h)' => OnChainOrJoining(h)'
  BY <1>1 DEF MarksOK
<1>4. EqualBits /\ starts = 0 /\ Running
  BY <1>1, <1>2 DEF EqualBits, Running
<1>5. ASSUME NEW h \in DOMAIN blocks', blocks'[h].longestChain
      PROVE  OnChainOrJoining(h)'
  <2>1. CASE h = hash
    <3>1. len + 1 \in 1..Len(currentChain') /\ currentChain'[len + 1] = h
      BY <1>1, <1>3, <1>5, <2>1
    <3> QED
      BY <3>1 DEF OnChainOrJoining, OnChain
  <2>2. CASE h # hash
    <3>1. h \in 1..n /\ blocks[h].longestChain
      BY <1>1, <1>5, <2>2
    <3>2. OnChainOrJoining(h)
      BY <1>1, <1>4, <3>1 DEF MarksOK, Flagged
    <3>3. OnChain(h)
      BY <1>3, <3>2 DEF OnChainOrJoining
    <3>4. PICK i \in 1..len : currentChain[i] = h
      BY <3>3 DEF OnChain
    <3>5. i \in 1..Len(currentChain') /\ currentChain'[i] = h
      BY <1>3, <3>4
    <3> QED
      BY <3>5 DEF OnChainOrJoining, OnChain
  <2> QED
    BY <2>1, <2>2
<1> QED
  BY <1>5 DEF Flagged

LEMMA MarksNext ==
  ASSUME NoRescans, Inv, Inv', RecordsOK, TipsOK, MarksOK, [Next]_vars
  PROVE  MarksOK'
<1>1. CASE ~(Running' /\ starts' = 0)
  BY <1>1 DEF MarksOK
<1>2. CASE BlockArrives \/ UNCHANGED vars
  <2>1. /\ UNCHANGED <<currentChain, toAppend, starts, blocks, height, pc>>
        /\ file' = file \/ BlockArrives
    BY <1>2 DEF BlockArrives, vars, memVars, walkVars
  <2>2. EqualBits' => EqualBits
    <3>1. CASE BlockArrives
      <4>1. PICK p \in 0..Len(file), b \in Bits : file' = Append(file, [previous |-> p, bits |-> b])
        BY <3>1 DEF BlockArrives
      <4>2. file \in Seq([previous: Hash \cup {Null}, bits: Bits]) /\ Len(file) \in Nat
        BY Lengths DEF Inv, TypeOK
      <4>3. /\ Len(file') = Len(file) + 1
            /\ \A i \in 1..Len(file) : file'[i] = file[i]
        BY <4>1, <4>2
      <4> QED
        BY <4>2, <4>3 DEF EqualBits
    <3> QED
      BY <2>1, <3>1 DEF EqualBits
  <2> QED
    BY <2>1, <2>2, MarksSame DEF Running
<1>3. CASE ReadBlock
  <2>1. /\ UNCHANGED <<file, currentChain, toAppend, starts>>
        /\ pc' = "process" /\ pc = "idle"
    BY <1>3 DEF ReadBlock, walkVars
  <2> QED
    BY <1>3, <2>1, FlagsRead, MarksSame DEF EqualBits, Running
<1>4. CASE BeginCommit
  BY <1>4, MarksBeginCommit
<1>5. CASE WalkBack
  BY <1>5, MarksWalkBack
<1>6. CASE WalkEnds
  <2>1. /\ UNCHANGED <<file, currentChain, toAppend, blocks, height>>
        /\ pc' = "undo" /\ pc = "walk" /\ starts' = starts
    BY <1>6, WalkEndsEffect DEF WalkEnds
  <2> QED
    BY <2>1, MarksSame DEF EqualBits, Running
<1>7. CASE UndoBlock \/ UndoEnds
  BY <1>7, MarksUndo
<1>8. CASE RedoBlock
  BY <1>8, MarksRedo
<1>9. CASE Finish
  BY <1>9, MarksFinish
<1>10. Down \/ Start \/ RestoreBlock \/ SizeChain \/ RebuildChain => ~Running'
  BY DEF Down, Start, RestoreBlock, SizeChain, RebuildChain, Running
<1>11. RestorePosition => starts' # 0
  <2>1. RestorePosition => pc = "rebuild" /\ starts' = starts
    BY DEF RestorePosition
  <2>2. pc = "rebuild" => starts > 0
    BY DEF TipsOK
  <2>3. starts \in Nat
    BY ConstantsAssumption DEF Inv, TypeOK
  <2> QED
    BY <2>1, <2>2, <2>3
<1> QED
  BY <1>1, <1>2, <1>3, <1>4, <1>5, <1>6, <1>7, <1>8, <1>9, <1>10, <1>11,
     StepCases DEF Quiet, InnerCommit

LEMMA MarksInit == ASSUME Init PROVE MarksOK
  BY DEF Init, MarksOK, NoBlocks

\* Until the daemon is started again, the flags are those of the main chain:
\* all of its blocks have one, and no other block has, if all blocks have the
\* same bits (main.cpp:834-942).
THEOREM FlagsAlwaysCoverChain ==
  ASSUME NoRescans PROVE Spec => [](starts = 0 => FlagsCoverChain)
<1>1. Inv /\ MarksOK /\ ChainFlagged => (starts = 0 => FlagsCoverChain)
  <2> SUFFICES ASSUME Inv, MarksOK, ChainFlagged, starts = 0, LockFree, EqualBits,
                      NEW h \in DOMAIN blocks, blocks[h].longestChain
               PROVE  OnChain(h)
    BY DEF FlagsCoverChain, OnlyChainFlagged
  <2>1. OnChainOrJoining(h)
    BY DEF MarksOK, LockFree, Running, Flagged
  <2>2. toAppend = <<>>
    BY DEF LockFree, Inv, ReorganiseOK, InCommit
  <2> QED
    BY <2>1, <2>2 DEF OnChainOrJoining
<1>2. Init => TipsOK /\ MarksOK
  BY TipsInit, InvInit, MarksInit
<1>3. Inv /\ Inv' /\ RecordsOK /\ RecordsOK' /\ TipsOK /\ MarksOK /\ [Next]_vars
        => TipsOK' /\ MarksOK'
  BY TipsNext, MarksNext
<1> QED
  BY <1>1, <1>2, <1>3, RecordsAlways, ChainAlwaysFlagged, PTL DEF Spec

-----------------------------------------------------------------------------
(* Rescans: Restorable, for every set of values of --rescan-index.         *)

HIDE DEF RecordsOfFiles, RecordsUpTo, RecordOf

\* The invariant of rescans holds of the first start.
LEMMA RescanInit == Init => RescanInv
<1> SUFFICES ASSUME Init PROVE RescanInv
  OBVIOUS
<1> USE ConstantsAssumption DEF Init
<1>1. TypeOK
  BY InvInit DEF Inv
<1>2. FileOrdered
  BY InvInit DEF Inv
<1>3. RescanTypes
  BY <1>1 DEF RescanTypes, TypeOK, Importing
<1>4. InMemory = 0 /\ ToSkip = 0 /\ ~Importing /\ ~InCommit
  BY DEF InMemory, InCommit, ToSkip, Importing
<1>5. RescanPlaces
  BY <1>4 DEF RescanPlaces
<1>6. RescanTree
  BY <1>4 DEF RescanTree, SkipsBlocks, ParentsBelow, NoBlocks
<1> QED
  BY <1>2, <1>3, <1>5, <1>6 DEF RescanInv

\* The lengths that the invariant of rescans is about are numbers.
LEMMA RescanLengths ==
  ASSUME RescanInv
  PROVE  /\ Len(file) \in Nat /\ Len(dbBlocks) \in Nat /\ Len(blockIds) \in Nat
         /\ dbPosition \in Nat /\ position \in Nat
         /\ ToSkip \in Nat /\ InMemory \in Int
         /\ ~InCommit => InMemory = Len(blockIds)
         /\ InCommit => InMemory = Len(blockIds) - 1
         /\ Len(file) <= MaxFile
<1>1. Len(file) \in Nat /\ Len(dbBlocks) \in Nat /\ Len(blockIds) \in Nat
  BY LenProperties DEF RescanInv, RescanTypes
<1>2. ToSkip \in Nat
  BY DEF RescanInv, RescanTypes, ToSkip
<1> QED
  BY <1>1, <1>2 DEF InMemory, RescanInv, RescanTypes, FileOrdered

\* A block of the files has a parent before it, or none if it is the first.
LEMMA RescanFile ==
  ASSUME RescanInv, NEW k \in 1..Len(file)
  PROVE  /\ k \in Nat /\ k \in Hash
         /\ file[k].previous \in 0..(k - 1)
         /\ file[k].previous \in Hash \cup {Null}
         /\ file[k].bits \in Bits /\ file[k].bits \in Nat
         /\ file[k].previous = Null <=> k = 1
<1>1. file \in Seq([previous : Hash \cup {Null}, bits : Bits])
  BY DEF RescanInv, RescanTypes
<1>2. file[k] \in [previous : Hash \cup {Null}, bits : Bits]
  BY <1>1, ElementOfSeq, Zenon
<1>3. file[k].previous \in Hash \cup {Null} /\ file[k].bits \in Bits
  BY <1>2
<1>4. k \in Nat /\ k \in Hash
  BY RescanLengths, ConstantsAssumption DEF Hash
<1>5. file[k].previous \in Nat /\ file[k].bits \in Nat
  <2>1. \A x \in Hash \cup {Null} \cup Bits : x \in Nat
    BY HashFacts
  <2> QED
    BY <1>3, <2>1, Zenon
<1>6. file[k].previous < k /\ (file[k].previous = Null <=> k = 1)
  BY DEF RescanInv, FileOrdered
<1> QED
  BY <1>3, <1>4, <1>5, <1>6

\* The fields of a record.
LEMMA RescanRecord ==
  ASSUME RescanInv, NEW k \in 1..Len(dbBlocks)
  PROVE  /\ dbBlocks[k] \in DbBlock
         /\ dbBlocks[k].hash \in Hash
         /\ dbBlocks[k].previous \in Nat \cup {NoIndex}
         /\ dbBlocks[k].bits \in Nat
         /\ dbBlocks[k].height \in Nat
         /\ dbBlocks[k].previous + 1 < k \/ (k = 1 /\ dbBlocks[k].hash # 1)
<1>1. dbBlocks \in Seq(DbBlock)
  BY DEF RescanInv, RescanTypes
<1>2. dbBlocks[k] \in DbBlock
  BY <1>1, ElementOfSeq, Zenon
<1>3. dbBlocks[k].bits \in Bits
  BY <1>2 DEF DbBlock
<1> QED
  BY <1>2, <1>3, HashFacts DEF DbBlock, RescanInv, RescanTree, ParentsBelow

-----------------------------------------------------------------------------
(* Steps that change neither the files, the records nor what is read.      *)

\* The blocks keep their indices and heights.
PlacesKept ==
  /\ DOMAIN blocks' = DOMAIN blocks
  /\ \A h \in DOMAIN blocks : /\ blocks'[h] \in BlockInfo
                             /\ blocks'[h].index = blocks[h].index
                             /\ blocks'[h].height = blocks[h].height

\* The commit and the restore go on.
RecordsLeft ==
  /\ UNCHANGED <<file, dbBlocks, dbPosition, blockIds, position, rescanIndex,
                 totalBits, hash, blockInfo, previousBlock>>
  /\ PlacesKept
  /\ \/ pc' = pc
     \/ InCommit /\ InCommit'
     \/ pc = "restore" /\ pc' = "rebuild" /\ ~MoreToRestore

\* They keep the invariant of rescans.
LEMMA RescanRecordsLeft == RescanInv /\ RecordsLeft => RescanInv'
<1> SUFFICES ASSUME RescanInv, RecordsLeft PROVE RescanInv'
  OBVIOUS
<1>1. UNCHANGED <<file, dbBlocks, dbPosition, blockIds, position, rescanIndex,
                  totalBits, hash, blockInfo, previousBlock>>
  BY DEF RecordsLeft
<1>2. /\ DOMAIN blocks' = DOMAIN blocks
      /\ \A h \in DOMAIN blocks : /\ blocks'[h] \in BlockInfo
                                 /\ blocks'[h].index = blocks[h].index
                                 /\ blocks'[h].height = blocks[h].height
  BY DEF RecordsLeft, PlacesKept
<1>3. /\ Importing' = Importing /\ InCommit' = InCommit
      /\ InMemory' = InMemory /\ ToSkip' = ToSkip /\ SkipsBlocks' = SkipsBlocks
  BY <1>1 DEF RecordsLeft, Importing, InCommit, InMemory, ToSkip, SkipsBlocks
<1>4. pc' \in {"down", "restore", "rebuild", "idle",
               "process", "walk", "undo", "redo"}
  BY DEF RecordsLeft, RescanInv, RescanTypes, InCommit
<1>5. FileOrdered'
  BY <1>1 DEF RescanInv, FileOrdered
<1>6. RescanTypes'
  BY <1>1, <1>2, <1>3, <1>4 DEF RescanInv, RescanTypes
<1>7. ParentsBelow' /\ (\A n : RecordsUpTo(n)' = RecordsUpTo(n))
  BY <1>1 DEF RescanInv, RescanTree, ParentsBelow, RecordsUpTo, RecordOf
<1>8. RescanTree'
  BY <1>1, <1>2, <1>3, <1>7 DEF RescanInv, RescanTree, RecordsUpTo, RecordOf
<1>9. RescanPlaces'
  <2>1. CASE pc' = pc
    <3>1. pc = "down" => blocks' = NoBlocks
      BY <1>2, <2>1 DEF RescanInv, RescanPlaces, NoBlocks
    <3> QED
      BY <1>1, <1>2, <1>3, <2>1, <3>1 DEF RescanInv, RescanPlaces
  <2>2. CASE InCommit /\ InCommit'
    BY <1>1, <1>2, <1>3, <2>2 DEF RescanInv, RescanPlaces, InCommit
  <2>3. CASE pc = "restore" /\ pc' = "rebuild" /\ ~MoreToRestore
    <3>1. /\ Len(blockIds) \in Nat /\ Len(dbBlocks) \in Nat
          /\ rescanIndex \in Nat \cup {NoIndex}
          /\ InMemory = Len(blockIds)
      BY <2>3, RescanLengths DEF RescanInv, RescanTypes, InCommit
    <3>2. /\ position = 0 /\ Len(blockIds) <= Len(dbBlocks)
          /\ rescanIndex # NoIndex => Len(blockIds) <= rescanIndex
      BY <2>3, <3>1 DEF RescanInv, RescanPlaces
    <3>3. Len(blockIds) < Len(dbBlocks) => Len(blockIds) = rescanIndex
      BY <2>3, <3>1, <3>2 DEF MoreToRestore
    <3>4. ~Importing
      BY <2>3 DEF Importing
    <3> QED
      BY <1>1, <1>3, <2>3, <3>2, <3>3, <3>4 DEF RescanInv, RescanPlaces, Importing, InCommit
  <2> QED
    BY <2>1, <2>2, <2>3 DEF RecordsLeft
<1> QED
  BY <1>5, <1>6, <1>8, <1>9 DEF RescanInv

\* A new flag leaves a block in its place.
LEMMA FlagKeeps ==
  ASSUME NEW info \in BlockInfo, NEW flag \in BOOLEAN
  PROVE  /\ [info EXCEPT !.longestChain = flag] \in BlockInfo
         /\ [info EXCEPT !.longestChain = flag].index = info.index
         /\ [info EXCEPT !.longestChain = flag].height = info.height
  BY DEF BlockInfo

\* The steps of a commit between its ends, and those of the restore that only
\* make the main chain, go on in this sense.
LEMMA RecordsLeftSteps ==
  ASSUME RescanInv, SizeChain \/ RebuildChain \/ WalkBack \/ WalkEnds
                      \/ UndoBlock \/ UndoEnds \/ RedoBlock
  PROVE  RecordsLeft
<1> USE DEF dbVars, memVars, tipVars, importVars, walkVars, bestVars, readVars
<1>1. \A h \in DOMAIN blocks : blocks[h] \in BlockInfo
  BY DEF RescanInv, RescanTypes
<1>2. ASSUME UNCHANGED blocks PROVE PlacesKept
  BY <1>1, <1>2 DEF PlacesKept
<1>3. CASE SizeChain
  BY <1>2, <1>3 DEF SizeChain, RecordsLeft
<1>4. CASE RebuildChain
  <2>1. blocks' = [blocks EXCEPT ![walk] = [blocks[walk] EXCEPT !.longestChain = TRUE]]
    BY <1>4 DEF RebuildChain
  <2>2. walk \in DOMAIN blocks
    BY <1>4 DEF RebuildChain
  <2>3. PlacesKept
    BY <1>1, <2>1, <2>2, FlagKeeps DEF PlacesKept
  <2> QED
    BY <1>4, <2>3 DEF RebuildChain, RecordsLeft
<1>5. CASE WalkBack
  <2> DEFINE flag(b) == b = walk \/ (blocks[b].longestChain /\ b \notin Replaced(walk))
  <2>1. blocks' = [b \in DOMAIN blocks |-> [blocks[b] EXCEPT !.longestChain = flag(b)]]
    BY <1>5 DEF WalkBack
  <2>2. \A b \in DOMAIN blocks : flag(b) \in BOOLEAN
    OBVIOUS
  <2>3. PlacesKept
    <3> HIDE DEF flag
    <3> QED
      BY <1>1, <2>1, <2>2, FlagKeeps DEF PlacesKept
  <2> QED
    BY <1>5, <2>3 DEF WalkBack, RecordsLeft
<1>6. CASE WalkEnds
  BY <1>2, <1>6 DEF WalkEnds, RecordsLeft, InCommit
<1>7. CASE UndoBlock
  BY <1>2, <1>7 DEF UndoBlock, RecordsLeft
<1>8. CASE UndoEnds
  BY <1>2, <1>8 DEF UndoEnds, RecordsLeft, InCommit
<1>9. CASE RedoBlock
  BY <1>2, <1>9 DEF RedoBlock, RecordsLeft
<1> QED
  BY <1>3, <1>4, <1>5, <1>6, <1>7, <1>8, <1>9

-----------------------------------------------------------------------------
(* The environment, stops and starts.                                      *)

\* A block appended to the files makes no record right or wrong: what the
\* records are compared with was there before.
LEMMA RescanBlockArrives == RescanInv /\ BlockArrives => RescanInv'
<1> SUFFICES ASSUME RescanInv, BlockArrives PROVE RescanInv'
  OBVIOUS
<1> USE DEF dbVars, memVars, tipVars, importVars, walkVars, bestVars, readVars
<1> DEFINE n == Len(file)
<1>1. UNCHANGED <<dbBlocks, dbPosition, blockIds, blocks, position, rescanIndex,
                  totalBits, hash, blockInfo, previousBlock, pc>>
  BY DEF BlockArrives
<1>2. /\ file \in Seq([previous : Hash \cup {Null}, bits : Bits])
      /\ n \in Nat /\ n < MaxFile
  BY RescanLengths DEF RescanInv, RescanTypes, BlockArrives
<1>3. PICK p \in 0..n, b \in Bits :
        /\ p = Null <=> file = <<>>
        /\ file' = Append(file, [previous |-> p, bits |-> b])
  BY DEF BlockArrives
<1>4. /\ Len(file') = n + 1 /\ \A k \in 1..n : file'[k] = file[k]
      /\ file'[n + 1] = [previous |-> p, bits |-> b]
  BY <1>2, <1>3
<1>5. file' \in Seq([previous : Hash \cup {Null}, bits : Bits])
  BY <1>2, <1>3, ConstantsAssumption DEF Hash
<1>6. FileOrdered'
  <2>1. file = <<>> <=> n = 0
    BY <1>2
  <2> QED
    BY <1>2, <1>3, <1>4, <2>1, ConstantsAssumption DEF RescanInv, FileOrdered
<1>7. /\ Importing' = Importing /\ InCommit' = InCommit
      /\ InMemory' = InMemory /\ ToSkip' = ToSkip /\ SkipsBlocks' = SkipsBlocks
  BY <1>1 DEF Importing, InCommit, InMemory, ToSkip, SkipsBlocks
<1>8. Importing => hash \in 1..n
  BY DEF RescanInv, RescanTypes
<1>9. RescanTypes'
  BY <1>1, <1>2, <1>4, <1>5, <1>7, <1>8 DEF RescanInv, RescanTypes
<1>10. RescanPlaces'
  <2>1. \A i \in 1..Len(dbBlocks) : dbBlocks[i].hash <= n + 1
    <3> SUFFICES ASSUME NEW i \in 1..Len(dbBlocks) PROVE dbBlocks[i].hash <= n + 1
      OBVIOUS
    <3>1. dbBlocks[i].hash \in Hash
      BY RescanRecord
    <3>2. dbBlocks[i].hash \in Nat
      BY <3>1, HashFacts
    <3>3. dbBlocks[i].hash <= n
      BY DEF RescanInv, RescanPlaces
    <3> QED
      BY <1>2, <3>2, <3>3
  <2> QED
    BY <1>1, <1>4, <1>7, <2>1 DEF RescanInv, RescanPlaces
<1>11. RecordsUpTo(InMemory)' => RecordsUpTo(InMemory)
  <2> SUFFICES ASSUME RecordsUpTo(InMemory)' PROVE RecordsUpTo(InMemory)
    OBVIOUS
  <2> SUFFICES ASSUME NEW i \in 1..InMemory PROVE RecordOf(i)
    BY DEF RecordsUpTo
  <2>1. RecordOf(i)'
    BY <1>7 DEF RecordsUpTo
  <2>2. i \in 1..Len(dbBlocks)
    BY RescanLengths DEF RescanInv, RescanPlaces
  <2>3. dbBlocks[i].hash = i /\ dbBlocks[i].hash <= n
    BY <1>1, <2>1, <2>2 DEF RecordOf, RescanInv, RescanPlaces
  <2>4. file'[i] = file[i]
    BY <1>2, <1>4, <2>2, <2>3
  <2> QED
    BY <1>1, <2>1, <2>4 DEF RecordOf
<1>12. RescanTree'
  <2>1. Importing => file'[hash] = file[hash]
    BY <1>4, <1>8
  <2> QED
    BY <1>1, <1>7, <1>11, <2>1 DEF RescanInv, RescanTree, ParentsBelow
<1> QED
  BY <1>6, <1>9, <1>10, <1>12 DEF RescanInv

\* After a stop nothing is in memory.
LEMMA RescanDown == RescanInv /\ Down => RescanInv'
<1> SUFFICES ASSUME RescanInv, Down PROVE RescanInv'
  OBVIOUS
<1> USE DEF dbVars
<1>1. UNCHANGED <<file, dbBlocks, dbPosition>>
  BY DEF Down
<1>2. /\ pc' = "down" /\ blockIds' = <<>> /\ blocks' = NoBlocks
      /\ position' = 0 /\ rescanIndex' = NoIndex /\ totalBits' = 0
  BY DEF Down
<1>3. ~Importing' /\ ~InCommit' /\ InMemory' = 0 /\ ToSkip' = 0
  BY <1>2 DEF Importing, InCommit, InMemory, ToSkip
<1>4. FileOrdered'
  BY <1>1 DEF RescanInv, FileOrdered
<1>5. RescanTypes'
  BY <1>1, <1>2, <1>3 DEF RescanInv, RescanTypes, NoBlocks
<1>6. RescanPlaces'
  <2>1. /\ 0 <= Len(dbBlocks)
        /\ \A i \in 1..Len(dbBlocks) : dbBlocks[i].hash <= Len(file)
    BY RescanLengths DEF RescanInv, RescanPlaces
  <2> QED
    BY <1>1, <1>2, <1>3, <2>1 DEF RescanPlaces
<1>7. RescanTree'
  BY <1>1, <1>2, <1>3 DEF RescanInv, RescanTree, SkipsBlocks, ParentsBelow, NoBlocks
<1> QED
  BY <1>4, <1>5, <1>6, <1>7 DEF RescanInv

\* A start with any rescan index has restored nothing yet.
LEMMA RescanStart == RescanInv /\ Start => RescanInv'
<1> SUFFICES ASSUME RescanInv, Start PROVE RescanInv'
  OBVIOUS
<1> USE DEF dbVars, memVars, tipVars, importVars, walkVars, bestVars
<1>1. UNCHANGED <<file, dbBlocks, dbPosition, blockIds, blocks, position,
                  totalBits, hash, blockInfo, previousBlock>>
  BY DEF Start
<1>2. /\ pc = "down" /\ pc' = "restore"
      /\ rescanIndex' \in RescanIndices \cup {NoIndex}
  BY DEF Start
<1>3. blockIds = <<>> /\ blocks = NoBlocks /\ position = 0
  BY <1>2 DEF RescanInv, RescanPlaces
<1>4. ~Importing' /\ ~InCommit' /\ InMemory' = 0
  BY <1>1, <1>2, <1>3 DEF Importing, InCommit, InMemory
<1>5. FileOrdered'
  BY <1>1 DEF RescanInv, FileOrdered
<1>6. rescanIndex' \in Nat \cup {NoIndex}
  BY <1>2, ConstantsAssumption
<1>7. RescanTypes'
  BY <1>1, <1>2, <1>4, <1>6 DEF RescanInv, RescanTypes
<1>8. RescanPlaces'
  <2>1. /\ 0 <= Len(dbBlocks)
        /\ \A i \in 1..Len(dbBlocks) : dbBlocks[i].hash <= Len(file)
    BY RescanLengths DEF RescanInv, RescanPlaces
  <2> QED
    BY <1>1, <1>2, <1>3, <1>4, <1>6, <2>1 DEF RescanPlaces
<1>9. RescanTree'
  BY <1>1, <1>3, <1>4 DEF RescanInv, RescanTree, SkipsBlocks, ParentsBelow, NoBlocks
<1> QED
  BY <1>5, <1>7, <1>8, <1>9 DEF RescanInv

\* The reader finds nothing to read, or skips a block: while it skips, the
\* position and what is left to skip keep their sum.
LEMMA RescanReads == RescanInv /\ (ReadFails \/ SkipBlock) => RescanInv'
<1> SUFFICES ASSUME RescanInv, ReadFails \/ SkipBlock PROVE RescanInv'
  OBVIOUS
<1> USE DEF dbVars, memVars, tipVars, importVars, walkVars, bestVars
<1>1. UNCHANGED <<file, dbBlocks, dbPosition, blockIds, blocks,
                  totalBits, hash, blockInfo, previousBlock, pc>>
  BY DEF ReadFails, SkipBlock
<1>2. pc = "idle"
  BY DEF ReadFails, SkipBlock
<1>3. rescanIndex \in Nat \cup {NoIndex} /\ position \in Nat /\ ToSkip \in Nat
  BY RescanLengths DEF RescanInv, RescanTypes
<1>4. \/ rescanIndex' = NoIndex /\ position' = position /\ ToSkip' = 0
      \/ /\ rescanIndex \in Nat /\ rescanIndex' = rescanIndex - 1 /\ rescanIndex' \in Nat
         /\ position' = position + 1
         /\ position' + ToSkip' = position + ToSkip
  BY <1>3 DEF ReadFails, SkipBlock, StillSkipping, ToSkip
<1>5. ~Importing /\ ~Importing' /\ ~InCommit /\ ~InCommit'
      /\ InMemory = Len(blockIds) /\ InMemory' = Len(blockIds)
  BY <1>1, <1>2 DEF Importing, InCommit, InMemory
<1>6. FileOrdered'
  BY <1>1 DEF RescanInv, FileOrdered
<1>7. RescanTypes'
  BY <1>1, <1>3, <1>4, <1>5 DEF RescanInv, RescanTypes
<1>8. RescanPlaces'
  <2>1. rescanIndex # NoIndex /\ Len(blockIds) < Len(dbBlocks) =>
          position + ToSkip = Len(blockIds)
    BY <1>2 DEF RescanInv, RescanPlaces
  <2>2. rescanIndex' # NoIndex /\ Len(blockIds) < Len(dbBlocks) =>
          position' + ToSkip' = Len(blockIds)
    BY <1>3, <1>4, <2>1, RescanLengths
  <2> QED
    BY <1>1, <1>2, <1>5, <2>2 DEF RescanInv, RescanPlaces
<1>9. RescanTree'
  BY <1>1, <1>5 DEF RescanInv, RescanTree, SkipsBlocks, ParentsBelow, RecordsUpTo, RecordOf
<1> QED
  BY <1>6, <1>7, <1>8, <1>9 DEF RescanInv

\* The end of the restore: the saved position, or the start of the files.
LEMMA RescanRestorePosition == RescanInv /\ RestorePosition => RescanInv'
<1> SUFFICES ASSUME RescanInv, RestorePosition PROVE RescanInv'
  OBVIOUS
<1> USE DEF dbVars, memVars, tipVars, importVars
<1>1. UNCHANGED <<file, dbBlocks, dbPosition, blockIds, blocks, rescanIndex,
                  totalBits, hash, blockInfo, previousBlock>>
  BY DEF RestorePosition
<1>2. /\ pc = "rebuild" /\ pc' = "idle"
      /\ position' = IF rescanIndex = NoIndex THEN dbPosition ELSE position
  BY DEF RestorePosition
<1>3. /\ rescanIndex \in Nat \cup {NoIndex} /\ dbPosition \in Nat
      /\ Len(blockIds) \in Nat /\ Len(dbBlocks) \in Nat
  BY RescanLengths DEF RescanInv, RescanTypes
<1>4. ~Importing /\ ~Importing' /\ ~InCommit /\ ~InCommit'
      /\ InMemory = Len(blockIds) /\ InMemory' = Len(blockIds) /\ ToSkip' = ToSkip
  BY <1>1, <1>2 DEF Importing, InCommit, InMemory, ToSkip
<1>5. /\ position = 0
      /\ Len(blockIds) < Len(dbBlocks) => Len(blockIds) = rescanIndex
  BY <1>2 DEF RescanInv, RescanPlaces
<1>6. FileOrdered'
  BY <1>1 DEF RescanInv, FileOrdered
<1>7. RescanTypes'
  BY <1>1, <1>2, <1>3, <1>4, <1>5 DEF RescanInv, RescanTypes
<1>8. RescanPlaces'
  <2>1. rescanIndex # NoIndex /\ Len(blockIds) < Len(dbBlocks) =>
          position' + ToSkip = Len(blockIds)
    BY <1>2, <1>3, <1>5 DEF ToSkip
  <2> QED
    BY <1>1, <1>2, <1>4, <2>1 DEF RescanInv, RescanPlaces
<1>9. RescanTree'
  BY <1>1, <1>4 DEF RescanInv, RescanTree, SkipsBlocks, ParentsBelow, RecordsUpTo, RecordOf
<1> QED
  BY <1>6, <1>7, <1>8, <1>9 DEF RescanInv

-----------------------------------------------------------------------------
(* The restore of a record, and the import of a block.                     *)

\* The next record is hung in the tree; one that is right becomes a block that
\* is.
LEMMA RescanRestoreBlock == RescanInv /\ RestoreBlock => RescanInv'
<1> SUFFICES ASSUME RescanInv, RestoreBlock PROVE RescanInv'
  OBVIOUS
<1> USE DEF dbVars, tipVars, importVars, walkVars, readVars
<1> DEFINE m == Len(blockIds)
           dbBlock == dbBlocks[m + 1]
           root == dbBlock.previous = NoIndex
           previous == IF root THEN Null ELSE blockIds[dbBlock.previous + 1]
           linked == IF root THEN blocks ELSE WithChild(blocks, previous, dbBlock.hash)
           total == (IF root THEN 0 ELSE blocks[previous].totalBits) + dbBlock.bits
           info == [index |-> m, height |-> dbBlock.height,
                    bits |-> dbBlock.bits, totalBits |-> total,
                    previous |-> previous, longestChain |-> FALSE,
                    nexts |-> <<>>]
<1>1. UNCHANGED <<file, dbBlocks, dbPosition, position, rescanIndex,
                  totalBits, hash, blockInfo, previousBlock, pc>>
  BY DEF RestoreBlock
<1>2. /\ blockIds' = Append(blockIds, dbBlock.hash)
      /\ blocks' = Insert(linked, dbBlock.hash, info)
  BY DEF RestoreBlock
<1>3. /\ pc = "restore" /\ m < Len(dbBlocks)
      /\ rescanIndex # NoIndex => m < rescanIndex
      /\ m \in Nat /\ Len(dbBlocks) \in Nat /\ m + 1 \in 1..Len(dbBlocks)
  <2>1. m \in Nat /\ Len(dbBlocks) \in Nat
    BY RescanLengths
  <2>2. /\ pc = "restore" /\ m < Len(dbBlocks)
        /\ rescanIndex # NoIndex => m < rescanIndex
    BY DEF RestoreBlock, MoreToRestore
  <2> QED
    BY <2>1, <2>2
<1>4. ~Importing /\ ~Importing' /\ ~InCommit /\ ~InCommit' /\ InMemory = m
  BY <1>1, <1>3 DEF Importing, InCommit, InMemory
<1>5. /\ dbBlock.hash \in Hash /\ dbBlock.bits \in Nat /\ dbBlock.height \in Nat
      /\ dbBlock.previous \in Nat \cup {NoIndex} /\ dbBlock.previous + 1 < m + 1
  BY <1>3, RescanRecord DEF RestoreBlock, ParentRestored
<1>6. /\ blockIds \in Seq(Hash) /\ \A i \in 1..m : blockIds[i] \in DOMAIN blocks
      /\ DOMAIN blocks \subseteq Hash
      /\ \A h \in DOMAIN blocks : blocks[h] \in BlockInfo
  BY <1>3 DEF RescanInv, RescanTypes, RescanPlaces
<1>7. ~root => previous \in DOMAIN blocks
  BY <1>3, <1>5, <1>6
<1>8. info \in BlockInfo
  <2>1. total \in Nat
    <3>1. ~root => blocks[previous].totalBits \in Nat
      BY <1>6, <1>7 DEF BlockInfo
    <3> QED
      BY <1>5, <3>1
  <2>2. previous \in Hash \cup {Null}
    BY <1>6, <1>7
  <2> QED
    BY <1>3, <1>5, <2>1, <2>2 DEF BlockInfo
<1>9. /\ DOMAIN linked = DOMAIN blocks
      /\ \A h \in DOMAIN blocks : linked[h] \in BlockInfo /\ SamePlace(linked[h], blocks[h])
  <2>1. CASE root
    BY <1>6, <2>1 DEF SamePlace
  <2>2. CASE ~root
    <3> HIDE DEF previous
    <3> QED
      BY <1>5, <1>6, <1>7, <2>2, WithChildFacts
  <2> QED
    BY <2>1, <2>2
<1>10. PICK c \in Hash : c = dbBlock.hash
  BY <1>5
<1>11. /\ DOMAIN blocks' = DOMAIN blocks \cup {c}
       /\ \A h \in DOMAIN blocks : /\ blocks'[h] \in BlockInfo
                                  /\ blocks'[h].index = blocks[h].index
                                  /\ blocks'[h].height = blocks[h].height
       /\ c \notin DOMAIN blocks => blocks'[c] = info
  <2> HIDE DEF linked, info
  <2>1. /\ DOMAIN Insert(linked, c, info) = DOMAIN linked \cup {c}
        /\ \A h \in DOMAIN linked : Insert(linked, c, info)[h] = linked[h]
        /\ c \notin DOMAIN linked => Insert(linked, c, info)[c] = info
    BY InsertFacts, Zenon
  <2> QED
    BY <1>2, <1>9, <1>10, <2>1 DEF SamePlace
<1>12. /\ Len(blockIds') = m + 1 /\ blockIds' \in Seq(Hash)
       /\ \A i \in 1..m : blockIds'[i] = blockIds[i]
       /\ blockIds'[m + 1] = c
  <2>1. blockIds' = Append(blockIds, c)
    BY <1>2, <1>10
  <2> QED
    BY <1>6, <2>1, AppendProperties
<1>13. InMemory' = m + 1 /\ ToSkip' = ToSkip
  BY <1>1, <1>4, <1>12 DEF InMemory, ToSkip
<1>14. FileOrdered'
  BY <1>1 DEF RescanInv, FileOrdered
<1>15. RescanTypes'
  <2>1. \A h \in DOMAIN blocks' : blocks'[h] \in BlockInfo
    <3> HIDE DEF info
    <3> QED
      BY <1>8, <1>11
  <2>2. DOMAIN blocks' \subseteq Hash
    BY <1>6, <1>11
  <2> QED
    BY <1>1, <1>4, <1>12, <2>1, <2>2 DEF RescanInv, RescanTypes
<1>16. RescanPlaces'
  <2>1. \A i \in 1..(m + 1) : blockIds'[i] \in DOMAIN blocks'
    BY <1>3, <1>6, <1>11, <1>12
  <2>2. /\ \A i \in 1..Len(dbBlocks) : dbBlocks[i].hash <= Len(file)
        /\ position = 0
        /\ rescanIndex # NoIndex => m <= rescanIndex
    BY <1>3 DEF RescanInv, RescanPlaces
  <2>3. rescanIndex \in Nat \cup {NoIndex}
    BY DEF RescanInv, RescanTypes
  <2>4. rescanIndex # NoIndex => m + 1 <= rescanIndex
    BY <1>3, <2>3
  <2>5. m + 1 <= Len(dbBlocks)
    BY <1>3
  <2> QED
    BY <1>1, <1>3, <1>4, <1>12, <1>13, <2>1, <2>2, <2>4, <2>5 DEF RescanPlaces
<1>17. RescanTree'
  <2>1. \A h \in DOMAIN blocks' : blocks'[h].index < m + 1
    <3>1. \A h \in DOMAIN blocks : blocks[h].index \in Nat
                                 /\ (blocks[h].index < m \/ blocks[h].index = 0)
      BY <1>6 DEF RescanInv, RescanTree, BlockInfo
    <3>2. \A h \in DOMAIN blocks : blocks'[h].index < m + 1
      BY <1>3, <1>11, <3>1
    <3>3. c \notin DOMAIN blocks => blocks'[c].index < m + 1
      BY <1>3, <1>11
    <3> QED
      BY <1>11, <3>2, <3>3
  <2>2. ASSUME RecordsUpTo(m + 1)
        PROVE  /\ \A i \in 1..(m + 1) : blockIds'[i] = i
               /\ DOMAIN blocks' = 1..(m + 1)
               /\ \A h \in DOMAIN blocks' : /\ blocks'[h].index = h - 1
                                            /\ blocks'[h].height = dbBlocks[h].height
    <3>1. RecordsUpTo(m) /\ RecordOf(m + 1)
      BY <1>3, <2>2 DEF RecordsUpTo
    <3>2. c = m + 1
      BY <1>10, <3>1 DEF RecordOf
    <3>3. /\ \A i \in 1..m : blockIds[i] = i
          /\ DOMAIN blocks = 1..m
          /\ \A h \in DOMAIN blocks : /\ blocks[h].index = h - 1
                                      /\ blocks[h].height = dbBlocks[h].height
      BY <1>4, <3>1 DEF RescanInv, RescanTree, SkipsBlocks
    <3>4. DOMAIN blocks' = 1..(m + 1) /\ c \notin DOMAIN blocks
      BY <1>3, <1>11, <3>2, <3>3
    <3>5. \A i \in 1..(m + 1) : blockIds'[i] = i
      BY <1>3, <1>12, <3>2, <3>3
    <3>6. blocks'[c].index = m /\ blocks'[c].height = dbBlocks[c].height
      BY <1>11, <3>2, <3>4
    <3>7. \A h \in 1..m : blocks'[h].index = h - 1 /\ blocks'[h].height = dbBlocks[h].height
      BY <1>11, <3>3
    <3>8. \A h \in 1..(m + 1) : h \in 1..m \/ h = c
      BY <1>3, <3>2
    <3>9. c - 1 = m
      BY <1>3, <3>2
    <3> HIDE DEF info
    <3> QED
      BY <3>4, <3>5, <3>6, <3>7, <3>8, <3>9
  <2>3. ParentsBelow' /\ (RecordsUpTo(InMemory)' => RecordsUpTo(m + 1))
    BY <1>1, <1>13 DEF RescanInv, RescanTree, ParentsBelow, RecordsUpTo, RecordOf
  <2> QED
    BY <1>1, <1>4, <1>12, <1>13, <2>1, <2>2, <2>3 DEF RescanTree, SkipsBlocks
<1> QED
  BY <1>14, <1>15, <1>16, <1>17 DEF RescanInv

\* A block is read.  If it is the one of the next index and the records before
\* it are right, its parent is in the tree and its height is right.
LEMMA RescanReadBlock == RescanInv /\ ReadBlock => RescanInv'
<1> SUFFICES ASSUME RescanInv, ReadBlock PROVE RescanInv'
  OBVIOUS
<1> USE DEF dbVars, tipVars, walkVars, bestVars
<1> DEFINE m == Len(blockIds)
<1>1. PICK new : new = position + 1
  OBVIOUS
<1>2. PICK previous : previous = file[new].previous
  OBVIOUS
<1> DEFINE root  == previous = Null
           known == IF root THEN blocks ELSE Insert(blocks, previous, ZeroInfo)
           total == file[new].bits + (IF root THEN 0 ELSE known[previous].totalBits)
           info  == [index |-> m,
                     height |-> IF root THEN 0 ELSE known[previous].height + 1,
                     bits |-> file[new].bits, totalBits |-> total,
                     previous |-> previous, longestChain |-> NewLongest(total),
                     nexts |-> <<>>]
<1>3. /\ position' = new /\ hash' = new /\ pc' = "process"
      /\ blocks' = IF root THEN blocks ELSE WithChild(known, previous, new)
      /\ previousBlock' = IF root THEN NoIndex ELSE known[previous].index
      /\ blockInfo' = info
  BY <1>1, <1>2 DEF ReadBlock
<1>4. UNCHANGED <<file, dbBlocks, dbPosition, blockIds, rescanIndex, totalBits>>
  BY DEF ReadBlock
<1>5. /\ pc = "idle" /\ position < Len(file)
      /\ ~(rescanIndex > 0)
      /\ rescanIndex = NoIndex => m >= Len(dbBlocks)
      /\ rescanIndex \in Nat \cup {NoIndex}
      /\ m \in Nat /\ position \in Nat /\ Len(file) \in Nat /\ Len(dbBlocks) \in Nat
  BY RescanLengths DEF ReadBlock, MoreToRead, StillSkipping, BlockExists,
     RescanInv, RescanTypes
<1>6. /\ ~Importing /\ Importing' /\ ~InCommit /\ ~InCommit'
      /\ InMemory = m /\ InMemory' = m /\ ToSkip = 0 /\ ToSkip' = 0
  BY <1>3, <1>4, <1>5 DEF Importing, InCommit, InMemory, ToSkip
<1>7. /\ m <= Len(dbBlocks)
      /\ m < Len(dbBlocks) => position = m
  BY <1>5, <1>6 DEF RescanInv, RescanPlaces
<1>8. /\ new \in 1..Len(file) /\ new \in Hash
      /\ previous \in 0..(new - 1) /\ previous \in Hash \cup {Null}
      /\ file[new].bits \in Bits /\ file[new].bits \in Nat
  <2>1. new \in 1..Len(file)
    BY <1>1, <1>5
  <2> QED
    BY <1>1, <1>2, <1>5, <1>7, <2>1, RescanFile
<1> DEFINE low(info0) == info0.index < m \/ info0.index = 0
<1>9. /\ DOMAIN blocks \subseteq Hash
      /\ \A h \in DOMAIN blocks : blocks[h] \in BlockInfo /\ low(blocks[h])
  BY DEF RescanInv, RescanTypes, RescanTree, BlockInfo
<1>10. ~root => previous \in Hash /\ new # 1
  BY <1>1, <1>5, <1>8
<1>11. ZeroInfo \in BlockInfo /\ low(ZeroInfo)
  BY DEF ZeroInfo, BlockInfo
<1>12. /\ DOMAIN known = IF root THEN DOMAIN blocks ELSE DOMAIN blocks \cup {previous}
       /\ \A h \in DOMAIN blocks : known[h] = blocks[h]
       /\ \A h \in DOMAIN known : known[h] \in BlockInfo /\ low(known[h])
  <2> HIDE DEF low
  <2>1. CASE root
    BY <1>9, <2>1
  <2>2. CASE ~root
    <3>1. /\ DOMAIN Insert(blocks, previous, ZeroInfo) = DOMAIN blocks \cup {previous}
          /\ \A h \in DOMAIN blocks : Insert(blocks, previous, ZeroInfo)[h] = blocks[h]
          /\ previous \notin DOMAIN blocks =>
               Insert(blocks, previous, ZeroInfo)[previous] = ZeroInfo
      BY InsertFacts, Zenon
    <3> QED
      BY <1>5, <1>9, <1>10, <1>11, <2>2, <3>1
  <2> QED
    BY <2>1, <2>2
<1>13. /\ DOMAIN blocks' = DOMAIN known
       /\ \A h \in DOMAIN known : blocks'[h] \in BlockInfo /\ SamePlace(blocks'[h], known[h])
  <2> HIDE DEF known, low
  <2>1. CASE root
    BY <1>3, <1>12, <2>1 DEF SamePlace, known
  <2>2. CASE ~root
    <3>1. previous \in DOMAIN known
      BY <1>12, <2>2
    <3> QED
      BY <1>3, <1>8, <1>12, <2>2, <3>1, WithChildFacts
  <2> QED
    BY <2>1, <2>2
<1>14. /\ info \in BlockInfo /\ previousBlock' \in Nat \cup {NoIndex}
       /\ previousBlock' < m \/ (m = 0 /\ new # 1)
  <2> HIDE DEF known
  <2>1. ~root => previous \in DOMAIN known
    BY <1>12
  <2>2. ~root => /\ known[previous].totalBits \in Nat
                 /\ known[previous].height \in Nat
                 /\ known[previous].index \in Nat
                 /\ low(known[previous])
    <3> HIDE DEF low
    <3> QED
      BY <1>12, <2>1 DEF BlockInfo
  <2>3. total \in Nat
    BY <1>8, <2>2
  <2>4. NewLongest(total) \in BOOLEAN
    BY <2>3 DEF NewLongest
  <2>5. info \in BlockInfo
    <3> HIDE DEF total
    <3> QED
      BY <1>5, <1>8, <2>2, <2>3, <2>4 DEF BlockInfo
  <2> QED
    BY <1>3, <1>5, <1>10, <2>2, <2>5
<1>15. FileOrdered'
  BY <1>4 DEF RescanInv, FileOrdered
<1>16. RescanTypes'
  <2>1. DOMAIN blocks' \subseteq Hash /\ \A h \in DOMAIN blocks' : blocks'[h] \in BlockInfo
    <3> HIDE DEF known
    <3> QED
      BY <1>9, <1>10, <1>12, <1>13
  <2>2. blockInfo' \in BlockInfo /\ blockInfo'.bits = file[new].bits
    BY <1>3, <1>14
  <2>3. position' \in Nat
    BY <1>1, <1>3, <1>5
  <2> QED
    BY <1>3, <1>4, <1>8, <1>14, <2>1, <2>2, <2>3 DEF RescanInv, RescanTypes
<1>17. RescanPlaces'
  <2>1. \A i \in 1..Len(dbBlocks) : dbBlocks[i].hash <= Len(file)
    BY DEF RescanInv, RescanPlaces
  <2>2. m < Len(dbBlocks) => new = m + 1
    BY <1>1, <1>5, <1>7
  <2> QED
    BY <1>3, <1>4, <1>6, <1>7, <2>1, <2>2 DEF RescanPlaces, InCommit
<1>18. RescanTree'
  <2> HIDE DEF known
  <2>1. \A h \in DOMAIN blocks' : blocks'[h].index < m \/ blocks'[h].index = 0
    BY <1>12, <1>13 DEF SamePlace
  <2>2. ASSUME RecordsUpTo(m), new <= m + 1
        PROVE  /\ \A i \in 1..m : blockIds[i] = i
               /\ DOMAIN blocks' = 1..m
               /\ \A h \in DOMAIN blocks' : /\ blocks'[h].index = h - 1
                                            /\ blocks'[h].height = dbBlocks[h].height
               /\ previousBlock' = previous - 1
               /\ info.height = IF root THEN 0 ELSE dbBlocks[previous].height + 1
    <3>1. /\ \A i \in 1..m : blockIds[i] = i
          /\ DOMAIN blocks = 1..m
          /\ \A h \in DOMAIN blocks : /\ blocks[h].index = h - 1
                                      /\ blocks[h].height = dbBlocks[h].height
      BY <1>6, <2>2 DEF RescanInv, RescanTree, SkipsBlocks
    <3>2. ~root => previous \in 1..m
      BY <1>5, <1>8, <2>2
    <3>3. DOMAIN known = 1..m
      BY <1>12, <3>1, <3>2
    <3>4. \A h \in 1..m : known[h].index = h - 1 /\ known[h].height = dbBlocks[h].height
      BY <1>12, <3>1
    <3>5. previousBlock' = previous - 1
      BY <1>3, <1>8, <3>2, <3>4
    <3> QED
      BY <1>13, <3>1, <3>2, <3>3, <3>4, <3>5 DEF SamePlace
  <2>3. ParentsBelow' /\ (RecordsUpTo(InMemory)' => RecordsUpTo(m))
    BY <1>4, <1>6 DEF RescanInv, RescanTree, ParentsBelow, RecordsUpTo, RecordOf
  <2>4. SkipsBlocks' <=> ~(new <= m + 1)
    BY <1>1, <1>3, <1>5, <1>6 DEF SkipsBlocks
  <2> QED
    BY <1>2, <1>3, <1>4, <1>6, <1>14, <2>1, <2>2, <2>3, <2>4 DEF RescanTree
<1> QED
  BY <1>15, <1>16, <1>17, <1>18 DEF RescanInv

-----------------------------------------------------------------------------
(* The commit of a block.                                                  *)

\* The hash of the block gets the next index.
LEMMA RescanBeginCommit == RescanInv /\ BeginCommit => RescanInv'
<1> SUFFICES ASSUME RescanInv, BeginCommit PROVE RescanInv'
  OBVIOUS
<1> USE DEF dbVars, tipVars, importVars, bestVars, readVars
<1> DEFINE m == Len(blockIds)
<1>1. UNCHANGED <<file, dbBlocks, dbPosition, blocks, position, rescanIndex,
                  totalBits, hash, blockInfo, previousBlock>>
  BY DEF BeginCommit
<1>2. /\ pc = "process" /\ pc' \in {"walk", "redo"}
      /\ blockIds' = Append(blockIds, hash)
  BY DEF BeginCommit
<1>3. Importing /\ Importing' /\ ~InCommit /\ InCommit' /\ ToSkip' = ToSkip
  BY <1>1, <1>2 DEF Importing, InCommit, ToSkip
<1>4. m \in Nat /\ InMemory = m /\ hash \in Hash
  BY <1>3, RescanLengths, RescanFile DEF RescanInv, RescanTypes
<1>5. /\ blockIds' \in Seq(Hash) /\ Len(blockIds') = m + 1
      /\ \A i \in 1..m : blockIds'[i] = blockIds[i]
      /\ blockIds'[m + 1] = hash
  BY <1>2, <1>4, AppendProperties DEF RescanInv, RescanTypes
<1>6. InMemory' = m /\ SkipsBlocks' = SkipsBlocks
  <2>1. InMemory' = m
    BY <1>3, <1>4, <1>5 DEF InMemory
  <2> QED
    BY <1>1, <1>3, <1>4, <2>1 DEF SkipsBlocks
<1>7. FileOrdered'
  BY <1>1 DEF RescanInv, FileOrdered
<1>8. RescanTypes'
  BY <1>1, <1>2, <1>3, <1>5 DEF RescanInv, RescanTypes
<1>9. RescanPlaces'
  BY <1>1, <1>2, <1>3, <1>4, <1>5, <1>6 DEF RescanInv, RescanPlaces
<1>10. RescanTree'
  <2>1. \A h \in DOMAIN blocks : blocks[h].index < m + 1
    BY <1>4 DEF RescanInv, RescanTree, RescanTypes, BlockInfo
  <2>2. ParentsBelow' /\ (RecordsUpTo(InMemory)' => RecordsUpTo(m))
    BY <1>1, <1>6 DEF RescanInv, RescanTree, ParentsBelow, RecordsUpTo, RecordOf
  <2>3. RecordsUpTo(m) /\ ~SkipsBlocks => \A i \in 1..m : blockIds'[i] = i
    BY <1>4, <1>5 DEF RescanInv, RescanTree
  <2> QED
    BY <1>1, <1>3, <1>4, <1>5, <1>6, <2>1, <2>2, <2>3 DEF RescanInv, RescanTree
<1> QED
  BY <1>7, <1>8, <1>9, <1>10 DEF RescanInv

\* What a commit writes at index m + 1, and what it leaves in memory.
CommitsAt(m) ==
  /\ m = InMemory /\ Len(blockIds) = m + 1 /\ InMemory' = m + 1
  /\ NewDbBlock \in DbBlock
  /\ NewDbBlock.hash = hash /\ NewDbBlock.previous = previousBlock
  /\ NewDbBlock.bits = file[hash].bits
  /\ NewDbBlock.height = blockInfo.height
  /\ previousBlock + 1 < m + 1 \/ (m = 0 /\ hash # 1)
  /\ dbBlocks' \in Seq(DbBlock)
  /\ Len(dbBlocks') \in Nat
  /\ dbBlocks'[m + 1] = NewDbBlock
  /\ m + 1 \in 1..Len(dbBlocks')
  /\ \/ /\ m < Len(dbBlocks) /\ Len(dbBlocks') = Len(dbBlocks)
        /\ hash = m + 1
     \/ m = Len(dbBlocks) /\ Len(dbBlocks') = m + 1
  /\ \A i \in 1..Len(dbBlocks') :
       i # m + 1 => i \in 1..Len(dbBlocks) /\ dbBlocks'[i] = dbBlocks[i]
  /\ hash \in Nat /\ hash >= 1 /\ hash \in 1..Len(file) /\ hash \in Hash
  /\ position = hash /\ dbPosition' = hash
  /\ blocks' = Insert(blocks, hash, blockInfo)
  /\ blockInfo.index = m /\ blockInfo \in BlockInfo
  /\ blockIds[m + 1] = hash
  /\ UNCHANGED <<file, blockIds, position, rescanIndex>>
  /\ pc = "redo" /\ pc' = "idle" /\ ToSkip = 0 /\ ToSkip' = 0
  /\ totalBits' \in {totalBits, blockInfo.totalBits}

\* The end of a commit is one for the index after those in memory.
LEMMA FinishFacts ==
  ASSUME RescanInv, Finish
  PROVE  \E m \in Nat : CommitsAt(m)
<1> USE DEF CommitsAt, readVars, tipVars
<1>1. pc = "redo" /\ pc' = "idle" /\ UNCHANGED <<file, blockIds, position, rescanIndex>>
  BY DEF Finish
<1>2. Importing /\ InCommit /\ ~InCommit'
  BY <1>1 DEF Importing, InCommit
<1>3. /\ hash \in 1..Len(file) /\ blockInfo \in BlockInfo
      /\ previousBlock \in Nat \cup {NoIndex}
      /\ blockInfo.bits = file[hash].bits
  BY <1>2 DEF RescanInv, RescanTypes
<1>4. /\ ToSkip = 0 /\ position = hash /\ blockInfo.index = InMemory
      /\ InMemory < Len(dbBlocks) => hash = InMemory + 1
      /\ InMemory <= Len(dbBlocks)
      /\ blockIds[Len(blockIds)] = hash
      /\ previousBlock < InMemory \/ (InMemory = 0 /\ hash # 1)
  BY <1>2 DEF RescanInv, RescanPlaces, RescanTree
<1>5. PICK m \in Nat : m = InMemory
  BY <1>3, <1>4 DEF BlockInfo
<1>6. Len(blockIds) = m + 1 /\ InMemory' = m + 1
  BY <1>1, <1>2, <1>5, RescanLengths DEF InMemory
<1>7. /\ hash \in Nat /\ hash \in Hash /\ hash >= 1
      /\ file[hash].bits \in Bits
  BY <1>3, <1>4, <1>5, RescanFile
<1>8. NewDbBlock \in DbBlock
  BY <1>3, <1>7 DEF NewDbBlock, DbBlock, BlockInfo
<1>9. /\ NewDbBlock.hash = hash /\ NewDbBlock.previous = previousBlock
      /\ NewDbBlock.bits = file[hash].bits
      /\ NewDbBlock.height = blockInfo.height
  BY <1>3 DEF NewDbBlock
<1>10. PICK rec \in DbBlock : rec = NewDbBlock
  BY <1>8
<1>11. PICK db \in Seq(DbBlock) : db = dbBlocks
  BY DEF RescanInv, RescanTypes
<1>12. Len(db) \in Nat /\ m <= Len(db)
  BY <1>4, <1>5, <1>11, RescanLengths
<1>13. dbBlocks' = IF m < Len(db) THEN [db EXCEPT ![m + 1] = rec] ELSE Append(db, rec)
  BY <1>4, <1>5, <1>10, <1>11 DEF Finish
<1>14. /\ dbBlocks' \in Seq(DbBlock) /\ Len(dbBlocks') \in Nat
       /\ dbBlocks'[m + 1] = rec /\ m + 1 \in 1..Len(dbBlocks')
       /\ \/ m < Len(db) /\ Len(dbBlocks') = Len(db)
          \/ m = Len(db) /\ Len(dbBlocks') = m + 1
       /\ \A i \in 1..Len(dbBlocks') :
            i # m + 1 => i \in 1..Len(db) /\ dbBlocks'[i] = db[i]
  <2>1. CASE m < Len(db)
    <3>1. m + 1 \in 1..Len(db)
      BY <1>12, <2>1
    <3> QED
      BY <1>12, <1>13, <2>1, <3>1, ExceptSeq
  <2>2. CASE m = Len(db)
    BY <1>12, <1>13, <2>2, AppendProperties
  <2> QED
    BY <1>12, <2>1, <2>2
<1>15. dbPosition' = hash
  BY <1>4 DEF Finish, SavedPosition
<1>16. blocks' = Insert(blocks, hash, blockInfo) /\ ToSkip' = 0
       /\ totalBits' \in {totalBits, blockInfo.totalBits}
  BY <1>1, <1>4 DEF Finish, ToSkip
<1>17. previousBlock + 1 < m + 1 \/ (m = 0 /\ hash # 1)
  BY <1>3, <1>4, <1>5
<1> WITNESS m \in Nat
<1>18. m < Len(dbBlocks) => hash = m + 1
  BY <1>4, <1>5
<1>19. blockInfo.index = m /\ blockIds[m + 1] = hash
  BY <1>4, <1>5, <1>6
<1> QED
  BY <1>1, <1>3, <1>4, <1>5, <1>6, <1>7, <1>8, <1>9, <1>10, <1>11, <1>14, <1>15,
     <1>16, <1>17, <1>18, <1>19, Zenon

\* The commit ends: the record is written and the block joins the tree.
LEMMA RescanFinish == RescanInv /\ Finish => RescanInv'
<1> SUFFICES ASSUME RescanInv, Finish PROVE RescanInv'
  OBVIOUS
<1>1. PICK m \in Nat : CommitsAt(m)
  BY FinishFacts
<1> USE DEF CommitsAt
<1>2. Importing /\ InCommit /\ ~InCommit' /\ ~Importing'
  BY <1>1 DEF Importing, InCommit
<1>3. /\ DOMAIN blocks' = DOMAIN blocks \cup {hash}
      /\ \A h \in DOMAIN blocks : blocks'[h] = blocks[h]
      /\ hash \notin DOMAIN blocks => blocks'[hash] = blockInfo
  <2>1. /\ DOMAIN Insert(blocks, hash, blockInfo) = DOMAIN blocks \cup {hash}
        /\ \A h \in DOMAIN blocks : Insert(blocks, hash, blockInfo)[h] = blocks[h]
        /\ hash \notin DOMAIN blocks => Insert(blocks, hash, blockInfo)[hash] = blockInfo
    BY InsertFacts, Zenon
  <2> QED
    BY <1>1, <2>1, Zenon
<1>4. FileOrdered'
  BY <1>1 DEF RescanInv, FileOrdered
<1>5. RescanTypes'
  <2>1. totalBits' \in Nat
    BY <1>1 DEF RescanInv, RescanTypes, BlockInfo
  <2>2. DOMAIN blocks' \subseteq Hash /\ \A h \in DOMAIN blocks' : blocks'[h] \in BlockInfo
    BY <1>1, <1>3 DEF RescanInv, RescanTypes
  <2>3. dbPosition' \in Nat
    BY <1>1
  <2> QED
    BY <1>1, <1>2, <2>1, <2>2, <2>3 DEF RescanInv, RescanTypes
<1>6. RescanPlaces'
  <2>1. \A i \in 1..Len(dbBlocks') : dbBlocks'[i].hash <= Len(file)
    <3> SUFFICES ASSUME NEW i \in 1..Len(dbBlocks') PROVE dbBlocks'[i].hash <= Len(file)
      OBVIOUS
    <3>1. CASE i = m + 1
      BY <1>1, <3>1, RescanLengths
    <3>2. CASE i # m + 1
      BY <1>1, <3>2 DEF RescanInv, RescanPlaces
    <3> QED
      BY <3>1, <3>2
  <2>2. m + 1 <= Len(dbBlocks')
    BY <1>1
  <2>3. m + 1 < Len(dbBlocks') => hash = m + 1
    BY <1>1, RescanLengths
  <2>4. hash + 0 = hash
    BY <1>1
  <2> QED
    BY <1>1, <1>2, <2>1, <2>2, <2>3, <2>4 DEF RescanPlaces
<1>7. RescanTree'
  <2>1. ParentsBelow'
    <3> SUFFICES ASSUME NEW i \in 1..Len(dbBlocks')
                 PROVE  \/ dbBlocks'[i].previous + 1 < i
                        \/ i = 1 /\ dbBlocks'[i].hash # 1
      BY DEF ParentsBelow
    <3>1. CASE i = m + 1
      BY <1>1, <3>1
    <3>2. CASE i # m + 1
      BY <1>1, <3>2, RescanRecord
    <3> QED
      BY <3>1, <3>2
  <2>2. \A h \in DOMAIN blocks' : blocks'[h].index < m + 1
    BY <1>1, <1>3 DEF RescanInv, RescanTree
  <2>3. ASSUME RecordsUpTo(m + 1)'
        PROVE  /\ \A i \in 1..(m + 1) : blockIds[i] = i
               /\ DOMAIN blocks' = 1..(m + 1)
               /\ \A h \in DOMAIN blocks' : /\ blocks'[h].index = h - 1
                                            /\ blocks'[h].height = dbBlocks'[h].height
    <3>1. \A i \in 1..(m + 1) : RecordOf(i)'
      BY <2>3 DEF RecordsUpTo
    <3>2. hash = m + 1
      BY <1>1, <3>1 DEF RecordOf
    <3>3. RecordsUpTo(m)
      <4> SUFFICES ASSUME NEW i \in 1..m PROVE RecordOf(i)
        BY DEF RecordsUpTo
      <4>1. RecordOf(i)' /\ i # m + 1 /\ i \in 1..Len(dbBlocks') /\ i \in 1..Len(dbBlocks)
        BY <1>1, <3>1
      <4>2. dbBlocks'[i] = dbBlocks[i]
        BY <1>1, <4>1
      <4>3. dbBlocks[i].hash = i /\ dbBlocks[i].hash <= Len(file)
        BY <4>1, <4>2 DEF RecordOf, RescanInv, RescanPlaces
      <4>4. i \in 1..Len(file)
        BY <4>3, RescanLengths
      <4>5. file[i].previous \in 0..(i - 1)
        BY <4>4, RescanFile
      <4>6. file[i].previous # Null =>
              dbBlocks'[file[i].previous] = dbBlocks[file[i].previous]
        <5> SUFFICES ASSUME file[i].previous # Null
                     PROVE  dbBlocks'[file[i].previous] = dbBlocks[file[i].previous]
          OBVIOUS
        <5>1. /\ file[i].previous \in 1..Len(dbBlocks') /\ file[i].previous # m + 1
          BY <1>1, <4>1, <4>5
        <5> QED
          BY <1>1, <5>1
      <4> QED
        BY <1>1, <4>1, <4>2, <4>6 DEF RecordOf
    <3>4. /\ \A i \in 1..m : blockIds[i] = i
          /\ DOMAIN blocks = 1..m
          /\ \A h \in DOMAIN blocks : /\ blocks[h].index = h - 1
                                      /\ blocks[h].height = dbBlocks[h].height
      BY <1>1, <3>2, <3>3 DEF RescanInv, RescanTree, SkipsBlocks
    <3>5. hash \notin DOMAIN blocks /\ DOMAIN blocks' = 1..(m + 1)
      BY <1>3, <3>2, <3>4
    <3>6. \A i \in 1..(m + 1) : i \in 1..m \/ i = m + 1
      OBVIOUS
    <3>7. blocks'[m + 1] = blockInfo /\ m + 1 - 1 = m
      BY <1>3, <3>2, <3>5
    <3>8. \A h \in 1..m : dbBlocks'[h] = dbBlocks[h] /\ blocks'[h] = blocks[h]
      <4> SUFFICES ASSUME NEW h \in 1..m
                   PROVE  dbBlocks'[h] = dbBlocks[h] /\ blocks'[h] = blocks[h]
        OBVIOUS
      <4>1. h \in 1..Len(dbBlocks') /\ h # m + 1
        BY <1>1
      <4>2. dbBlocks'[h] = dbBlocks[h]
        BY <1>1, <4>1
      <4>3. blocks'[h] = blocks[h]
        BY <1>3, <3>4
      <4> QED
        BY <4>2, <4>3
    <3> QED
      BY <1>1, <3>2, <3>4, <3>5, <3>6, <3>7, <3>8
  <2> QED
    BY <1>1, <1>2, <2>1, <2>2, <2>3 DEF RescanTree, SkipsBlocks
<1> QED
  BY <1>4, <1>5, <1>6, <1>7 DEF RescanInv

-----------------------------------------------------------------------------
(* The theorem.                                                            *)

\* Every step keeps the invariant of rescans.
LEMMA RescanNext == RescanInv /\ [Next]_vars => RescanInv'
<1> SUFFICES ASSUME RescanInv, [Next]_vars PROVE RescanInv'
  OBVIOUS
<1>1. CASE UNCHANGED vars
  <2>1. RecordsLeft
    BY <1>1 DEF vars, dbVars, memVars, tipVars, importVars, readVars, RecordsLeft,
       PlacesKept, RescanInv, RescanTypes
  <2> QED
    BY <2>1, RescanRecordsLeft
<1>2. CASE BlockArrives
  BY <1>2, RescanBlockArrives
<1>3. CASE Crash \/ ReadExistingBlock \/ RestoreFails
  BY <1>3, RescanDown DEF Crash, ReadExistingBlock, RestoreFails
<1>4. CASE Start
  BY <1>4, RescanStart
<1>5. CASE RestoreBlock
  BY <1>5, RescanRestoreBlock
<1>6. CASE RestorePosition
  BY <1>6, RescanRestorePosition
<1>7. CASE ReadFails \/ SkipBlock
  BY <1>7, RescanReads
<1>8. CASE ReadBlock
  BY <1>8, RescanReadBlock
<1>9. CASE BeginCommit
  BY <1>9, RescanBeginCommit
<1>10. CASE Finish
  BY <1>10, RescanFinish
<1>11. CASE SizeChain \/ RebuildChain \/ WalkBack \/ WalkEnds
            \/ UndoBlock \/ UndoEnds \/ RedoBlock
  BY <1>11, RecordsLeftSteps, RescanRecordsLeft
<1> QED
  BY <1>1, <1>2, <1>3, <1>4, <1>5, <1>6, <1>7, <1>8, <1>9, <1>10, <1>11
     DEF Next, Main, Restore, Commit

\* What a step may not do to right records.
KeepsRecords == RecordsOfFiles /\ OneIndexPerBlock' => RecordsOfFiles'

\* A commit that rewrites a record of right ones writes the same record, and one
\* that adds a record without a duplicate adds that of the next block.
LEMMA FinishKeepsRecords == RescanInv /\ NeverAhead /\ Finish => KeepsRecords
<1> SUFFICES ASSUME RescanInv, NeverAhead, Finish, RecordsOfFiles, OneIndexPerBlock'
             PROVE  RecordsOfFiles'
  BY DEF KeepsRecords
<1>1. PICK m \in Nat : CommitsAt(m)
  BY FinishFacts
<1> USE DEF CommitsAt
<1>2. Importing
  BY <1>1 DEF Importing
<1>3. Len(dbBlocks) \in Nat /\ m <= Len(dbBlocks)
  BY <1>1, RescanLengths
<1>4. \A i \in 1..Len(dbBlocks) : RecordOf(i)
  BY DEF RecordsOfFiles, RecordsUpTo
<1>5. hash = m + 1
  <2> SUFFICES ASSUME m = Len(dbBlocks), hash # m + 1 PROVE FALSE
    BY <1>1
  <2>1. hash \in 1..m
    BY <1>1, <1>2 DEF NeverAhead
  <2>2. dbBlocks'[hash] = dbBlocks[hash]
    BY <1>1, <2>1
  <2>3. dbBlocks'[hash].hash = dbBlocks'[m + 1].hash
    BY <1>1, <1>4, <2>1, <2>2 DEF RecordOf
  <2>4. hash \in 1..Len(dbBlocks') /\ m + 1 \in 1..Len(dbBlocks')
    BY <1>1, <2>1
  <2> QED
    BY <2>3, <2>4 DEF OneIndexPerBlock
<1>6. /\ previousBlock = file[hash].previous - 1
      /\ blockInfo.height = IF file[hash].previous = Null THEN 0
                            ELSE dbBlocks[file[hash].previous].height + 1
  <2>1. RecordsUpTo(InMemory)
    BY <1>1, <1>3, <1>4 DEF RecordsUpTo
  <2> QED
    BY <1>1, <1>2, <1>5, <2>1 DEF RescanInv, RescanTree, SkipsBlocks
<1>7. file[hash].previous \in 0..m
  <2>1. file[hash].previous \in 0..(hash - 1)
    BY <1>1, RescanFile
  <2> QED
    BY <1>5, <2>1
<1>8. \A i \in 1..Len(dbBlocks) : dbBlocks'[i].height = dbBlocks[i].height
  <2> SUFFICES ASSUME NEW i \in 1..Len(dbBlocks) PROVE dbBlocks'[i].height = dbBlocks[i].height
    OBVIOUS
  <2>1. CASE i = m + 1
    BY <1>1, <1>4, <1>5, <1>6, <2>1 DEF RecordOf
  <2>2. CASE i # m + 1
    <3>1. i \in 1..Len(dbBlocks')
      BY <1>1, <1>3
    <3> QED
      BY <1>1, <2>2, <3>1
  <2> QED
    BY <2>1, <2>2
<1>9. ASSUME NEW i \in 1..Len(dbBlocks') PROVE RecordOf(i)'
  <2>1. CASE i = m + 1
    <3>1. file[hash].previous # Null => file[hash].previous \in 1..Len(dbBlocks)
      BY <1>3, <1>7
    <3>2. file[hash].previous # Null =>
            dbBlocks'[file[hash].previous].height = dbBlocks[file[hash].previous].height
      BY <1>8, <3>1
    <3> QED
      BY <1>1, <1>5, <1>6, <2>1, <3>2 DEF RecordOf
  <2>2. CASE i # m + 1
    <3>1. i \in 1..Len(dbBlocks) /\ dbBlocks'[i] = dbBlocks[i] /\ RecordOf(i)
      BY <1>1, <1>4, <2>2
    <3>2. dbBlocks[i].hash = i /\ dbBlocks[i].hash <= Len(file)
      BY <3>1 DEF RecordOf, RescanInv, RescanPlaces
    <3>3. i \in 1..Len(file)
      BY <3>1, <3>2, RescanLengths
    <3>4. file[i].previous \in 0..(i - 1)
      BY <3>3, RescanFile
    <3>5. file[i].previous # Null => file[i].previous \in 1..Len(dbBlocks)
      BY <1>3, <3>1, <3>4
    <3> QED
      BY <1>1, <1>8, <3>1, <3>5 DEF RecordOf
  <2> QED
    BY <2>1, <2>2
<1> QED
  BY <1>9 DEF RecordsOfFiles, RecordsUpTo

\* No other step makes a right record wrong.
LEMMA NextKeepsRecords == RescanInv /\ NeverAhead /\ [Next]_vars => KeepsRecords
<1> SUFFICES ASSUME RescanInv, NeverAhead, [Next]_vars PROVE KeepsRecords
  OBVIOUS
<1>1. CASE Finish
  BY <1>1, FinishKeepsRecords
<1>2. CASE BlockArrives
  <2> SUFFICES ASSUME RecordsOfFiles PROVE RecordsOfFiles'
    BY DEF KeepsRecords
  <2>1. UNCHANGED dbBlocks
    BY <1>2 DEF BlockArrives, dbVars
  <2>2. \A k \in 1..Len(file) : file'[k] = file[k]
    BY <1>2 DEF BlockArrives, RescanInv, RescanTypes
  <2> SUFFICES ASSUME NEW i \in 1..Len(dbBlocks) PROVE RecordOf(i)'
    BY <2>1 DEF RecordsOfFiles, RecordsUpTo
  <2>3. RecordOf(i)
    BY DEF RecordsOfFiles, RecordsUpTo
  <2>4. dbBlocks[i].hash = i /\ dbBlocks[i].hash <= Len(file)
    BY <2>3 DEF RecordOf, RescanInv, RescanPlaces
  <2>5. i \in 1..Len(file)
    BY <2>4, RescanLengths
  <2> QED
    BY <2>1, <2>2, <2>3, <2>5 DEF RecordOf
<1>3. CASE UNCHANGED <<file, dbBlocks>>
  BY <1>3 DEF KeepsRecords, RecordsOfFiles, RecordsUpTo, RecordOf
<1>4. Finish \/ BlockArrives \/ UNCHANGED <<file, dbBlocks>>
  BY DEF Next, Main, Restore, Commit, Crash, Down, Start, RestoreBlock, RestoreFails, SizeChain,
     RebuildChain, RestorePosition, BeginCommit, WalkBack, WalkEnds, UndoBlock,
     UndoEnds, RedoBlock, ReadFails, SkipBlock, ReadExistingBlock, ReadBlock,
     vars, dbVars
<1> QED
  BY <1>1, <1>2, <1>3, <1>4

\* As long as no rescan starts above the records, the reader never is beyond the
\* block after those in memory.
LEMMA AheadNext ==
  RescanInv /\ RescanInv' /\ NeverAhead /\ ~RescansAhead' /\ [Next]_vars => NeverAhead'
<1> SUFFICES ASSUME RescanInv, RescanInv', NeverAhead, ~RescansAhead', [Next]_vars
             PROVE  NeverAhead'
  OBVIOUS
<1> USE DEF dbVars, memVars, tipVars, importVars, walkVars, bestVars, readVars
<1>1. /\ Len(dbBlocks) \in Nat /\ Len(blockIds) \in Nat /\ position \in Nat
      /\ ToSkip \in Nat /\ rescanIndex \in Nat \cup {NoIndex}
      /\ dbPosition \in Nat
  BY RescanLengths DEF RescanInv, RescanTypes
<1>2. CASE UNCHANGED <<dbBlocks, dbPosition, blockIds, position, rescanIndex, hash, pc>>
  BY <1>2 DEF NeverAhead, Importing, InCommit, InMemory, ToSkip
<1>3. CASE Down
  <2>1. UNCHANGED <<dbBlocks, dbPosition>> /\ pc' = "down"
    BY <1>3 DEF Down
  <2> QED
    BY <2>1 DEF NeverAhead, Importing
<1>4. CASE Start
  <2>1. UNCHANGED <<dbBlocks, dbPosition>> /\ pc' = "restore"
    BY <1>4 DEF Start
  <2>2. rescanIndex' \in Nat \cup {NoIndex}
    BY DEF RescanInv, RescanTypes
  <2> QED
    BY <1>1, <2>1, <2>2 DEF NeverAhead, Importing, RescansAhead
<1>5. CASE RestoreBlock
  BY <1>5 DEF RestoreBlock, NeverAhead, Importing
<1>6. CASE SizeChain
  <2>1. /\ UNCHANGED <<dbBlocks, dbPosition, blockIds, rescanIndex>>
        /\ pc = "restore" /\ pc' = "rebuild" /\ ~MoreToRestore
    BY <1>6 DEF SizeChain
  <2>2. /\ Len(blockIds) <= Len(dbBlocks)
        /\ rescanIndex # NoIndex => Len(blockIds) <= rescanIndex
    BY <2>1, RescanLengths DEF RescanInv, RescanPlaces, InCommit
  <2>3. rescanIndex <= Len(dbBlocks) /\ dbPosition <= Len(dbBlocks)
    BY <2>1 DEF NeverAhead
  <2>4. Len(blockIds) = IF rescanIndex = NoIndex THEN Len(dbBlocks) ELSE rescanIndex
    BY <1>1, <2>1, <2>2, <2>3 DEF MoreToRestore
  <2> QED
    BY <2>1, <2>3, <2>4 DEF NeverAhead, Importing
<1>7. CASE RestorePosition
  <2>1. /\ UNCHANGED <<dbBlocks, dbPosition, blockIds, rescanIndex>>
        /\ pc = "rebuild" /\ pc' = "idle"
        /\ position' = IF rescanIndex = NoIndex THEN dbPosition ELSE position
    BY <1>7 DEF RestorePosition
  <2>2. /\ position = 0 /\ dbPosition <= Len(dbBlocks)
        /\ Len(blockIds) = IF rescanIndex = NoIndex THEN Len(dbBlocks) ELSE rescanIndex
    BY <2>1 DEF NeverAhead, RescanInv, RescanPlaces
  <2>3. position' + ToSkip' <= Len(blockIds)
    BY <1>1, <2>1, <2>2 DEF ToSkip
  <2> QED
    BY <2>1, <2>2, <2>3 DEF NeverAhead, Importing
<1>8. CASE ReadFails \/ SkipBlock
  <2>1. UNCHANGED <<dbBlocks, dbPosition, blockIds, pc>> /\ pc = "idle"
    BY <1>8 DEF ReadFails, SkipBlock
  <2>2. position' + ToSkip' <= position + ToSkip
    BY <1>1, <1>8 DEF ReadFails, SkipBlock, StillSkipping, ToSkip
  <2>3. position' \in Nat /\ ToSkip' \in Nat
    BY RescanLengths, <1>1, <1>8 DEF ReadFails, SkipBlock, StillSkipping, ToSkip
  <2>4. position + ToSkip <= Len(blockIds) /\ dbPosition <= Len(dbBlocks)
    BY <2>1 DEF NeverAhead
  <2>5. PICK n \in Nat : n = Len(blockIds) /\ n = Len(blockIds')
    BY <1>1, <2>1
  <2>6. PICK skip \in Nat, read \in Nat : skip = ToSkip' /\ read = position'
    BY <2>3, Zenon
  <2>7. PICK skipped \in Nat, had \in Nat : skipped = ToSkip /\ had = position
    BY <1>1, Zenon
  <2>8. read + skip <= n
    <3>1. read + skip <= had + skipped
      BY <2>2, <2>6, <2>7, Zenon
    <3>2. had + skipped <= n
      BY <2>4, <2>5, <2>7, Zenon
    <3> QED
      BY <3>1, <3>2
  <2>9. position' + ToSkip' <= Len(blockIds')
    BY <2>5, <2>6, <2>8, Zenon
  <2> QED
    BY <2>1, <2>4, <2>9 DEF NeverAhead, Importing
<1>9. CASE ReadBlock
  <2>1. /\ UNCHANGED <<dbBlocks, dbPosition, blockIds>>
        /\ pc = "idle" /\ pc' = "process" /\ hash' = position + 1
    BY <1>9 DEF ReadBlock
  <2>2. position <= Len(blockIds) /\ InMemory' = Len(blockIds)
    BY <1>1, <2>1 DEF NeverAhead, InMemory, InCommit
  <2> QED
    BY <1>1, <2>1, <2>2 DEF NeverAhead, Importing
<1>10. CASE BeginCommit
  <2>1. /\ UNCHANGED <<dbBlocks, dbPosition, hash>>
        /\ pc = "process" /\ pc' \in {"walk", "redo"}
        /\ blockIds' = Append(blockIds, hash)
    BY <1>10 DEF BeginCommit
  <2>2. Len(blockIds') = Len(blockIds) + 1
    BY <2>1 DEF RescanInv, RescanTypes
  <2>3. InMemory' = InMemory
    BY <1>1, <2>1, <2>2 DEF InMemory, InCommit
  <2> QED
    BY <2>1, <2>3 DEF NeverAhead, Importing
<1>11. CASE Finish
  <2>1. PICK m \in Nat : CommitsAt(m)
    BY <1>11, FinishFacts
  <2>2. hash <= m + 1
    BY <2>1 DEF CommitsAt, NeverAhead, Importing
  <2>3. /\ pc' = "idle" /\ dbPosition' = hash /\ position' = hash /\ ToSkip' = 0
        /\ position' + ToSkip' = hash
        /\ Len(blockIds') = m + 1 /\ Len(dbBlocks') >= m + 1
        /\ hash \in Nat /\ Len(dbBlocks') \in Nat
    BY <2>1 DEF CommitsAt
  <2> QED
    BY <2>2, <2>3 DEF NeverAhead, Importing
<1>12. CASE RebuildChain \/ WalkBack \/ WalkEnds \/ UndoBlock \/ UndoEnds \/ RedoBlock
  <2>1. /\ UNCHANGED <<dbBlocks, dbPosition, blockIds, position, rescanIndex, hash>>
        /\ pc' = pc \/ (InCommit /\ InCommit')
    BY <1>12 DEF RebuildChain, WalkBack, WalkEnds, UndoBlock, UndoEnds, RedoBlock, InCommit
  <2>2. CASE pc' = pc
    BY <1>2, <2>1, <2>2
  <2>3. CASE InCommit /\ InCommit'
    BY <2>1, <2>3 DEF NeverAhead, Importing, InCommit, InMemory
  <2> QED
    BY <2>1, <2>2, <2>3
<1>13. \/ UNCHANGED <<dbBlocks, dbPosition, blockIds, position, rescanIndex, hash, pc>>
       \/ Down \/ Start \/ RestoreBlock \/ SizeChain \/ RestorePosition
       \/ ReadFails \/ SkipBlock \/ ReadBlock \/ BeginCommit \/ Finish
       \/ RebuildChain \/ WalkBack \/ WalkEnds \/ UndoBlock \/ UndoEnds \/ RedoBlock
  <2>1. BlockArrives => UNCHANGED <<dbBlocks, dbPosition, blockIds, position, rescanIndex,
                                    hash, pc>>
    BY DEF BlockArrives
  <2>2. vars' = vars => UNCHANGED <<dbBlocks, dbPosition, blockIds, position, rescanIndex,
                                    hash, pc>>
    BY DEF vars
  <2> QED
    BY <2>1, <2>2 DEF Next, Main, Restore, Commit, Crash, RestoreFails, ReadExistingBlock
<1> QED
  BY <1>2, <1>3, <1>4, <1>5, <1>6, <1>7, <1>8, <1>9, <1>10, <1>11, <1>12, <1>13

\* The first start reads no block ahead, and its records are right.
LEMMA AheadInit == Init => NeverAhead /\ RecordsOfFiles
<1> SUFFICES ASSUME Init PROVE NeverAhead /\ RecordsOfFiles
  OBVIOUS
<1>1. NeverAhead
  BY DEF Init, NeverAhead, Importing, ToSkip, NoIndex
<1>2. RecordsOfFiles
  BY DEF Init, RecordsOfFiles, RecordsUpTo
<1> QED
  BY <1>1, <1>2

\* As long as no rescan starts above the records, whatever the crashes and the
\* other rescans, no step makes right records wrong but a commit that gives a
\* block a second index.
THEOREM RightRecordsKept == Spec => ([]~RescansAhead => [][KeepsRecords]_vars)
<1>1. RescanInv /\ NeverAhead /\ [Next]_vars => [KeepsRecords]_vars
  BY NextKeepsRecords
<1> QED
  BY <1>1, RescanInit, RescanNext, AheadInit, AheadNext, PTL DEF Spec

\* Whatever the crashes and the rescans, a restore finds the parent of every
\* record before it, unless the first block was skipped; and only a second index
\* for a block or a rescan above the records makes a wrong record.
THEOREM AlwaysRestorable == Spec => Restorable
<1>1. RescanInv => ParentsBelow
  BY DEF RescanInv, RescanTree
<1>2. RescanInv /\ NeverAhead /\ RecordsOfFiles /\ OneIndexPerBlock' /\ [Next]_vars
        => RecordsOfFiles'
  BY NextKeepsRecords DEF KeepsRecords
<1>3. Spec => []ParentsBelow
  BY <1>1, RescanInit, RescanNext, PTL DEF Spec
<1>4. Spec => ([](OneIndexPerBlock /\ ~RescansAhead) => []RecordsOfFiles)
  BY <1>2, RescanInit, RescanNext, AheadInit, AheadNext, PTL DEF Spec
<1> QED
  BY <1>3, <1>4 DEF Restorable
===============================================================================

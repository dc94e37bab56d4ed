-------------------------- MODULE AddressIndexProofs --------------------------
(***************************************************************************)
(* Proofs about AddressIndex, for every number of blocks, every value of   *)
(* their bits, any number of operations in a block, all requests and every *)
(* number of crashes.                                                      *)
(***************************************************************************)
EXTENDS AddressIndex, ChainIndexProofs, FiniteSetTheorems

\* What ChainIndex does, AddressIndex does too: its steps are those of
\* ChainIndex.
LEMMA StepOfChain == ASSUME [AddressNext]_allVars PROVE [Next]_vars
<1>1. CASE UNCHANGED allVars
  BY <1>1 DEF allVars
<1>2. CASE BlockOfAddressArrives \/ CrashOperations
  BY <1>2 DEF BlockOfAddressArrives, CrashOperations, Next
<1>3. CASE ReadOperations
  BY <1>3 DEF ReadOperations, Next, Main
<1>4. CASE ProcessOperation
  BY <1>4 DEF ProcessOperation
<1>5. CASE CommitOperations \/ UndoOperations \/ WriteOperations
  BY <1>5 DEF CommitOperations, UndoOperations, WriteOperations, Next, Main, Commit
<1>6. CASE NoOperations
  BY <1>6 DEF NoOperations, Next, Main, Commit
<1>7. CASE Query
  BY <1>7 DEF Query, QueryStarts, QueryCopies, QueryOpens, QueryVisits, QueryReturns
<1> QED
  BY <1>1, <1>2, <1>3, <1>4, <1>5, <1>6, <1>7 DEF AddressNext

LEMMA NeverRescans == NoRescans
  BY AddressAssumption DEF NoRescans

\* So the invariants of the chain hold.
ChainOf == Inv /\ RecordsOK /\ FlagsOK

LEMMA ChainInit == AddressInit => ChainOf
  BY InvInit, RecordsInit, FlagsInit DEF AddressInit, ChainOf

LEMMA ChainNext == ChainOf /\ [AddressNext]_allVars => ChainOf'
<1> SUFFICES ASSUME ChainOf, [AddressNext]_allVars PROVE ChainOf'
  OBVIOUS
<1>1. [Next]_vars
  BY StepOfChain
<1>2. Inv' /\ RecordsOK'
  BY <1>1, NeverRescans, InvNext, RecordsNext DEF ChainOf
<1> QED
  BY <1>1, <1>2, NeverRescans, FlagsNext DEF ChainOf

-----------------------------------------------------------------------------
(* One record for each operation.                                          *)

\* What the records of LevelDB and those of the batch are.
OperationsTyped ==
  /\ operations \in Seq(Nat) /\ Len(operations) = Len(file)
  /\ IsFiniteSet(dbOperations) /\ IsFiniteSet(batchOperations)
  /\ \A r \in dbOperations : r.block \in Nat

BatchRecorded ==
  /\ next \in 0..operations[hash]
  /\ \A k \in 0..(next - 1) : \E r \in batchOperations : r.transaction = k
  /\ \A r \in batchOperations :
       /\ r.block = hash - 1
       /\ r.transaction \in 0..(next - 1)
       /\ r.height = Len(Path[hash]) - 1
       /\ \A s \in batchOperations : r.transaction = s.transaction => r = s

RecordedOK ==
  /\ OperationsTyped
  /\ EveryOperationRecorded
  /\ Importing => BatchRecorded
  /\ InCommit => next = operations[hash]

\* A record of LevelDB is in its place.
LEMMA RecordPlace ==
  ASSUME EveryOperationRecorded, NEW r \in dbOperations, r.block \in Nat
  PROVE  /\ r.block + 1 \in 1..Len(dbBlocks)
         /\ r.transaction \in 0..(operations[r.block + 1] - 1)
         /\ r.height = Len(Path[r.block + 1]) - 1
<1> DEFINE b == r.block + 1
           k == r.transaction
<1>1. b \in 1..Len(dbBlocks) /\ k \in 0..(operations[b] - 1)
  BY DEF EveryOperationRecorded
<1>2. PICK s \in dbOperations :
        s.block = b - 1 /\ s.transaction = k /\ s.height = Len(Path[b]) - 1
  BY <1>1 DEF EveryOperationRecorded
<1>3. b - 1 = r.block
  OBVIOUS
<1>4. r = s
  BY <1>2, <1>3 DEF EveryOperationRecorded
<1> QED
  BY <1>1, <1>2, <1>4

\* Where the import is, and how many operations its blocks have.
LEMMA ImportPlace ==
  ASSUME Inv, RecordedOK
  PROVE  /\ Len(dbBlocks) \in Nat /\ Len(file) \in Nat /\ Len(dbBlocks) <= Len(file)
         /\ \A h \in 1..Len(file) : operations[h] \in Nat
         /\ Importing => hash = Len(dbBlocks) + 1 /\ hash \in 1..Len(file)
<1>1. Len(dbBlocks) \in Nat /\ Len(file) \in Nat
  BY Lengths DEF Inv
<1>2. \A h \in 1..Len(file) : operations[h] \in Nat
  BY <1>1 DEF RecordedOK, OperationsTyped
<1> QED
  BY <1>1, <1>2 DEF Inv, Progress

\* What a step of the chain keeps of the files and of the paths in it.
FilesKept ==
  /\ Len(file) \in Nat /\ Len(file') \in Nat /\ Len(file) <= Len(file')
  /\ \A h \in 1..Len(file) : /\ file'[h] = file[h] /\ operations'[h] = operations[h]
                             /\ Path'[h] = Path[h]
  /\ Path'[0] = Path[0]
  /\ operations' \in Seq(Nat) /\ Len(operations') = Len(file')

LEMMA FilesStep ==
  ASSUME Inv, Inv', RecordedOK, [AddressNext]_allVars
  PROVE  FilesKept
<1>1. Len(file) \in Nat /\ Len(file') \in Nat
  <2>1. TypeOK /\ TypeOK'
    BY DEF Inv
  <2>2. \E S, T : file \in Seq(S) /\ file' \in Seq(T)
    BY <2>1, Zenon DEF TypeOK
  <2> QED
    BY <2>2
<1>2. CASE BlockOfAddressArrives
  <2>1. BlockArrives
    BY <1>2 DEF BlockOfAddressArrives
  <2>2. /\ Len(file) <= Len(file')
        /\ \A h \in 1..Len(file) : file'[h] = file[h]
        /\ \A h \in 0..Len(file) : Path'[h] = Path[h]
    BY <2>1, HistoryKept DEF Inv
  <2>3. Len(file') = Len(file) + 1
    BY <2>1 DEF BlockArrives, Inv, TypeOK
  <2>4. PICK n \in Counts : operations' = Append(operations, n)
    BY <1>2 DEF BlockOfAddressArrives
  <2>5. n \in Nat /\ operations \in Seq(Nat) /\ Len(operations) = Len(file)
    BY AddressAssumption DEF RecordedOK, OperationsTyped
  <2>6. /\ operations' \in Seq(Nat) /\ Len(operations') = Len(file')
        /\ \A h \in 1..Len(file) : operations'[h] = operations[h]
    BY <2>3, <2>4, <2>5, AppendProperties
  <2>7. 0 \in 0..Len(file) /\ \A h \in 1..Len(file) : h \in 0..Len(file)
    BY <1>1
  <2> QED
    BY <1>1, <2>2, <2>6, <2>7 DEF FilesKept
<1>3. CASE ~BlockOfAddressArrives
  <2>1. file' = file
    BY <1>3 DEF AddressNext, allVars, vars, CrashOperations, Crash, Down,
          ReadOperations, ReadBlock, ProcessOperation, CommitOperations, BeginCommit,
          UndoOperations, UndoBlock, WriteOperations, Finish, NoOperations, Start, Restore,
          RestoreBlock, SizeChain, RebuildChain, RestorePosition, ReadFails, WalkBack,
          WalkEnds, UndoEnds, RedoBlock, Query, QueryStarts, QueryCopies, QueryOpens,
          QueryVisits, QueryReturns
  <2>2. operations' = operations
    BY <1>3 DEF AddressNext, allVars, addressVars, CrashOperations, ReadOperations,
          ProcessOperation, CommitOperations, UndoOperations, WriteOperations, NoOperations,
          Query, QueryStarts, QueryCopies, QueryOpens, QueryVisits, QueryReturns
  <2>3. Path' = Path
    BY <2>1 DEF Path
  <2> QED
    BY <1>1, <2>1, <2>2, <2>3 DEF FilesKept, RecordedOK, OperationsTyped
<1> QED
  BY <1>2, <1>3

\* Steps that neither process an operation nor write the batch.
LEMMA RecordedKept ==
  ASSUME Inv, RecordedOK, FilesKept, UNCHANGED <<dbBlocks, dbOperations>>,
         batchOperations' \in {{}, batchOperations},
         Importing' => Importing /\ UNCHANGED <<hash, batchOperations, next>>,
         InCommit' => InCommit \/ next = operations[hash]
  PROVE  RecordedOK'
<1>1. /\ Len(dbBlocks) \in Nat /\ Len(file) \in Nat /\ Len(dbBlocks) <= Len(file)
      /\ Importing => hash \in 1..Len(file)
  BY ImportPlace
<1>2. \A h \in 1..Len(dbBlocks) : operations'[h] = operations[h] /\ Path'[h] = Path[h]
  BY <1>1 DEF FilesKept
<1>3. OperationsTyped'
  BY FS_EmptySet DEF RecordedOK, OperationsTyped, FilesKept
<1>4. EveryOperationRecorded'
  BY <1>2, SMTT(30) DEF RecordedOK, EveryOperationRecorded
<1>5. Importing' => BatchRecorded' /\ hash' = hash /\ next' = next /\ operations'[hash] = operations[hash]
  <2> SUFFICES ASSUME Importing'
               PROVE  BatchRecorded' /\ hash' = hash /\ next' = next /\ operations'[hash] = operations[hash]
    OBVIOUS
  <2>1. UNCHANGED <<hash, batchOperations, next>> /\ BatchRecorded /\ hash \in 1..Len(file)
    BY <1>1 DEF RecordedOK
  <2>2. operations'[hash] = operations[hash] /\ Path'[hash] = Path[hash]
    BY <2>1 DEF FilesKept
  <2> QED
    BY <2>1, <2>2 DEF BatchRecorded
<1>6. InCommit' => next' = operations'[hash']
  <2>1. (InCommit' => Importing') /\ (InCommit => next = operations[hash])
    BY DEF RecordedOK, InCommit, Importing
  <2> QED
    BY <1>5, <2>1
<1> QED
  BY <1>3, <1>4, <1>5, <1>6 DEF RecordedOK

\* A new block is read: nothing of it is recorded.
LEMMA RecordedRead ==
  ASSUME Inv, Inv', RecordedOK, FilesKept, ReadOperations
  PROVE  RecordedOK'
<1>1. /\ UNCHANGED <<dbBlocks, dbOperations, file, operations>>
      /\ batchOperations' = {} /\ next' = 0 /\ pc' = "process"
  BY DEF ReadOperations, ReadBlock, dbVars
<1>2. Path' = Path
  BY <1>1 DEF Path
<1>3. OperationsTyped'
  BY <1>1, FS_EmptySet DEF RecordedOK, OperationsTyped
<1>4. EveryOperationRecorded'
  BY <1>1, <1>2 DEF RecordedOK, EveryOperationRecorded
<1>5. hash' \in 1..Len(file)
  BY ReadEffect DEF ReadOperations
<1>6. operations'[hash'] \in Nat
  BY <1>1, <1>5, ImportPlace
<1>7. BatchRecorded' /\ ~InCommit'
  BY <1>1, <1>6 DEF BatchRecorded, InCommit
<1> QED
  BY <1>3, <1>4, <1>7 DEF RecordedOK

\* Records of different operations are in one order or in the other.
SameOperation(r, s) == r.block = s.block /\ r.transaction = s.transaction

LEMMA InOneOrder ==
  ASSUME NEW r, NEW s, r.height \in Int, s.height \in Int, r.transaction \in Int,
         s.transaction \in Int, r.block \in Int, s.block \in Int, ~ SameOperation(r, s)
  PROVE  Before(r, s) \/ Before(s, r)
  BY DEF Before, SameOperation

\* Then a batch joins the records that are there.
LEMMA PutNew ==
  ASSUME NEW records, NEW new, \A r \in new : \A s \in records : Before(s, r) \/ Before(r, s)
  PROVE  PutAll(records, new) = records \cup new
  BY DEF PutAll

\* What processing an operation adds to the batch.
LEMMA ProcessEffect ==
  ASSUME Inv, RecordedOK, ProcessOperation
  PROVE  \E soFar, r :
           /\ soFar \in TotalsSoFar
           /\ addressCache' = IF blockInfo.longestChain THEN {r.total} ELSE addressCache
           /\ addressOperationsBlock' = {r.total}
           /\ batchOperations' = batchOperations \cup {r}
           /\ r.total = Append(soFar, <<hash, next>>)
           /\ r.height = Len(Path[hash]) - 1 /\ r.transaction = next /\ r.block = hash - 1
           /\ Importing /\ next' = next + 1 /\ next \in 0..(operations[hash] - 1)
           /\ BatchRecorded
<1>1. PICK soFar, total :
        /\ soFar \in TotalsSoFar
        /\ total = Append(soFar, <<hash, next>>)
        /\ addressCache' = IF blockInfo.longestChain THEN {total} ELSE addressCache
        /\ addressOperationsBlock' = {total}
        /\ batchOperations' = PutAll(batchOperations,
             {[height |-> blockInfo.height, transaction |-> next,
               block |-> blockInfo.index, total |-> total]})
  BY DEF ProcessOperation
<1> DEFINE r == [height |-> blockInfo.height, transaction |-> next,
                 block |-> blockInfo.index, total |-> total]
<1>2. /\ Importing /\ next' = next + 1 /\ next < operations[hash]
  BY DEF ProcessOperation, Importing
<1>3. BatchRecorded /\ hash \in 1..Len(file) /\ hash = Len(dbBlocks) + 1
      /\ Len(dbBlocks) \in Nat /\ operations[hash] \in Nat
  BY <1>2, ImportPlace DEF RecordedOK
<1>4. next \in 0..(operations[hash] - 1)
  BY <1>2, <1>3 DEF BatchRecorded
<1>5. blockInfo.index = hash - 1
  BY <1>2, <1>3 DEF Inv, ImportOK
<1>6. blockInfo.height = Len(Path[hash]) - 1 /\ Len(Path[hash]) \in Nat
  BY <1>2, HashLength
<1>7. /\ r.total = total /\ r.height = Len(Path[hash]) - 1 /\ r.transaction = next
      /\ r.block = hash - 1
  BY <1>5, <1>6
<1>8. batchOperations' = PutAll(batchOperations, {r})
  BY <1>1
<1> HIDE DEF r
<1>9. batchOperations' = batchOperations \cup {r}
  <2>1. ASSUME NEW s \in batchOperations PROVE Before(s, r) \/ Before(r, s)
    <3>1. /\ s.block = hash - 1 /\ s.transaction \in 0..(next - 1)
          /\ s.height = Len(Path[hash]) - 1
      BY <1>3 DEF BatchRecorded
    <3>2. /\ r.height \in Int /\ s.height \in Int /\ r.block \in Int /\ s.block \in Int
          /\ r.transaction \in Int /\ s.transaction \in Int
          /\ s.transaction # r.transaction
      BY <1>3, <1>4, <1>6, <1>7, <3>1
    <3> QED
      BY <3>2, InOneOrder DEF SameOperation
  <2>2. \A q \in {r} : \A s \in batchOperations : Before(s, q) \/ Before(q, s)
    BY <2>1
  <2> QED
    BY <1>8, <2>2, PutNew
<1> QED
  BY <1>1, <1>2, <1>3, <1>4, <1>7, <1>9 DEF r

LEMMA RecordedProcess ==
  ASSUME Inv, RecordedOK, FilesKept, ProcessOperation
  PROVE  RecordedOK'
<1>1. PICK r : /\ batchOperations' = batchOperations \cup {r}
               /\ r.height = Len(Path[hash]) - 1 /\ r.transaction = next
               /\ r.block = hash - 1
  BY ProcessEffect
<1>2. next' = next + 1 /\ next \in 0..(operations[hash] - 1) /\ BatchRecorded
  BY ProcessEffect
<1>3. /\ UNCHANGED <<dbBlocks, dbOperations, file, operations, hash>> /\ pc' = "process"
  BY DEF ProcessOperation, vars, dbVars, importVars
<1>4. Path' = Path
  BY <1>3 DEF Path
<1>5. OperationsTyped'
  BY <1>1, <1>3, FS_AddElement DEF RecordedOK, OperationsTyped
<1>6. EveryOperationRecorded'
  BY <1>3, <1>4 DEF RecordedOK, EveryOperationRecorded
<1>7. BatchRecorded'
  <2>1. operations[hash] \in Nat /\ hash \in 1..Len(file)
    BY ProcessEffect, ImportPlace
  <2>2. next' \in 0..operations[hash]
    BY <1>2, <2>1
  <2>3. \A k \in 0..(next' - 1) : \E s \in batchOperations' : s.transaction = k
    <3> SUFFICES ASSUME NEW k \in 0..(next' - 1)
                 PROVE  \E s \in batchOperations' : s.transaction = k
      OBVIOUS
    <3>1. k = next \/ k \in 0..(next - 1)
      BY <1>2, <2>1
    <3> QED
      BY <1>1, <1>2, <3>1 DEF BatchRecorded
  <2>4. ASSUME NEW s \in batchOperations'
        PROVE  /\ s.block = hash - 1 /\ s.transaction \in 0..(next' - 1)
               /\ s.height = Len(Path[hash]) - 1
               /\ s = r \/ (s \in batchOperations /\ s.transaction \in 0..(next - 1))
    <3>1. CASE s = r
      <4>1. next \in 0..(next' - 1)
        BY <1>2, <2>1
      <4>2. r.transaction \in 0..(next' - 1)
        BY <1>1, <4>1
      <4> QED
        BY <1>1, <3>1, <4>2
    <3>2. CASE s \in batchOperations
      BY <1>2, <2>1, <3>2 DEF BatchRecorded
    <3> QED
      BY <1>1, <3>1, <3>2
  <2>5. ASSUME NEW s \in batchOperations', NEW t \in batchOperations',
               s.transaction = t.transaction
        PROVE  s = t
    <3>1. (s = r /\ t = r) \/ (s \in batchOperations /\ t \in batchOperations)
      BY <1>1, <1>2, <2>1, <2>4, <2>5
    <3> QED
      BY <1>2, <2>5, <3>1 DEF BatchRecorded
  <2> QED
    BY <1>3, <1>4, <2>2, <2>3, <2>4, <2>5 DEF BatchRecorded
<1> QED
  BY <1>3, <1>5, <1>6, <1>7 DEF RecordedOK, InCommit

\* The batch is written: every operation of the new block has its record.
LEMMA RecordedWrite ==
  ASSUME Inv, Inv', RecordedOK, FilesKept, WriteOperations
  PROVE  /\ RecordedOK'
         /\ dbOperations' = dbOperations \cup batchOperations
<1> DEFINE n == Len(dbBlocks)
<1>1. /\ pc = "redo" /\ pc' = "idle" /\ batchOperations' = {}
      /\ dbOperations' = PutAll(dbOperations, batchOperations)
      /\ UNCHANGED <<file, operations>>
  BY DEF WriteOperations, Finish
<1>2. Importing /\ InCommit /\ next = operations[hash] /\ BatchRecorded
  BY <1>1 DEF RecordedOK, Importing, InCommit
<1>3. n \in Nat /\ hash = n + 1 /\ hash \in 1..Len(file) /\ operations[hash] \in Nat
  BY <1>2, ImportPlace
<1>4. Len(dbBlocks') = n + 1
  BY FinishEffect DEF WriteOperations
<1>5. Path' = Path
  BY <1>1 DEF Path
<1>6. Len(Path[hash]) \in Nat
  BY <1>2, HashLength
<1>7. ASSUME NEW r \in dbOperations
      PROVE  /\ r.block \in Nat /\ r.block + 1 \in 1..n
             /\ r.transaction \in 0..(operations[r.block + 1] - 1)
             /\ r.height \in Int
  <2>1. r.block \in Nat
    BY DEF RecordedOK, OperationsTyped
  <2>2. /\ r.block + 1 \in 1..n /\ r.height = Len(Path[r.block + 1]) - 1
        /\ r.transaction \in 0..(operations[r.block + 1] - 1)
    BY <2>1, RecordPlace DEF RecordedOK
  <2>3. Len(Path[r.block + 1]) \in Nat
    BY <2>2, HeightIsLength
  <2> QED
    BY <2>1, <2>2, <2>3
<1>8. ASSUME NEW s \in batchOperations
      PROVE  /\ s.block \in Nat /\ s.block + 1 = n + 1
             /\ s.transaction \in 0..(operations[n + 1] - 1)
             /\ s.height = Len(Path[n + 1]) - 1 /\ s.height \in Int
  BY <1>2, <1>3, <1>6, SMTT(30) DEF BatchRecorded
<1>9. dbOperations' = dbOperations \cup batchOperations
  <2>1. ASSUME NEW r \in batchOperations, NEW s \in dbOperations
        PROVE  Before(s, r) \/ Before(r, s)
    <3>1. /\ s.block \in Int /\ r.block \in Int /\ s.height \in Int /\ r.height \in Int
          /\ s.block # r.block
      BY <1>3, <1>7, <1>8
    <3>2. s.transaction \in Int /\ r.transaction \in Int
      BY <1>7, <1>8
    <3> QED
      BY <3>1, <3>2, InOneOrder DEF SameOperation
  <2> QED
    BY <1>1, <2>1, PutNew
<1>10. OperationsTyped'
  <2>1. IsFiniteSet(dbOperations')
    BY <1>9, FS_Union DEF RecordedOK, OperationsTyped
  <2> QED
    BY <1>1, <1>7, <1>8, <1>9, <2>1, FS_EmptySet DEF RecordedOK, OperationsTyped
<1>11. ASSUME NEW h \in 1..(n + 1), NEW k \in 0..(operations[h] - 1)
       PROVE  \E r \in dbOperations' :
                r.block = h - 1 /\ r.transaction = k /\ r.height = Len(Path[h]) - 1
  <2>1. CASE h = n + 1
    <3>1. k \in 0..(next - 1)
      BY <1>2, <1>3, <2>1
    <3>2. PICK r \in batchOperations : r.transaction = k
      BY <1>2, <3>1 DEF BatchRecorded
    <3> QED
      BY <1>2, <1>3, <1>9, <2>1, <3>2 DEF BatchRecorded
  <2>2. CASE h # n + 1
    <3>1. h \in 1..n
      BY <1>3, <2>2
    <3> QED
      BY <1>9, <3>1 DEF RecordedOK, EveryOperationRecorded
  <2> QED
    BY <2>1, <2>2
<1>12. ASSUME NEW r \in dbOperations'
       PROVE  /\ r.block + 1 \in 1..(n + 1)
              /\ r.transaction \in 0..(operations[r.block + 1] - 1)
              /\ \A s \in dbOperations' : SameOperation(r, s) => r = s
  <2>1. r.block + 1 \in 1..(n + 1) /\ r.transaction \in 0..(operations[r.block + 1] - 1)
    BY <1>3, <1>7, <1>8, <1>9
  <2>2. ASSUME NEW s \in dbOperations', SameOperation(r, s) PROVE r = s
    <3>1. CASE r \in dbOperations /\ s \in dbOperations
      BY <2>2, <3>1 DEF RecordedOK, EveryOperationRecorded, SameOperation
    <3>2. CASE r \in batchOperations /\ s \in batchOperations
      BY <1>2, <2>2, <3>2 DEF BatchRecorded, SameOperation
    <3>3. CASE r \in dbOperations /\ s \in batchOperations
      BY <1>3, <1>7, <1>8, <2>2, <3>3 DEF SameOperation
    <3>4. CASE r \in batchOperations /\ s \in dbOperations
      BY <1>3, <1>7, <1>8, <2>2, <3>4 DEF SameOperation
    <3> QED
      BY <1>9, <3>1, <3>2, <3>3, <3>4
  <2> QED
    BY <2>1, <2>2
<1>13. EveryOperationRecorded'
  BY <1>1, <1>4, <1>5, <1>11, <1>12 DEF EveryOperationRecorded, SameOperation
<1> QED
  BY <1>1, <1>9, <1>10, <1>13 DEF RecordedOK, Importing, InCommit

\* The steps that are neither of those change neither records nor the batch.
LEMMA OtherSteps ==
  ASSUME Inv, RecordedOK, [AddressNext]_allVars
  PROVE  \/ ReadOperations \/ ProcessOperation \/ WriteOperations
         \/ /\ UNCHANGED <<dbBlocks, dbOperations>>
            /\ batchOperations' \in {{}, batchOperations}
            /\ Importing' => Importing /\ UNCHANGED <<hash, batchOperations, next>>
            /\ InCommit' => InCommit \/ next = operations[hash]
<1>1. CASE BlockOfAddressArrives \/ Query \/ UNCHANGED allVars
  BY <1>1 DEF BlockOfAddressArrives, BlockArrives, Query, QueryStarts, QueryCopies,
    QueryOpens, QueryVisits, QueryReturns, allVars, addressVars, loopVars, vars, dbVars,
    importVars, Importing, InCommit
<1>2. CASE CrashOperations
  BY <1>2 DEF CrashOperations, Crash, Down, dbVars, Importing, InCommit
<1>3. CASE CommitOperations \/ UndoOperations
  BY <1>3 DEF CommitOperations, BeginCommit, UndoOperations, UndoBlock, loopVars,
    addressVars, dbVars, importVars, Importing, InCommit
<1>4. CASE NoOperations
  <2>1. UNCHANGED <<dbOperations, batchOperations, next>>
    BY <1>4 DEF NoOperations, addressVars, loopVars
  <2>2. /\ UNCHANGED dbBlocks /\ (InCommit' => InCommit)
        /\ (Importing' => Importing /\ UNCHANGED hash)
    BY <1>4 DEF NoOperations, Start, Restore, RestoreBlock, SizeChain, RebuildChain,
      RestorePosition, ReadFails, WalkBack, WalkEnds, UndoEnds, RedoBlock, dbVars,
      importVars, Importing, InCommit
  <2> QED
    BY <2>1, <2>2
<1> QED
  BY <1>1, <1>2, <1>3, <1>4 DEF AddressNext

LEMMA RecordedNext ==
  ASSUME Inv, Inv', RecordedOK, [AddressNext]_allVars
  PROVE  RecordedOK'
<1>1. FilesKept
  BY FilesStep
<1>2. CASE ReadOperations
  BY <1>1, <1>2, RecordedRead
<1>3. CASE ProcessOperation
  BY <1>1, <1>3, RecordedProcess
<1>4. CASE WriteOperations
  BY <1>1, <1>4, RecordedWrite
<1>5. CASE ~ReadOperations /\ ~ProcessOperation /\ ~WriteOperations
  BY <1>1, <1>5, OtherSteps, RecordedKept
<1> QED
  BY <1>2, <1>3, <1>4, <1>5

LEMMA RecordedInit == AddressInit => RecordedOK
  BY FS_EmptySet DEF AddressInit, Init, RecordedOK, OperationsTyped, EveryOperationRecorded,
    Importing, InCommit

RecordedOf == ChainOf /\ RecordedOK

LEMMA RecordedAlways == AddressSpec => []RecordedOf
<1>1. AddressInit => RecordedOf
  BY ChainInit, RecordedInit DEF RecordedOf
<1>2. RecordedOf /\ [AddressNext]_allVars => RecordedOf'
  <2> SUFFICES ASSUME RecordedOf, [AddressNext]_allVars PROVE RecordedOf'
    OBVIOUS
  <2>1. ChainOf'
    BY ChainNext DEF RecordedOf
  <2>2. RecordedOK'
    BY <2>1, RecordedNext DEF RecordedOf, ChainOf
  <2> QED
    BY <2>1, <2>2 DEF RecordedOf
<1> QED
  BY <1>1, <1>2, PTL DEF AddressSpec

\* Every operation of every block in LevelDB has one record, under the height
\* of its block, whatever branches the blocks are on and whatever crashes there
\* were: no record has the key of another (main.cpp:787-795, Database.h:118-126).
THEOREM EveryOperationAlwaysRecorded == AddressSpec => []EveryOperationRecorded
<1>1. RecordedOf => EveryOperationRecorded
  BY DEF RecordedOf, RecordedOK
<1> QED
  BY <1>1, RecordedAlways, PTL

-----------------------------------------------------------------------------
(* The flags.                                                              *)

\* No block but those of the main chain is flagged, unless that has been
\* noticed; during a restore, none but those that it has put there.
OnlyChain  == \A h \in DOMAIN blocks : Flagged(h) => OnChain(h)
OnlyHigher ==
  \A h \in DOMAIN blocks : Flagged(h) =>
    \E i \in 1..Len(currentChain) :
      currentChain[i] = h /\ (walk # Null => i > blocks[walk].height + 1)

TrueFlags ==
  /\ pc = "restore" => \A h \in DOMAIN blocks : ~ Flagged(h)
  /\ pc = "rebuild" => OnlyHigher
  /\ LockFree /\ ~misled => OnlyChain

LEMMA TrueFlagsRestoreBlock ==
  ASSUME Inv, Inv', TrueFlags, RestoreBlock
  PROVE  TrueFlags'
<1>1. pc = "restore" /\ pc' = "restore"
  BY DEF RestoreBlock
<1> DEFINE dbBlock == dbBlocks[Len(blockIds) + 1]
           root == dbBlock.previous = NoIndex
           parent == IF root THEN Null ELSE blockIds[dbBlock.previous + 1]
           linked == IF root THEN blocks ELSE WithChild(blocks, parent, dbBlock.hash)
           total == (IF root THEN 0 ELSE blocks[parent].totalBits) + dbBlock.bits
           restored == [index |-> Len(blockIds), height |-> dbBlock.height,
                        bits |-> dbBlock.bits, totalBits |-> total,
                        previous |-> parent, longestChain |-> FALSE, nexts |-> <<>>]
<1>2. PICK new : /\ blocks' = Insert(linked, dbBlock.hash, new)
                 /\ new.longestChain = FALSE
  <2>1. blocks' = Insert(linked, dbBlock.hash, restored)
    BY Zenon DEF RestoreBlock
  <2>2. restored.longestChain = FALSE
    OBVIOUS
  <2> HIDE DEF restored, linked, dbBlock
  <2> QED
    BY <2>1, <2>2
<1>3. /\ DOMAIN linked = DOMAIN blocks
      /\ \A h \in DOMAIN blocks : linked[h].longestChain = blocks[h].longestChain
  <2>1. CASE root
    BY <2>1
  <2>2. CASE ~root
    <3> DEFINE child == [blocks[parent] EXCEPT !.nexts = Append(@, dbBlock.hash)]
    <3>1. linked = [blocks EXCEPT ![parent] = child]
      BY <2>2 DEF WithChild
    <3>2. parent \in DOMAIN blocks => child.longestChain = blocks[parent].longestChain
      <4>1. parent \in DOMAIN blocks => blocks[parent] \in BlockInfo
        BY DEF Inv, TypeOK
      <4> QED
        BY <4>1 DEF BlockInfo
    <3> HIDE DEF child, linked, parent
    <3> QED
      BY <3>1, <3>2
  <2> QED
    BY <2>1, <2>2
<1> HIDE DEF linked
<1>4. \A h \in DOMAIN blocks' :
        blocks'[h] = IF h \in DOMAIN blocks THEN linked[h] ELSE new
  BY <1>2, <1>3 DEF Insert
<1>5. \A h \in DOMAIN blocks' : ~ Flagged(h)'
  BY <1>1, <1>2, <1>3, <1>4 DEF TrueFlags, Flagged
<1> QED
  BY <1>1, <1>5 DEF TrueFlags, LockFree

LEMMA TrueFlagsRebuildChain ==
  ASSUME Inv, Inv', TrueFlags, RebuildChain
  PROVE  TrueFlags'
<1> DEFINE k == blocks[walk].height + 1
<1>1. /\ pc = "rebuild" /\ pc' = "rebuild" /\ walk \in DOMAIN blocks
      /\ walk' = blocks[walk].previous
      /\ currentChain' = [currentChain EXCEPT ![k] = walk]
      /\ blocks' = [blocks EXCEPT ![walk].longestChain = TRUE]
  BY DEF RebuildChain
<1>2. SameRecords
  BY QuietFacts DEF Quiet, RebuildChain
<1>3. walk # Null /\ blocks[walk] \in BlockInfo /\ k \in Nat
  <2>1. blocks[walk] \in BlockInfo /\ walk \in Hash
    BY <1>1 DEF Inv, TypeOK
  <2> QED
    BY <2>1, HashFacts DEF BlockInfo
<1>4. k \in 1..Len(currentChain) /\ Len(currentChain) \in Nat
  <2>1. k <= Len(currentChain)
    BY <1>1, <1>3 DEF Inv, RebuildOK
  <2>2. Len(currentChain) \in Nat /\ blocks[walk].height \in Nat
    BY <1>3, Lengths DEF Inv, BlockInfo
  <2> QED
    BY <2>1, <2>2
<1>5. /\ Len(currentChain') = Len(currentChain) /\ currentChain'[k] = walk
      /\ \A i \in 1..Len(currentChain) : i # k => currentChain'[i] = currentChain[i]
  <2>1. currentChain \in Seq(Hash \cup {Null})
    BY DEF Inv, TypeOK
  <2> HIDE DEF k
  <2> QED
    BY <1>1, <1>4, <2>1
<1>6. walk' # Null => k > blocks'[walk'].height + 1
  <2> SUFFICES ASSUME walk' # Null PROVE k > blocks'[walk'].height + 1
    OBVIOUS
  <2>1. walk' \in DOMAIN blocks
    BY <1>1, <1>2 DEF Inv, RebuildOK, SameRecords
  <2>2. blocks[walk].height = blocks[walk'].height + 1 /\ blocks[walk'].height \in Nat
    <3>1. DOMAIN blocks = 1..Len(blockIds) /\ walk \in 1..Len(dbBlocks)
          /\ walk' \in 1..Len(dbBlocks) /\ file[walk].previous = walk'
      BY <1>1, <2>1, TreeFacts DEF Inv, TreeOK, InCommit, Progress
    <3>2. dbBlocks[walk].height = dbBlocks[walk'].height + 1
      BY <3>1 DEF Inv, IndexedOnce, RecordsOfFiles, RecordsUpTo, RecordOf
    <3>3. blocks[walk'] \in BlockInfo
      BY <2>1 DEF Inv, TypeOK
    <3> QED
      BY <1>1, <2>1, <3>2, <3>3 DEF Inv, TreeOK, BlockInfo
  <2>3. blocks'[walk'].height = blocks[walk'].height
    BY <1>2, <2>1 DEF SameRecords
  <2> QED
    BY <2>2, <2>3
<1>7. \A h \in DOMAIN blocks : Flagged(h)' => h = walk \/ Flagged(h)
  BY <1>1, <1>3, FlagFacts DEF Flagged
<1>8. ASSUME NEW h \in DOMAIN blocks', Flagged(h)'
      PROVE  \E i \in 1..Len(currentChain') :
               currentChain'[i] = h /\ (walk' # Null => i > blocks'[walk'].height + 1)
  <2>1. CASE h = walk
    BY <1>4, <1>5, <1>6, <2>1
  <2>2. CASE h # walk
    <3>1. Flagged(h) /\ h \in DOMAIN blocks
      BY <1>2, <1>7, <1>8, <2>2 DEF SameRecords
    <3>2. PICK i \in 1..Len(currentChain) : currentChain[i] = h /\ i > k
      BY <1>1, <1>3, <3>1 DEF TrueFlags, OnlyHigher
    <3>3. walk' # Null => i > blocks'[walk'].height + 1
      <4>1. walk' # Null => blocks'[walk'].height \in Nat
        <5>1. walk' # Null => walk' \in DOMAIN blocks'
          BY <1>1 DEF Inv, RebuildOK
        <5>2. walk' # Null => blocks'[walk'] \in BlockInfo
          BY <5>1 DEF Inv, TypeOK
        <5> QED
          BY <5>2 DEF BlockInfo
      <4> HIDE DEF k
      <4> QED
        BY <1>3, <1>4, <1>6, <3>2, <4>1
    <3>4. i \in 1..Len(currentChain') /\ currentChain'[i] = h
      <4> HIDE DEF k
      <4> QED
        BY <1>4, <1>5, <3>2
    <3> QED
      BY <3>3, <3>4
  <2> QED
    BY <2>1, <2>2
<1>9. OnlyHigher'
  BY <1>8 DEF OnlyHigher
<1> QED
  BY <1>1, <1>9 DEF TrueFlags, LockFree

LEMMA TrueFlagsNext ==
  ASSUME Inv, Inv', TrueFlags, [AddressNext]_allVars
  PROVE  TrueFlags'
<1>1. CASE UNCHANGED <<blocks, currentChain, walk, pc, misled>>
  BY <1>1 DEF TrueFlags, OnlyHigher, OnlyChain, OnChain, Flagged, LockFree
<1>2. CASE BlockOfAddressArrives \/ ProcessOperation \/ Query \/ UNCHANGED allVars
  <2>1. UNCHANGED <<blocks, currentChain, walk, pc, misled>>
    BY <1>2 DEF BlockOfAddressArrives, BlockArrives, ProcessOperation, Query, QueryStarts,
      QueryCopies, QueryOpens, QueryVisits, QueryReturns, allVars, addressVars, vars,
      memVars, walkVars
  <2> QED
    BY <1>1, <2>1
<1>3. CASE CrashOperations
  <2>1. pc' = "down"
    BY <1>3 DEF CrashOperations, Crash, Down
  <2> QED
    BY <2>1 DEF TrueFlags, LockFree
<1>4. CASE ReadOperations
  <2>1. /\ ReadBlock /\ UNCHANGED <<currentChain, misled>> /\ pc = "idle" /\ pc' = "process"
    BY <1>4 DEF ReadOperations, ReadBlock
  <2>2. /\ DOMAIN blocks' = DOMAIN blocks
        /\ \A b \in DOMAIN blocks : blocks'[b].longestChain = blocks[b].longestChain
    BY <2>1, FlagsRead
  <2> QED
    BY <2>1, <2>2 DEF TrueFlags, OnlyChain, OnChain, Flagged, LockFree
<1>5. CASE WriteOperations
  <2>1. pc' = "idle" /\ (~misled' => OnlyChain')
    BY <1>5 DEF WriteOperations, Finish, OnlyChain, OnChain, Flagged
  <2> QED
    BY <2>1 DEF TrueFlags, LockFree
<1>6. CASE CommitOperations \/ UndoOperations \/ WalkBack \/ WalkEnds \/ UndoEnds \/ RedoBlock
  <2>1. pc' \in {"walk", "undo", "redo"}
    BY <1>6 DEF CommitOperations, BeginCommit, UndoOperations, UndoBlock, WalkBack,
      WalkEnds, UndoEnds, RedoBlock
  <2> QED
    BY <2>1 DEF TrueFlags, LockFree
<1>7. CASE Start
  <2>1. DOMAIN blocks' = {} /\ pc' = "restore"
    <3>1. pc' = "restore" /\ blocks' = blocks /\ pc = "down" /\ Len(blockIds) = 0
      BY <1>7 DEF Start, memVars, Inv, Progress
    <3>2. DOMAIN blocks = 1..0
      BY <3>1 DEF Inv, TreeOK, InCommit
    <3> QED
      BY <3>1, <3>2
  <2> QED
    BY <2>1 DEF TrueFlags, LockFree
<1>8. CASE SizeChain
  <2>1. pc = "restore" /\ pc' = "rebuild" /\ blocks' = blocks
    BY <1>8 DEF SizeChain
  <2> QED
    BY <2>1 DEF TrueFlags, OnlyHigher, Flagged, LockFree
<1>9. CASE RestorePosition
  <2>1. pc = "rebuild" /\ pc' = "idle" /\ UNCHANGED <<blocks, currentChain>>
    BY <1>9 DEF RestorePosition, memVars
  <2> QED
    BY <2>1 DEF TrueFlags, OnlyHigher, OnlyChain, OnChain, Flagged, LockFree
<1>10. CASE ReadFails /\ UNCHANGED addressVars
  <2>1. UNCHANGED <<blocks, currentChain, walk, pc, misled>>
    BY <1>10 DEF ReadFails, memVars, walkVars, addressVars
  <2> QED
    BY <1>1, <2>1
<1> QED
  BY <1>2, <1>3, <1>4, <1>5, <1>6, <1>7, <1>8, <1>9, <1>10, TrueFlagsRestoreBlock,
    TrueFlagsRebuildChain DEF AddressNext, NoOperations, Restore

LEMMA TrueFlagsInit == AddressInit => TrueFlags
  BY DEF AddressInit, Init, TrueFlags, OnlyChain, LockFree, NoBlocks

-----------------------------------------------------------------------------
(* What the recursive definitions compute.                                 *)

\* The operations up to a block are those up to its parent and its own.
OperationsStep(f, h) ==
  IF h = 0 THEN <<>> ELSE f[file[h].previous] \o FirstOperations(h, operations[h])

LEMMA OperationsSteps ==
  ASSUME TypeOK, FileOrdered
  PROVE  \A h \in 0..Len(file) : OperationsTo[h] = OperationsStep(OperationsTo, h)
<1> DEFINE IsTo(f, n) == f = [h \in 0..n |-> OperationsStep(f, h)]
           Bad == {n \in 0..Len(file) : ~ \E f : IsTo(f, n)}
<1>1. /\ Len(file) \in Nat
      /\ \A k \in 1..Len(file) : file[k].previous \in 0..(k - 1)
  BY Ancestry
<1>2. Bad = {}
  <2> SUFFICES ASSUME Bad # {} PROVE FALSE
    OBVIOUS
  <2>1. PICK m \in Bad : \A k \in Bad : m <= k
    <3>1. Bad \subseteq Nat
      OBVIOUS
    <3> HIDE DEF Bad
    <3> QED
      BY <3>1, LeastElement
  <2>2. m \in 0..Len(file) /\ ~ \E f : IsTo(f, m)
    BY <2>1
  <2>3. CASE m = 0
    <3> DEFINE f == [h \in 0..0 |-> <<>>]
    <3>1. IsTo(f, 0)
      BY DEF OperationsStep
    <3> QED
      BY <2>2, <2>3, <3>1
  <2>4. CASE m # 0
    <3>1. m \in 1..Len(file) /\ m - 1 \in 0..Len(file) /\ ~(m <= m - 1)
      BY <1>1, <2>2, <2>4
    <3>2. m - 1 \notin Bad
      <4> HIDE DEF Bad
      <4> QED
        BY <2>1, <3>1
    <3>3. PICK f : IsTo(f, m - 1)
      BY <3>1, <3>2
    <3> DEFINE g == [h \in 0..m |-> IF h = m THEN OperationsStep(f, m) ELSE f[h]]
    <3>4. ASSUME NEW h \in 0..m PROVE g[h] = OperationsStep(g, h)
      <4>1. h # 0 => file[h].previous \in 0..m /\ file[h].previous # m
        BY <1>1, <3>1, SMTT(30)
      <4>2. h # 0 => g[file[h].previous] = f[file[h].previous]
        BY <4>1
      <4>3. OperationsStep(g, h) = OperationsStep(f, h)
        <5> HIDE DEF g
        <5> QED
          BY <4>2, Zenon DEF OperationsStep
      <4>4. h = m \/ (h # m /\ h \in 0..(m - 1))
        BY <3>1
      <4>5. h \in 0..(m - 1) => f[h] = OperationsStep(f, h)
        BY <3>3
      <4>6. g[h] = IF h = m THEN OperationsStep(f, m) ELSE f[h]
        OBVIOUS
      <4> HIDE DEF g
      <4> QED
        BY <4>3, <4>4, <4>5, <4>6, Zenon
    <3>5. IsTo(g, m)
      BY <3>4
    <3> QED
      BY <2>2, <3>5
  <2> QED
    BY <2>3, <2>4
<1>3. PICK f : IsTo(f, Len(file))
  BY <1>1, <1>2
<1>4. OperationsTo = [h \in 0..Len(file) |-> OperationsStep(OperationsTo, h)]
  BY <1>3, Zenon DEF OperationsTo, OperationsStep, Null
<1> DEFINE step == [h \in 0..Len(file) |-> OperationsStep(OperationsTo, h)]
<1>5. \A h \in 0..Len(file) : step[h] = OperationsStep(OperationsTo, h)
  OBVIOUS
<1>6. OperationsTo = step
  BY <1>4
<1> HIDE DEF step
<1> QED
  BY <1>5, <1>6, Zenon

\* The ancestor of a block at a height is the block, a block of the main
\* chain, or that of its parent.
AncestorStep(f, h, beyond, b) ==
  IF blocks[b].height <= h THEN b
  ELSE IF blocks[b].longestChain THEN OnChainAt(h, beyond)
  ELSE f[blocks[b].previous]

LEMMA AncestorSteps ==
  ASSUME Inv, NEW h \in Nat, NEW beyond
  PROVE  \A b \in DOMAIN blocks :
           AncestorsAt(h, beyond)[b] = AncestorStep(AncestorsAt(h, beyond), h, beyond, b)
<1> DEFINE IsAt(f, n) == f = [b \in 1..n |-> AncestorStep(f, h, beyond, b)]
           Bad(n) == {m \in 0..n : ~ \E f : IsAt(f, m)}
<1>1. PICK n \in Nat : DOMAIN blocks = 1..n
  BY Lengths DEF Inv, TreeOK
<1>2. \A b \in 1..n : \/ blocks[b].height <= h
                      \/ blocks[b].previous \in 1..(b - 1)
  <2> SUFFICES ASSUME NEW b \in 1..n, ~(blocks[b].height <= h)
               PROVE  blocks[b].previous \in 1..(b - 1)
    OBVIOUS
  <2>1. Hangs(blocks[b]) /\ blocks[b].previous = file[b].previous /\ b \in 1..Len(file)
    BY <1>1, TreeFacts, ReadFacts DEF Inv, TreeOK
  <2>2. file[b].previous \in 0..(b - 1)
    BY <2>1, Ancestry DEF Inv
  <2>3. blocks[b].previous # 0
    <3>1. 0 \notin DOMAIN blocks
      BY <1>1
    <3>2. 0 <= h
      OBVIOUS
    <3> QED
      BY <2>1, <3>1, <3>2 DEF Hangs
  <2>4. b \in Nat
    BY <1>1
  <2> QED
    BY <2>1, <2>2, <2>3, <2>4
<1>3. Bad(n) = {}
  <2> SUFFICES ASSUME Bad(n) # {} PROVE FALSE
    OBVIOUS
  <2>1. PICK m \in Bad(n) : \A k \in Bad(n) : m <= k
    <3>1. Bad(n) \subseteq Nat
      OBVIOUS
    <3> HIDE DEF Bad
    <3> QED
      BY <3>1, LeastElement
  <2>2. m \in 0..n /\ ~ \E f : IsAt(f, m)
    BY <2>1
  <2>3. CASE m = 0
    <3> DEFINE f == [b \in 1..0 |-> b]
    <3>1. IsAt(f, 0)
      OBVIOUS
    <3> QED
      BY <2>2, <2>3, <3>1
  <2>4. CASE m # 0
    <3>1. m \in 1..n /\ m - 1 \in 0..n /\ ~(m <= m - 1)
      BY <1>1, <2>2, <2>4
    <3>2. m - 1 \notin Bad(n)
      <4> HIDE DEF Bad
      <4> QED
        BY <2>1, <3>1
    <3>3. PICK f : IsAt(f, m - 1)
      BY <3>1, <3>2
    <3> DEFINE g == [b \in 1..m |-> IF b = m THEN AncestorStep(f, h, beyond, m) ELSE f[b]]
    <3>4. ASSUME NEW b \in 1..m PROVE g[b] = AncestorStep(g, h, beyond, b)
      <4>1. \/ blocks[b].height <= h
            \/ blocks[b].previous \in 1..m /\ blocks[b].previous # m
        <5>1. b \in 1..n
          BY <1>1, <3>1
        <5>2. blocks[b].previous \in 1..(b - 1) =>
                blocks[b].previous \in 1..m /\ blocks[b].previous # m
          BY <3>1
        <5> QED
          BY <1>2, <5>1, <5>2
      <4>2. \/ blocks[b].height <= h
            \/ g[blocks[b].previous] = f[blocks[b].previous]
        BY <4>1
      <4>3. AncestorStep(g, h, beyond, b) = AncestorStep(f, h, beyond, b)
        <5> HIDE DEF g
        <5> QED
          BY <4>2, Zenon DEF AncestorStep
      <4>4. b = m \/ (b # m /\ b \in 1..(m - 1))
        BY <3>1
      <4>5. b \in 1..(m - 1) => f[b] = AncestorStep(f, h, beyond, b)
        BY <3>3
      <4>6. g[b] = IF b = m THEN AncestorStep(f, h, beyond, m) ELSE f[b]
        OBVIOUS
      <4> HIDE DEF g
      <4> QED
        BY <4>3, <4>4, <4>5, <4>6, Zenon
    <3>5. IsAt(g, m)
      BY <3>4
    <3> QED
      BY <2>2, <3>5
  <2> QED
    BY <2>3, <2>4
<1>4. PICK f : IsAt(f, n)
  BY <1>1, <1>3
<1> DEFINE ancestors == AncestorsAt(h, beyond)
<1>5. ancestors = [b \in 1..n |-> AncestorStep(ancestors, h, beyond, b)]
  BY <1>1, <1>4, Zenon DEF AncestorsAt, AncestorStep
<1> DEFINE step == [b \in 1..n |-> AncestorStep(ancestors, h, beyond, b)]
<1>6. \A b \in 1..n : step[b] = AncestorStep(ancestors, h, beyond, b)
  OBVIOUS
<1>7. ancestors = step
  BY <1>5
<1> HIDE DEF step, ancestors
<1>8. \A b \in 1..n : ancestors[b] = AncestorStep(ancestors, h, beyond, b)
  BY <1>6, <1>7, Zenon
<1> QED
  BY <1>1, <1>8 DEF ancestors

\* A search goes from one record to the next.
SearchRuns(search, start, beyond) ==
  /\ search[0] = [left |-> dbOperations, cursor |-> CursorAt(start), hit |-> {}]
  /\ \A k \in 1..Cardinality(dbOperations) : search[k] = Visit(search[k - 1], beyond)

LEMMA SearchSteps ==
  ASSUME IsFiniteSet(dbOperations), NEW start, NEW beyond
  PROVE  SearchRuns(Searches(start, beyond), start, beyond)
<1> DEFINE N == Cardinality(dbOperations)
           first == [left |-> dbOperations, cursor |-> CursorAt(start), hit |-> {}]
           Step(f, k) == IF k = 0 THEN first ELSE Visit(f[k - 1], beyond)
           IsRun(f, n) == f = [k \in 0..n |-> Step(f, k)]
           Bad == {n \in 0..N : ~ \E f : IsRun(f, n)}
<1>1. N \in Nat
  BY FS_CardinalityType
<1> HIDE DEF N, first
<1>2. Bad = {}
  <2> SUFFICES ASSUME Bad # {} PROVE FALSE
    OBVIOUS
  <2>1. PICK m \in Bad : \A k \in Bad : m <= k
    <3>1. Bad \subseteq Nat
      BY <1>1
    <3> HIDE DEF Bad
    <3> QED
      BY <3>1, LeastElement
  <2>2. m \in 0..N /\ ~ \E f : IsRun(f, m)
    BY <2>1
  <2>3. CASE m = 0
    <3> DEFINE f == [k \in 0..0 |-> first]
    <3>1. IsRun(f, 0)
      OBVIOUS
    <3> QED
      BY <2>2, <2>3, <3>1
  <2>4. CASE m # 0
    <3>1. m \in 1..N /\ m - 1 \in 0..N /\ ~(m <= m - 1)
      BY <1>1, <2>2, <2>4
    <3>2. m - 1 \notin Bad
      <4> HIDE DEF Bad
      <4> QED
        BY <2>1, <3>1
    <3>3. PICK f : IsRun(f, m - 1)
      BY <3>1, <3>2
    <3> DEFINE g == [k \in 0..m |-> IF k = m THEN Step(f, m) ELSE f[k]]
    <3>4. ASSUME NEW k \in 0..m PROVE g[k] = Step(g, k)
      <4>1. k # 0 => g[k - 1] = f[k - 1]
        BY <3>1
      <4>2. Step(g, k) = Step(f, k)
        <5> HIDE DEF g
        <5> QED
          BY <4>1, Zenon
      <4>3. k = m \/ (k # m /\ k \in 0..(m - 1))
        BY <3>1
      <4>4. k \in 0..(m - 1) => f[k] = Step(f, k)
        <5> HIDE DEF Step
        <5> QED
          BY <3>3
      <4>5. g[k] = IF k = m THEN Step(f, m) ELSE f[k]
        <5> HIDE DEF Step
        <5> QED
          OBVIOUS
      <4> HIDE DEF g, Step
      <4> QED
        BY <4>2, <4>3, <4>4, <4>5, Zenon
    <3>5. IsRun(g, m)
      BY <3>4
    <3> QED
      BY <2>2, <3>5
  <2> QED
    BY <2>3, <2>4
<1>3. PICK f : IsRun(f, N)
  BY <1>1, <1>2
<1> DEFINE search == Searches(start, beyond)
<1>4. search = [k \in 0..N |-> Step(search, k)]
  BY <1>3, Zenon DEF Searches, N, first
<1> DEFINE step == [k \in 0..N |-> Step(search, k)]
<1>5. \A k \in 0..N : step[k] = Step(search, k)
  OBVIOUS
<1>6. search = step
  BY <1>4
<1> HIDE DEF step, search
<1>7. \A k \in 0..N : search[k] = Step(search, k)
  BY <1>5, <1>6, Zenon
<1>8. search[0] = first
  BY <1>1, <1>7
<1>9. \A k \in 1..N : search[k] = Visit(search[k - 1], beyond)
  <2>1. \A k \in 1..N : k \in 0..N /\ k # 0
    BY <1>1
  <2> QED
    BY <1>7, <2>1, Zenon
<1> QED
  BY <1>8, <1>9 DEF SearchRuns, N, first, search

\* The path of a block of a path is the part of the path up to it.
LEMMA PathOfPath ==
  ASSUME TypeOK, FileOrdered
  PROVE  \A g \in 0..Len(file) : \A i \in 1..Len(Path[g]) : \A m \in 1..i :
           Path[Path[g][i]][m] = Path[g][m]
<1> DEFINE Good(g) == \A i \in 1..Len(Path[g]) : \A m \in 1..i :
                        Path[Path[g][i]][m] = Path[g][m]
           Bad == {g \in 0..Len(file) : ~ Good(g)}
<1>1. SUFFICES ASSUME Bad # {} PROVE FALSE
  OBVIOUS
<1>2. PICK g \in Bad : \A k \in Bad : g <= k
  <2>1. Bad \subseteq Nat
    OBVIOUS
  <2> HIDE DEF Bad
  <2> QED
    BY <1>1, <2>1, LeastElement
<1>3. g \in 0..Len(file) /\ ~ Good(g)
  BY <1>2
<1>4. CASE g = 0
  <2>1. Path[0] = <<>> /\ Len(Path[g]) = 0
    BY <1>4, PathSteps
  <2>2. 1..Len(Path[g]) = {}
    BY <2>1
  <2> QED
    BY <1>3, <2>2
<1>5. CASE g # 0
  <2> DEFINE p == file[g].previous
  <2>1. g \in 1..Len(file) /\ Len(file) \in Nat
    BY <1>3, <1>5, Ancestry
  <2>2. p \in 0..(g - 1)
    BY <2>1, Ancestry
  <2>3. p \in 0..Len(file) /\ ~(g <= p)
    BY <2>1, <2>2
  <2>4. Good(p)
    <3>1. p \notin Bad
      <4> HIDE DEF Bad, p
      <4> QED
        BY <1>2, <2>3
    <3> QED
      BY <2>3, <3>1
  <2>5. /\ Len(Path[g]) = Len(Path[p]) + 1 /\ Len(Path[p]) \in Nat
        /\ Path[g][Len(Path[g])] = g
        /\ \A i \in 1..Len(Path[p]) : Path[g][i] = Path[p][i]
    BY <2>1, PathTypes
  <2>6. ASSUME NEW i \in 1..Len(Path[g]), NEW m \in 1..i
        PROVE  Path[Path[g][i]][m] = Path[g][m]
    <3>1. CASE i = Len(Path[g])
      BY <2>5, <3>1
    <3>2. CASE i # Len(Path[g])
      <4> HIDE DEF p
      <4>1. i \in 1..Len(Path[p])
        BY <2>5, <3>2
      <4>2. m \in 1..Len(Path[p])
        BY <2>5, <4>1
      <4>3. Path[g][i] = Path[p][i] /\ Path[g][m] = Path[p][m]
        BY <2>5, <4>1, <4>2
      <4>4. Path[Path[p][i]][m] = Path[p][m]
        BY <2>4, <4>1
      <4> QED
        BY <4>3, <4>4, Zenon
    <3> QED
      BY <3>1, <3>2
  <2> QED
    BY <1>3, <2>6
<1> QED
  BY <1>4, <1>5

-----------------------------------------------------------------------------
(* Searches of the branch of a block, while the flags are right.            *)

Right == LockFree /\ ChainOf /\ TrueFlags /\ ~misled

\* The tree, as a search sees it.
LEMMA TreeSeen ==
  ASSUME Right
  PROVE  /\ Len(dbBlocks) \in Nat /\ DOMAIN blocks = 1..Len(dbBlocks)
         /\ Len(dbBlocks) <= Len(file) /\ Len(file) \in Nat
         /\ \A b \in DOMAIN blocks :
              /\ b \in 1..Len(file) /\ blockIds[b] = b
              /\ Len(Path[b]) \in Nat \ {0} /\ blocks[b].height = Len(Path[b]) - 1
              /\ blocks[b].previous = file[b].previous
              /\ blocks[b].longestChain <=> OnChain(b)
<1>1. pc \in {"idle", "process"} /\ Inv /\ FlagsOK /\ OnlyChain
  BY DEF Right, LockFree, ChainOf, TrueFlags
<1>2. Len(dbBlocks) \in Nat /\ Len(file) \in Nat
  BY <1>1, Lengths DEF Inv
<1>3. DOMAIN blocks = 1..Len(dbBlocks) /\ Len(dbBlocks) <= Len(file)
      /\ Len(blockIds) = Len(dbBlocks)
  BY <1>1, TreeFacts DEF Inv, Progress
<1>4. ASSUME NEW b \in DOMAIN blocks
      PROVE  /\ b \in 1..Len(file) /\ blockIds[b] = b
             /\ Len(Path[b]) \in Nat \ {0} /\ blocks[b].height = Len(Path[b]) - 1
             /\ blocks[b].previous = file[b].previous
  BY <1>1, <1>2, <1>3, HeightIsLength DEF Inv, TreeOK
<1>5. ASSUME NEW b \in DOMAIN blocks
      PROVE  blocks[b].longestChain <=> OnChain(b)
  BY <1>1 DEF OnlyChain, Flagged, FlagsOK, OnChain
<1> QED
  BY <1>2, <1>3, <1>4, <1>5

\* The main chain below a block of it is the path of the block.
LEMMA ChainBelow ==
  ASSUME Right, NEW b \in DOMAIN blocks, OnChain(b)
  PROVE  /\ Len(Path[b]) <= Len(currentChain) /\ Len(currentChain) \in Nat
         /\ \A i \in 1..Len(Path[b]) : currentChain[i] = Path[b][i]
<1>1. Inv /\ PathAbove(currentChain, 0, Null)
  BY DEF Right, ChainOf, LockFree, Inv, ChainOK
<1>2. PICK tip : tip = TipOf(currentChain)
  OBVIOUS
<1>3. tip \in DOMAIN blocks \cup {Null} /\ currentChain = Path[tip]
  BY <1>1, <1>2, ChainIsPath
<1>4. tip \in 0..Len(file) /\ TypeOK /\ FileOrdered
  <2>1. DOMAIN blocks \subseteq 1..Len(file) /\ Len(file) \in Nat
    BY TreeSeen
  <2>2. tip \in 0..Len(file)
    BY <1>3, <2>1 DEF Null
  <2> QED
    BY <1>1, <2>2 DEF Inv
<1>5. Len(currentChain) \in Nat
  BY <1>1, Lengths DEF Inv
<1>6. PICK i \in 1..Len(currentChain) : currentChain[i] = b
  BY DEF OnChain
<1>7. Path[tip][i] = b /\ i \in 1..Len(Path[tip])
  BY <1>3, <1>6
<1>8. Len(Path[b]) = i
  BY <1>4, <1>7, PathElements
<1>9. \A m \in 1..i : Path[b][m] = Path[tip][m]
  BY <1>4, <1>7, PathOfPath
<1> QED
  BY <1>3, <1>5, <1>6, <1>8, <1>9

\* The blocks of the path of a block of the tree are in the tree.
LEMMA PathInTree ==
  ASSUME Right
  PROVE  \A b \in DOMAIN blocks : \A i \in 1..Len(Path[b]) : Path[b][i] \in DOMAIN blocks
<1>1. DOMAIN blocks = 1..Len(dbBlocks) /\ Len(dbBlocks) \in Nat
      /\ Len(dbBlocks) <= Len(file) /\ Len(file) \in Nat
  BY TreeSeen
<1>2. TypeOK /\ FileOrdered
  BY DEF Right, ChainOf, Inv
<1> DEFINE Good(b) == \A i \in 1..Len(Path[b]) : Path[b][i] \in DOMAIN blocks
           Bad == {b \in DOMAIN blocks : ~ Good(b)}
<1>3. SUFFICES ASSUME Bad # {} PROVE FALSE
  OBVIOUS
<1>4. PICK b \in Bad : \A k \in Bad : b <= k
  <2>1. Bad \subseteq Nat
    BY <1>1
  <2> HIDE DEF Bad
  <2> QED
    BY <1>3, <2>1, LeastElement
<1>5. b \in DOMAIN blocks /\ ~ Good(b) /\ b \in 1..Len(file)
  BY <1>1, <1>4
<1> DEFINE p == file[b].previous
<1>6. /\ Len(Path[b]) = Len(Path[p]) + 1 /\ Len(Path[p]) \in Nat
      /\ Path[b][Len(Path[b])] = b
      /\ \A i \in 1..Len(Path[p]) : Path[b][i] = Path[p][i]
      /\ p \in 0..(b - 1)
  BY <1>2, <1>5, PathTypes, Ancestry
<1>7. ASSUME NEW i \in 1..Len(Path[b]) PROVE Path[b][i] \in DOMAIN blocks
  <2>1. CASE i = Len(Path[b])
    BY <1>5, <1>6, <2>1
  <2>2. CASE i # Len(Path[b])
    <3> HIDE DEF p
    <3>1. i \in 1..Len(Path[p])
      BY <1>6, <2>2
    <3>2. p # 0
      <4>1. Path[0] = <<>> /\ Len(Path[0]) = 0
        BY <1>2, PathSteps
      <4> QED
        BY <1>6, <3>1, <4>1
    <3>3. p \in DOMAIN blocks /\ ~(b <= p)
      BY <1>1, <1>5, <1>6, <3>2
    <3>4. Good(p)
      <4>1. p \notin Bad
        <5> HIDE DEF Bad
        <5> QED
          BY <1>4, <3>3
      <4> QED
        BY <3>3, <4>1
    <3> QED
      BY <1>6, <3>1, <3>4
  <2> QED
    BY <2>1, <2>2
<1> QED
  BY <1>5, <1>7

AncestorAt(b, h) == IF Len(Path[b]) <= h + 1 THEN b ELSE Path[b][h + 1]

\* Above a height, a block and its parent have the same ancestor at it.
LEMMA ParentsAncestor ==
  ASSUME Right, NEW h \in Nat, NEW b \in DOMAIN blocks, h + 1 < Len(Path[b])
  PROVE  /\ file[b].previous \in DOMAIN blocks /\ file[b].previous < b
         /\ AncestorAt(file[b].previous, h) = AncestorAt(b, h)
         /\ AncestorAt(b, h) = Path[b][h + 1] /\ h + 1 \in 1..Len(Path[b])
<1> DEFINE p == file[b].previous
<1>1. /\ DOMAIN blocks = 1..Len(dbBlocks) /\ Len(dbBlocks) \in Nat
      /\ Len(dbBlocks) <= Len(file) /\ Len(file) \in Nat
      /\ b \in 1..Len(file) /\ Len(Path[b]) \in Nat \ {0}
  BY TreeSeen
<1>2. TypeOK /\ FileOrdered
  BY DEF Right, ChainOf, Inv
<1>3. /\ Len(Path[b]) = Len(Path[p]) + 1 /\ Len(Path[p]) \in Nat
      /\ \A i \in 1..Len(Path[p]) : Path[b][i] = Path[p][i]
      /\ p \in 0..(b - 1)
  BY <1>1, <1>2, PathTypes, Ancestry
<1>4. p # 0
  <2>1. Path[0] = <<>> /\ Len(Path[0]) = 0
    BY <1>2, PathSteps
  <2> QED
    BY <1>3, <2>1
<1>5. p \in DOMAIN blocks /\ p < b
  BY <1>1, <1>3, <1>4
<1>6. AncestorAt(p, h) = Path[b][h + 1]
  <2>1. CASE Len(Path[p]) <= h + 1
    <3>1. Len(Path[p]) = h + 1
      BY <1>3, <2>1
    <3>2. p \in 1..Len(file)
      BY <1>1, <1>5
    <3>3. Path[p][Len(Path[p])] = p
      BY <1>2, <3>2, PathTypes
    <3> QED
      BY <1>3, <2>1, <3>1, <3>3 DEF AncestorAt
  <2>2. CASE ~(Len(Path[p]) <= h + 1)
    <3>1. h + 1 \in 1..Len(Path[p])
      BY <1>3, <2>2
    <3>2. Path[b][h + 1] = Path[p][h + 1]
      BY <1>3, <3>1
    <3> HIDE DEF p
    <3> QED
      BY <2>2, <3>2 DEF AncestorAt
  <2> QED
    BY <2>1, <2>2
<1>7. AncestorAt(b, h) = Path[b][h + 1] /\ h + 1 \in 1..Len(Path[b])
  BY <1>1 DEF AncestorAt
<1> QED
  BY <1>5, <1>6, <1>7

LEMMA AncestorFound ==
  ASSUME Right, NEW h \in Nat, NEW beyond
  PROVE  \A b \in DOMAIN blocks : AncestorsAt(h, beyond)[b] = AncestorAt(b, h)
<1> DEFINE ancestors == AncestorsAt(h, beyond)
           Bad == {b \in DOMAIN blocks : ancestors[b] # AncestorAt(b, h)}
<1>1. SUFFICES ASSUME Bad # {} PROVE FALSE
  OBVIOUS
<1>2. DOMAIN blocks = 1..Len(dbBlocks) /\ Len(dbBlocks) \in Nat
      /\ Len(dbBlocks) <= Len(file) /\ Len(file) \in Nat
  BY TreeSeen
<1>3. PICK b \in Bad : \A k \in Bad : b <= k
  <2>1. Bad \subseteq Nat
    BY <1>2
  <2> HIDE DEF Bad
  <2> QED
    BY <1>1, <2>1, LeastElement
<1>4. b \in DOMAIN blocks /\ ancestors[b] # AncestorAt(b, h)
  BY <1>3
<1> DEFINE p == file[b].previous
<1>5. /\ b \in 1..Len(file) /\ Len(Path[b]) \in Nat \ {0}
      /\ blocks[b].height = Len(Path[b]) - 1 /\ blocks[b].previous = p
      /\ (blocks[b].longestChain <=> OnChain(b))
  BY <1>4, TreeSeen
<1>6. ancestors[b] = AncestorStep(ancestors, h, beyond, b)
  BY <1>4, AncestorSteps DEF Right, ChainOf
<1>7. TypeOK /\ FileOrdered
  BY DEF Right, ChainOf, Inv
<1> HIDE DEF ancestors
<1>8. CASE blocks[b].height <= h
  <2>1. Len(Path[b]) <= h + 1
    BY <1>5, <1>8
  <2> QED
    BY <1>4, <1>6, <1>8, <2>1 DEF AncestorStep, AncestorAt
<1>9. CASE ~(blocks[b].height <= h) /\ OnChain(b)
  <2>1. ~(Len(Path[b]) <= h + 1) /\ h + 1 \in 1..Len(Path[b])
    BY <1>5, <1>9
  <2>2. h < Len(currentChain) /\ currentChain[h + 1] = Path[b][h + 1]
    BY <1>4, <1>9, <2>1, ChainBelow
  <2> QED
    BY <1>4, <1>5, <1>6, <1>9, <2>1, <2>2 DEF AncestorStep, AncestorAt, OnChainAt
<1>10. CASE ~(blocks[b].height <= h) /\ ~OnChain(b)
  <2>1. h + 1 < Len(Path[b])
    BY <1>5, <1>10
  <2>2. p \in DOMAIN blocks /\ p < b /\ AncestorAt(p, h) = AncestorAt(b, h)
    BY <1>4, <2>1, ParentsAncestor
  <2>3. ~(b <= p)
    BY <1>2, <1>4, <2>2
  <2>4. ancestors[p] = AncestorAt(p, h)
    <3>1. p \notin Bad
      <4> HIDE DEF Bad, p
      <4> QED
        BY <1>3, <2>3
    <3> QED
      BY <2>2, <3>1
  <2>5. ancestors[b] = ancestors[p]
    BY <1>5, <1>6, <1>10 DEF AncestorStep
  <2> QED
    BY <1>4, <2>2, <2>4, <2>5
<1> QED
  BY <1>8, <1>9, <1>10

\* A copy of what the tree has of block b.  An older copy may lack the flag
\* that the block has now.
SeenAt(c, b) ==
  /\ c.hash = b
  /\ c.info.height = Len(Path[b]) - 1
  /\ c.info.previous = file[b].previous
  /\ c.info.longestChain => OnChain(b)

LEMMA FreshCopy ==
  ASSUME Right, NEW b \in DOMAIN blocks
  PROVE  SeenAt(CursorAt(b), b)
  BY TreeSeen DEF SeenAt, CursorAt, InfoOf

\* So a cursor goes to the ancestor at the height of a record.
LEMMA CursorMoves ==
  ASSUME Right, NEW h \in Nat, NEW beyond, NEW b \in DOMAIN blocks, NEW c, SeenAt(c, b)
  PROVE  SeenAt(AtHeight(c, h, beyond), AncestorAt(b, h))
<1> DEFINE ancestors == AncestorsAt(h, beyond)
           p == file[b].previous
<1>1. c.info.height = Len(Path[b]) - 1 /\ c.info.previous = p /\ Len(Path[b]) \in Nat
  BY TreeSeen DEF SeenAt
<1>2. CASE c.info.height <= h
  <2>1. AncestorAt(b, h) = b
    BY <1>1, <1>2 DEF AncestorAt
  <2>2. AtHeight(c, h, beyond) = c
    BY <1>2 DEF AtHeight
  <2> QED
    BY <2>1, <2>2
<1>3. CASE ~(c.info.height <= h)
  <2>1. h + 1 < Len(Path[b])
    BY <1>1, <1>3
  <2>2. /\ p \in DOMAIN blocks /\ AncestorAt(p, h) = AncestorAt(b, h)
        /\ AncestorAt(b, h) = Path[b][h + 1] /\ h + 1 \in 1..Len(Path[b])
    BY <2>1, ParentsAncestor
  <2>3. ancestors[p] = AncestorAt(b, h)
    BY <2>2, AncestorFound
  <2>4. c.info.longestChain => OnChainAt(h, beyond) = AncestorAt(b, h)
    <3> SUFFICES ASSUME c.info.longestChain PROVE OnChainAt(h, beyond) = AncestorAt(b, h)
      OBVIOUS
    <3>1. OnChain(b)
      BY DEF SeenAt
    <3>2. /\ Len(Path[b]) <= Len(currentChain) /\ Len(currentChain) \in Nat
          /\ \A i \in 1..Len(Path[b]) : currentChain[i] = Path[b][i]
      BY <3>1, ChainBelow
    <3>3. h < Len(currentChain) /\ currentChain[h + 1] = Path[b][h + 1]
      BY <1>1, <2>1, <2>2, <3>2
    <3> QED
      BY <2>2, <3>3 DEF OnChainAt
  <2>5. AtHeight(c, h, beyond) = CursorAt(AncestorAt(b, h))
    <3> HIDE DEF ancestors
    <3> QED
      BY <1>1, <1>3, <2>3, <2>4, Zenon DEF AtHeight, ancestors
  <2>6. AncestorAt(b, h) \in DOMAIN blocks
    BY <2>2, PathInTree
  <2> QED
    BY <2>5, <2>6, FreshCopy
<1> QED
  BY <1>2, <1>3

-----------------------------------------------------------------------------
(* The order of the records.                                               *)

LEMMA RecordFacts ==
  ASSUME Inv, RecordedOK, NEW r \in dbOperations
  PROVE  /\ r.block \in Nat /\ r.transaction \in Nat /\ r.height \in Nat
         /\ r.block + 1 \in 1..Len(dbBlocks) /\ r.block + 1 \in 1..Len(file)
         /\ r.transaction < operations[r.block + 1]
         /\ r.height = Len(Path[r.block + 1]) - 1
         /\ \A s \in dbOperations : SameOperation(r, s) => r = s
<1>1. r.block \in Nat
  BY DEF RecordedOK, OperationsTyped
<1>2. /\ r.block + 1 \in 1..Len(dbBlocks) /\ r.height = Len(Path[r.block + 1]) - 1
      /\ r.transaction \in 0..(operations[r.block + 1] - 1)
  BY <1>1, RecordPlace DEF RecordedOK
<1>3. /\ Len(dbBlocks) \in Nat /\ Len(file) \in Nat /\ Len(dbBlocks) <= Len(file)
      /\ \A h \in 1..Len(file) : operations[h] \in Nat
  BY ImportPlace
<1>4. r.block + 1 \in 1..Len(file)
  BY <1>2, <1>3
<1>5. r.transaction \in Nat /\ r.transaction < operations[r.block + 1]
  BY <1>2, <1>3, <1>4
<1>6. r.height \in Nat
  BY <1>2, HeightIsLength
<1>7. \A s \in dbOperations : SameOperation(r, s) => r = s
  BY DEF RecordedOK, EveryOperationRecorded, SameOperation
<1> QED
  BY <1>1, <1>2, <1>4, <1>5, <1>6, <1>7

\* The records have a greatest height and a greatest place in a block.
LEMMA RecordsBounded ==
  ASSUME Inv, RecordedOK
  PROVE  \E bound \in Nat : \A r \in dbOperations :
           r.height <= bound /\ r.transaction <= bound
<1> DEFINE N == Cardinality(dbOperations)
           IsBound(f, k, bound) == \A i \in 1..k : f[i].height <= bound /\ f[i].transaction <= bound
<1>1. N \in Nat /\ ExistsBijection(1..N, dbOperations)
  BY FS_CardinalityType DEF RecordedOK, OperationsTyped
<1> HIDE DEF N
<1>2. PICK f \in [1..N -> dbOperations] : \A r \in dbOperations : \E i \in 1..N : f[i] = r
  BY <1>1, Zenon DEF ExistsBijection, Bijection, Surjection
<1> DEFINE S == {k \in 0..N : \E bound \in Nat : IsBound(f, k, bound)}
<1>3. 0 \in S
  BY <1>1
<1>4. ASSUME NEW k \in 0..(N - 1), k \in S PROVE k + 1 \in S
  <2>1. PICK bound \in Nat : IsBound(f, k, bound)
    BY <1>4
  <2> DEFINE r == f[k + 1]
  <2>2. r.height \in Nat /\ r.transaction \in Nat
    <3>1. r \in dbOperations
      BY <1>1
    <3> QED
      BY <3>1, RecordFacts
  <2> HIDE DEF r
  <2>3. PICK more \in Nat : more = bound + r.height + r.transaction
    BY <2>2
  <2>4. bound <= more /\ r.height <= more /\ r.transaction <= more
    BY <2>2, <2>3
  <2>5. ASSUME NEW i \in 1..(k + 1) PROVE f[i].height <= more /\ f[i].transaction <= more
    <3>1. CASE i = k + 1
      BY <2>4, <3>1 DEF r
    <3>2. CASE i # k + 1
      <4>1. i \in 1..k /\ i \in 1..N
        BY <1>1, <3>2
      <4>2. f[i].height <= bound /\ f[i].transaction <= bound
        BY <2>1, <4>1
      <4>3. f[i].height \in Nat /\ f[i].transaction \in Nat
        <5>1. f[i] \in dbOperations
          BY <4>1
        <5> QED
          BY <5>1, RecordFacts
      <4> QED
        BY <2>4, <4>2, <4>3
    <3> QED
      BY <3>1, <3>2
  <2> QED
    BY <1>1, <2>5
<1>5. N \in S
  <2>1. N \in 0..N
    BY <1>1
  <2> HIDE DEF S
  <2> QED
    BY <1>1, <1>3, <1>4, <2>1, Upwards
<1>6. PICK bound \in Nat : IsBound(f, N, bound)
  BY <1>5
<1> QED
  BY <1>2, <1>6

\* So an iterator that is not at the end has a next record.
LEMMA FirstFound ==
  ASSUME Inv, RecordedOK, NEW left, left \subseteq dbOperations, left # {}
  PROVE  First(left) \in left /\ \A s \in left \ {First(left)} : Before(First(left), s)
<1>1. PICK bound \in Nat : \A r \in dbOperations :
        r.height <= bound /\ r.transaction <= bound
  BY RecordsBounded
<1>2. \A r \in left : /\ r.block \in Nat /\ r.transaction \in Nat /\ r.height \in Nat
                      /\ r.height <= bound /\ r.transaction <= bound
                      /\ \A s \in left : SameOperation(r, s) => r = s
  BY <1>1, RecordFacts
<1> DEFINE depths == {bound - r.height : r \in left}
<1>3. PICK top \in left : \A r \in left : r.height <= top.height
  <2>1. depths \subseteq Nat /\ depths # {}
    BY <1>2
  <2>2. PICK d \in depths : \A k \in depths : d <= k
    <3> HIDE DEF depths
    <3> QED
      BY <2>1, LeastElement
  <2>3. PICK top \in left : d = bound - top.height
    BY <2>2
  <2>4. \A r \in left : bound - top.height <= bound - r.height
    BY <2>2, <2>3
  <2> QED
    BY <1>2, <2>4
<1> DEFINE level == {r \in left : r.height = top.height}
           places == {bound - r.transaction : r \in level}
<1>4. PICK last \in level : \A r \in level : r.transaction <= last.transaction
  <2>1. places \subseteq Nat /\ places # {}
    BY <1>2
  <2>2. PICK d \in places : \A k \in places : d <= k
    <3> HIDE DEF places
    <3> QED
      BY <2>1, LeastElement
  <2>3. PICK last \in level : d = bound - last.transaction
    BY <2>2
  <2>4. \A r \in level : bound - last.transaction <= bound - r.transaction
    BY <2>2, <2>3
  <2> QED
    BY <1>2, <2>4
<1> DEFINE peers == {r \in level : r.transaction = last.transaction}
           indices == {r.block : r \in peers}
<1>5. PICK r \in peers : \A s \in peers : r.block <= s.block
  <2>1. indices \subseteq Nat /\ indices # {}
    BY <1>2
  <2>2. PICK d \in indices : \A k \in indices : d <= k
    <3> HIDE DEF indices
    <3> QED
      BY <2>1, LeastElement
  <2> QED
    BY <2>2
<1>6. ASSUME NEW s \in left \ {r} PROVE Before(r, s)
  <2>1. /\ r \in left /\ s \in left /\ r.height = top.height /\ s.height <= r.height
        /\ r.transaction = last.transaction /\ r # s
    BY <1>3, <1>5
  <2>2. /\ r.block \in Nat /\ s.block \in Nat /\ r.height \in Nat /\ s.height \in Nat
        /\ r.transaction \in Nat /\ s.transaction \in Nat
    BY <1>2, <2>1
  <2>3. CASE s.height < r.height
    BY <2>2, <2>3 DEF Before
  <2>4. CASE s.height = r.height
    <3>1. s \in level /\ s.transaction <= r.transaction
      BY <1>4, <2>1, <2>4
    <3>2. CASE s.transaction < r.transaction
      BY <2>2, <2>4, <3>2 DEF Before
    <3>3. CASE s.transaction = r.transaction
      <4>1. s \in peers /\ r.block <= s.block
        BY <1>5, <2>1, <3>1, <3>3
      <4>2. r.block # s.block
        BY <1>2, <2>1, <3>3 DEF SameOperation
      <4> QED
        BY <2>2, <2>4, <3>3, <4>1, <4>2 DEF Before
    <3> QED
      BY <2>2, <3>1, <3>2, <3>3
  <2> QED
    BY <2>1, <2>2, <2>3, <2>4
<1>7. r \in left
  BY <1>5
<1> HIDE DEF peers
<1> QED
  BY <1>6, <1>7 DEF First

-----------------------------------------------------------------------------
(* The search for the last record on the branch of a block.                *)

OnBranch(r, b) == r.height + 1 <= Len(Path[b]) /\ Path[b][r.height + 1] = r.block + 1

\* The cursor is a block of the branch, at the height of the last record that
\* was not too high, or the block where the search began.
CursorOn(c, left, b) ==
  \E j \in 1..Len(Path[b]) :
    /\ SeenAt(c, Path[b][j])
    /\ j = Len(Path[b]) \/ \A q \in left : q.height + 1 <= j

\* What has been seen comes before what is left, and the first record of the
\* branch in it has been found.
Searched(search, k, b) ==
  LET seen == dbOperations \ search.left IN
  /\ search.left \subseteq dbOperations
  /\ Cardinality(search.left) = Cardinality(dbOperations) - k
  /\ \A p \in seen : \A q \in search.left : Before(p, q)
  /\ CursorOn(search.cursor, search.left, b)
  /\ search.hit = {} => \A p \in seen : ~ OnBranch(p, b)
  /\ search.hit # {} =>
       \E r \in seen : /\ search.hit = {r} /\ OnBranch(r, b)
                       /\ \A p \in seen : OnBranch(p, b) => p = r \/ Before(r, p)

\* A turn moves the cursor to the block of the branch at the height of the
\* record, if the branch is so high, and so finds out if the record is of it.
LEMMA TurnFinds ==
  ASSUME Right, RecordedOK, NEW b \in DOMAIN blocks, NEW left, left \subseteq dbOperations,
         NEW c, CursorOn(c, left, b), NEW r \in left, NEW beyond,
         \A q \in left \ {r} : Before(r, q)
  PROVE  /\ CursorOn(Moved(c, r, beyond), left \ {r}, b)
         /\ IsOf(r, Moved(c, r, beyond)) <=> OnBranch(r, b)
<1> DEFINE len == Len(Path[b])
           d   == Moved(c, r, beyond)
<1>1. Inv /\ TypeOK /\ FileOrdered
  BY DEF Right, ChainOf, Inv
<1>2. b \in 1..Len(file) /\ b \in 0..Len(file) /\ len \in Nat \ {0}
  BY TreeSeen
<1>3. PICK j \in 1..len :
        /\ SeenAt(c, Path[b][j])
        /\ j = len \/ \A q \in left : q.height + 1 <= j
  BY DEF CursorOn
<1>4. \A i \in 1..len : /\ Path[b][i] \in DOMAIN blocks /\ Len(Path[Path[b][i]]) = i
                        /\ blocks[Path[b][i]].height = i - 1
  <2> SUFFICES ASSUME NEW i \in 1..len
               PROVE  /\ Path[b][i] \in DOMAIN blocks /\ Len(Path[Path[b][i]]) = i
                      /\ blocks[Path[b][i]].height = i - 1
    OBVIOUS
  <2>1. Len(Path[Path[b][i]]) = i
    BY <1>1, <1>2, PathElements
  <2>2. Path[b][i] \in DOMAIN blocks
    BY <1>1, PathInTree DEF Right
  <2> QED
    BY <2>1, <2>2, TreeSeen
<1>5. r.height \in Nat /\ r.block + 1 \in 1..Len(dbBlocks)
  BY <1>1, RecordFacts
<1>6. c.info.height = j - 1
  BY <1>3, <1>4 DEF SeenAt
<1>7. blockIds[r.block + 1] = r.block + 1
  BY <1>5, TreeSeen
<1>8. CASE r.height > c.info.height
  <2>1. d = c
    BY <1>8 DEF Moved
  <2>3. j = len /\ r.height + 1 > len
    BY <1>2, <1>3, <1>5, <1>6, <1>8
  <2>4. ~ IsOf(r, d) /\ ~ OnBranch(r, b)
    BY <1>2, <1>5, <1>6, <1>8, <2>1, <2>3 DEF IsOf, OnBranch
  <2>5. CursorOn(d, left \ {r}, b)
    BY <1>3, <2>1 DEF CursorOn
  <2> QED
    BY <2>4, <2>5
<1>9. CASE ~(r.height > c.info.height)
  <2> DEFINE i == r.height + 1
  <2>2. i \in 1..len /\ i <= j
    BY <1>2, <1>5, <1>6, <1>9
  <2>3. d = AtHeight(c, r.height, beyond)
    BY <1>9 DEF Moved
  <2>4. SeenAt(d, AncestorAt(Path[b][j], r.height))
    BY <1>3, <1>4, <1>5, <2>3, CursorMoves
  <2>5. AncestorAt(Path[b][j], r.height) = Path[b][i]
    <3>1. Len(Path[Path[b][j]]) = j
      BY <1>4
    <3>2. CASE j <= i
      <4>1. j = i
        BY <1>5, <2>2, <3>2
      <4> QED
        BY <3>1, <3>2, <4>1 DEF AncestorAt
    <3>3. CASE ~(j <= i)
      <4>1. Path[Path[b][j]][i] = Path[b][i]
        <5>1. i \in 1..j
          BY <1>5, <2>2
        <5> QED
          BY <1>1, <1>2, <5>1, PathOfPath
      <4> QED
        BY <3>1, <3>3, <4>1 DEF AncestorAt
    <3> QED
      BY <3>2, <3>3
  <2>6. d.hash = Path[b][i] /\ d.info.height = r.height
    <3>1. Len(Path[Path[b][i]]) = i /\ i - 1 = r.height
      BY <1>4, <1>5, <2>2
    <3> HIDE DEF i, d
    <3> QED
      BY <2>4, <2>5, <3>1 DEF SeenAt
  <2>7. IsOf(r, d) <=> OnBranch(r, b)
    <3>1. r.height <= d.info.height
      BY <1>5, <2>6
    <3>2. i <= len
      BY <2>2
    <3> HIDE DEF d
    <3> QED
      BY <1>7, <2>6, <3>1, <3>2 DEF IsOf, OnBranch
  <2>8. \A q \in left \ {r} : q.height + 1 <= i
    <3> SUFFICES ASSUME NEW q \in left \ {r} PROVE q.height + 1 <= i
      OBVIOUS
    <3>1. q.height \in Nat
      BY <1>1, RecordFacts
    <3>2. Before(r, q)
      OBVIOUS
    <3> QED
      BY <1>5, <3>1, <3>2 DEF Before
  <2>9. CursorOn(d, left \ {r}, b)
    <3>1. SeenAt(d, Path[b][i])
      BY <2>4, <2>5
    <3> HIDE DEF i, d
    <3> QED
      BY <2>2, <2>8, <3>1 DEF CursorOn
  <2> QED
    BY <2>7, <2>9
<1> QED
  BY <1>8, <1>9

LEMMA TurnSearches ==
  ASSUME Right, RecordedOK, NEW b \in DOMAIN blocks, NEW search, NEW beyond,
         NEW k \in 0..(Cardinality(dbOperations) - 1), Searched(search, k, b)
  PROVE  Searched(Visit(search, beyond), k + 1, b)
<1> DEFINE left == search.left
           seen == dbOperations \ left
           r    == First(left)
           d    == Moved(search.cursor, r, beyond)
           turn == Visit(search, beyond)
<1>1. Inv /\ IsFiniteSet(dbOperations)
  BY DEF Right, ChainOf, RecordedOK, OperationsTyped
<1>2. left \subseteq dbOperations /\ IsFiniteSet(left) /\ Cardinality(dbOperations) \in Nat
  BY <1>1, FS_Subset, FS_CardinalityType DEF Searched
<1>3. left # {}
  <2>1. Cardinality(left) # 0
    BY <1>2 DEF Searched
  <2> QED
    BY <2>1, FS_EmptySet
<1>4. r \in left /\ \A s \in left \ {r} : Before(r, s)
  <2> HIDE DEF left
  <2> QED
    BY <1>1, <1>2, <1>3, FirstFound
<1>5. CursorOn(d, left \ {r}, b) /\ (IsOf(r, d) <=> OnBranch(r, b))
  <2>1. CursorOn(search.cursor, left, b)
    BY DEF Searched
  <2> HIDE DEF left, r
  <2> QED
    BY <1>2, <1>4, <2>1, TurnFinds
<1>6. /\ turn.left = left \ {r} /\ turn.cursor = d
      /\ turn.hit = IF search.hit = {} /\ IsOf(r, d) THEN {r} ELSE search.hit
  <2> HIDE DEF d
  <2> QED
    BY Zenon DEF Visit, d
<1> HIDE DEF r, d, turn
<1>7. Cardinality(turn.left) = Cardinality(dbOperations) - (k + 1)
  <2>1. Cardinality(left \ {r}) = Cardinality(left) - 1
    BY <1>2, <1>4, FS_RemoveElement
  <2> QED
    BY <1>2, <1>6, <2>1 DEF Searched
<1>8. turn.left \subseteq dbOperations /\ dbOperations \ turn.left = seen \cup {r}
  BY <1>2, <1>4, <1>6
<1>9. \A p \in seen \cup {r} : \A q \in turn.left : Before(p, q)
  BY <1>4, <1>6 DEF Searched
<1>10. turn.hit = {} => \A p \in seen \cup {r} : ~ OnBranch(p, b)
  BY <1>5, <1>6 DEF Searched
<1>11. ASSUME turn.hit # {}
       PROVE  \E s \in seen \cup {r} :
                /\ turn.hit = {s} /\ OnBranch(s, b)
                /\ \A p \in seen \cup {r} : OnBranch(p, b) => p = s \/ Before(s, p)
  <2>1. CASE search.hit = {}
    <3>1. turn.hit = {r} /\ OnBranch(r, b)
      BY <1>5, <1>6, <1>11, <2>1
    <3>2. \A p \in seen : ~ OnBranch(p, b)
      BY <2>1 DEF Searched
    <3> QED
      BY <3>1, <3>2
  <2>2. CASE search.hit # {}
    <3>1. PICK s \in seen : /\ search.hit = {s} /\ OnBranch(s, b)
                            /\ \A p \in seen : OnBranch(p, b) => p = s \/ Before(s, p)
      BY <2>2 DEF Searched
    <3>2. Before(s, r)
      BY <1>4, <3>1 DEF Searched
    <3>3. turn.hit = {s}
      BY <1>6, <2>2, <3>1
    <3> QED
      BY <3>1, <3>2, <3>3
  <2> QED
    BY <2>1, <2>2
<1>12. CursorOn(turn.cursor, turn.left, b)
  BY <1>5, <1>6
<1> DEFINE after == dbOperations \ turn.left
<1>13. after = seen \cup {r}
  BY <1>8
<1> HIDE DEF seen, after
<1>14. /\ \A p \in after : \A q \in turn.left : Before(p, q)
       /\ turn.hit = {} => \A p \in after : ~ OnBranch(p, b)
       /\ turn.hit # {} =>
            \E s \in after : /\ turn.hit = {s} /\ OnBranch(s, b)
                            /\ \A p \in after : OnBranch(p, b) => p = s \/ Before(s, p)
  BY <1>9, <1>10, <1>11, <1>13, Zenon
<1> QED
  BY <1>7, <1>8, <1>12, <1>14 DEF Searched, after, turn

\* At the end the first record of the branch is found, if there is one.
LastRecord(hit, b) ==
  /\ hit = {} => \A p \in dbOperations : ~ OnBranch(p, b)
  /\ hit # {} => \E r \in dbOperations :
                   /\ hit = {r} /\ OnBranch(r, b)
                   /\ \A p \in dbOperations : OnBranch(p, b) => p = r \/ Before(r, p)

LEMMA SearchFinds ==
  ASSUME Right, RecordedOK, NEW b \in DOMAIN blocks, NEW beyond
  PROVE  LastRecord(Searches(b, beyond)[Cardinality(dbOperations)].hit, b)
<1> DEFINE N == Cardinality(dbOperations)
           search == Searches(b, beyond)
           S == {k \in 0..N : Searched(search[k], k, b)}
<1>1. Inv /\ TypeOK /\ FileOrdered /\ IsFiniteSet(dbOperations) /\ N \in Nat
  BY FS_CardinalityType DEF Right, ChainOf, Inv, RecordedOK, OperationsTyped
<1>2. SearchRuns(search, b, beyond)
  BY <1>1, SearchSteps
<1>3. 0 \in S
  <2> DEFINE first == search[0]
  <2>1. first.left = dbOperations /\ first.cursor = CursorAt(b) /\ first.hit = {}
    BY <1>2 DEF SearchRuns
  <2>2. CursorOn(CursorAt(b), dbOperations, b)
    <3>1. b \in 1..Len(file) /\ Len(Path[b]) \in Nat \ {0}
      BY TreeSeen
    <3>2. Path[b][Len(Path[b])] = b
      BY <1>1, <3>1, PathTypes
    <3>3. Len(Path[b]) \in 1..Len(Path[b])
      BY <3>1
    <3> QED
      BY <3>2, <3>3, FreshCopy DEF CursorOn
  <2>3. Cardinality(first.left) = N - 0
    BY <1>1, <2>1
  <2> HIDE DEF first
  <2>4. Searched(first, 0, b)
    BY <2>1, <2>2, <2>3 DEF Searched
  <2> QED
    BY <1>1, <2>4 DEF first
<1> HIDE DEF search
<1>4. ASSUME NEW k \in 0..(N - 1), k \in S PROVE k + 1 \in S
  <2>1. k + 1 \in 1..N /\ k + 1 \in 0..N /\ (k + 1) - 1 = k
    BY <1>1
  <2>2. search[k + 1] = Visit(search[k], beyond)
    BY <1>2, <2>1 DEF SearchRuns
  <2>3. Searched(search[k], k, b)
    BY <1>4
  <2>4. Searched(Visit(search[k], beyond), k + 1, b)
    BY <2>3, TurnSearches
  <2> QED
    BY <2>1, <2>2, <2>4
<1>5. Searched(search[N], N, b)
  <2>1. N \in S
    <3>1. N \in 0..N
      BY <1>1
    <3> HIDE DEF S, N
    <3> QED
      BY <1>1, <1>3, <1>4, <3>1, Upwards
  <2> QED
    BY <2>1
<1>6. search[N].left = {}
  <2> DEFINE left == search[N].left
  <2>1. left \subseteq dbOperations /\ Cardinality(left) = N - N
    BY <1>5 DEF Searched
  <2>2. Cardinality(left) = 0 /\ IsFiniteSet(left)
    BY <1>1, <2>1, FS_Subset
  <2> QED
    BY <2>2, FS_EmptySet
<1>7. dbOperations \ search[N].left = dbOperations
  BY <1>6
<1>8. LastRecord(search[N].hit, b)
  BY <1>5, <1>7 DEF Searched, LastRecord
<1> QED
  BY <1>8 DEF search

-----------------------------------------------------------------------------
(* The totals of a branch.                                                 *)

Operation == Nat \X Nat

LEMMA FirstOperationsFacts ==
  ASSUME NEW b \in Nat, NEW n \in Nat
  PROVE  /\ FirstOperations(b, n) \in Seq(Operation) /\ Len(FirstOperations(b, n)) = n
         /\ \A i \in 1..n : FirstOperations(b, n)[i] = <<b, i - 1>>
<1>1. \A i \in 1..n : <<b, i - 1>> \in Operation
  BY DEF Operation
<1> QED
  BY <1>1 DEF FirstOperations

\* The operations of the ancestors of a block and its first n.
TotalBefore(b, n) == OperationsTo[file[b].previous] \o FirstOperations(b, n)

LEMMA TotalsTyped ==
  ASSUME TypeOK, FileOrdered, OperationsTyped
  PROVE  \A h \in 0..Len(file) : OperationsTo[h] \in Seq(Operation)
<1> DEFINE Bad == {h \in 0..Len(file) : OperationsTo[h] \notin Seq(Operation)}
<1>1. SUFFICES ASSUME Bad # {} PROVE FALSE
  OBVIOUS
<1>2. PICK h \in Bad : \A k \in Bad : h <= k
  <2>1. Bad \subseteq Nat
    OBVIOUS
  <2> HIDE DEF Bad
  <2> QED
    BY <1>1, <2>1, LeastElement
<1>3. h \in 0..Len(file) /\ OperationsTo[h] \notin Seq(Operation)
  BY <1>2
<1>4. OperationsTo[h] = OperationsStep(OperationsTo, h)
  BY <1>3, OperationsSteps
<1>5. CASE h = 0
  BY <1>3, <1>4, <1>5 DEF OperationsStep
<1>6. CASE h # 0
  <2> DEFINE p == file[h].previous
  <2>1. h \in 1..Len(file) /\ Len(file) \in Nat
    BY <1>3, <1>6, Ancestry
  <2>2. p \in 0..(h - 1)
    BY <2>1, Ancestry
  <2>3. p \in 0..Len(file) /\ ~(h <= p)
    BY <2>1, <2>2
  <2>4. OperationsTo[p] \in Seq(Operation)
    <3>1. p \notin Bad
      <4> HIDE DEF Bad, p
      <4> QED
        BY <1>2, <2>3
    <3> QED
      BY <2>3, <3>1
  <2>5. FirstOperations(h, operations[h]) \in Seq(Operation)
    <3>1. operations[h] \in Nat /\ h \in Nat
      BY <2>1 DEF OperationsTyped
    <3> QED
      BY <3>1, FirstOperationsFacts
  <2>6. OperationsTo[h] = OperationsTo[p] \o FirstOperations(h, operations[h])
    BY <1>4, <1>6 DEF OperationsStep
  <2> HIDE DEF p
  <2> QED
    BY <1>3, <2>4, <2>5, <2>6, ConcatProperties
<1> QED
  BY <1>5, <1>6

\* One operation more; all operations of a block; none.
LEMMA TotalSteps ==
  ASSUME TypeOK, FileOrdered, OperationsTyped, NEW b \in 1..Len(file)
  PROVE  /\ file[b].previous \in 0..Len(file) /\ operations[b] \in Nat
         /\ OperationsTo[b] = TotalBefore(b, operations[b])
         /\ TotalBefore(b, 0) = OperationsTo[file[b].previous]
         /\ \A n \in Nat : /\ TotalBefore(b, n + 1) = Append(TotalBefore(b, n), <<b, n>>)
                           /\ TotalAt(b, n) = TotalBefore(b, n + 1)
                           /\ TotalBefore(b, n) \in Seq(Operation)
<1> DEFINE p == file[b].previous
           s == OperationsTo[p]
<1>1. b \in Nat /\ operations[b] \in Nat /\ p \in 0..Len(file) /\ b \in 0..Len(file) /\ b # 0
  <2>1. Len(file) \in Nat /\ p \in 0..(b - 1)
    BY Ancestry
  <2> QED
    BY <2>1 DEF OperationsTyped
<1>2. s \in Seq(Operation)
  BY <1>1, TotalsTyped
<1>3. OperationsTo[b] = TotalBefore(b, operations[b])
  BY <1>1, OperationsSteps DEF OperationsStep, TotalBefore
<1> HIDE DEF s
<1>4. TotalBefore(b, 0) = s
  <2>1. FirstOperations(b, 0) = <<>>
    BY <1>1, FirstOperationsFacts, EmptySeq
  <2> QED
    BY <1>2, <2>1 DEF TotalBefore, s
<1>5. ASSUME NEW n \in Nat
      PROVE  /\ TotalBefore(b, n + 1) = Append(TotalBefore(b, n), <<b, n>>)
             /\ TotalBefore(b, n) \in Seq(Operation)
  <2> DEFINE t == FirstOperations(b, n)
             u == FirstOperations(b, n + 1)
             x == <<b, n>>
  <2>1. /\ t \in Seq(Operation) /\ Len(t) = n /\ u \in Seq(Operation) /\ Len(u) = n + 1
        /\ \A i \in 1..n : u[i] = t[i]
        /\ u[n + 1] = x /\ x \in Operation
    <3>1. n + 1 \in Nat
      OBVIOUS
    <3>2. \A i \in 1..n : t[i] = <<b, i - 1>>
      BY <1>1, FirstOperationsFacts
    <3>3. \A i \in 1..(n + 1) : u[i] = <<b, i - 1>>
      BY <1>1, <3>1, FirstOperationsFacts
    <3>4. n + 1 \in 1..(n + 1) /\ (n + 1) - 1 = n
      OBVIOUS
    <3>5. t \in Seq(Operation) /\ Len(t) = n /\ u \in Seq(Operation) /\ Len(u) = n + 1
      BY <1>1, <3>1, FirstOperationsFacts
    <3>6. x \in Operation
      BY <1>1 DEF Operation
    <3> HIDE DEF t, u
    <3>7. u[n + 1] = x
      BY <3>3, <3>4
    <3>8. ASSUME NEW i \in 1..n PROVE u[i] = t[i]
      <4>1. i \in 1..(n + 1)
        OBVIOUS
      <4> QED
        BY <3>2, <3>3, <4>1
    <3> QED
      BY <3>5, <3>6, <3>7, <3>8, Zenon
  <2> HIDE DEF t, u, x
  <2>2. s \o t \in Seq(Operation) /\ s \o u \in Seq(Operation)
    BY <1>2, <2>1, ConcatProperties
  <2>3. s \o u = Append(s \o t, x)
    <3>1. /\ Len(s \o t) = Len(s) + n /\ Len(s \o u) = Len(s) + n + 1 /\ Len(s) \in Nat
      BY <1>2, <2>1
    <3>2. /\ Len(Append(s \o t, x)) = Len(s) + n + 1 /\ Append(s \o t, x) \in Seq(Operation)
          /\ \A i \in 1..(Len(s) + n) : Append(s \o t, x)[i] = (s \o t)[i]
          /\ Append(s \o t, x)[Len(s) + n + 1] = x
      BY <2>1, <2>2, <3>1, AppendProperties
    <3>3. ASSUME NEW i \in 1..(Len(s) + n + 1) PROVE (s \o u)[i] = Append(s \o t, x)[i]
      <4>1. CASE i <= Len(s)
        <5>1. (s \o u)[i] = s[i] /\ (s \o t)[i] = s[i]
          BY <1>2, <2>1, <3>1, <4>1, ConcatProperties
        <5> QED
          BY <3>1, <3>2, <4>1, <5>1
      <4>2. CASE i > Len(s) /\ i # Len(s) + n + 1
        <5>1. /\ i - Len(s) \in 1..n
              /\ i \in (Len(s) + 1)..(Len(s) + Len(t))
              /\ i \in (Len(s) + 1)..(Len(s) + Len(u))
              /\ i \in 1..(Len(s) + n)
          BY <2>1, <3>1, <4>2
        <5>2. (s \o u)[i] = u[i - Len(s)] /\ (s \o t)[i] = t[i - Len(s)]
          BY <1>2, <2>1, <5>1, ConcatProperties
        <5> QED
          BY <2>1, <3>2, <5>1, <5>2
      <4>3. CASE i = Len(s) + n + 1
        <5>1. (s \o u)[i] = u[i - Len(s)] /\ i - Len(s) = n + 1
          BY <1>2, <2>1, <3>1, <4>3, ConcatProperties
        <5> QED
          BY <2>1, <3>2, <4>3, <5>1
      <4> QED
        BY <3>1, <4>1, <4>2, <4>3
    <3> QED
      BY <2>2, <3>1, <3>2, <3>3, SeqEqual
  <2> QED
    BY <2>2, <2>3 DEF TotalBefore, s, t, u, x
<1>6. \A n \in Nat : TotalAt(b, n) = TotalBefore(b, n + 1)
  BY DEF TotalAt, TotalBefore
<1> QED
  BY <1>1, <1>3, <1>4, <1>5, <1>6 DEF s

\* Blocks without operations add nothing to a total.
LEMMA NoneAbove ==
  ASSUME TypeOK, FileOrdered, OperationsTyped, NEW b \in 1..Len(file), NEW j \in 0..Len(Path[b]),
         \A i \in (j + 1)..Len(Path[b]) : operations[Path[b][i]] = 0
  PROVE  OperationsTo[b] = IF j = 0 THEN <<>> ELSE OperationsTo[Path[b][j]]
<1> DEFINE len == Len(Path[b])
           At(i) == IF i = 0 THEN 0 ELSE Path[b][i]
           S == {k \in 0..(len - j) : OperationsTo[At(j + k)] = OperationsTo[At(j)]}
<1>1. len \in Nat \ {0} /\ Path[b][len] = b /\ Len(file) \in Nat /\ b \in 0..Len(file)
  <2>1. Len(file) \in Nat
    BY Ancestry
  <2>2. b \in 0..Len(file)
    BY <2>1
  <2>3. /\ Len(Path[b]) = Len(Path[file[b].previous]) + 1
        /\ Len(Path[file[b].previous]) \in Nat /\ Path[b][Len(Path[b])] = b
    BY PathTypes
  <2> QED
    BY <2>1, <2>2, <2>3
<1>2. \A i \in 1..len : Path[b][i] \in 1..Len(file) /\ file[Path[b][i]].previous = At(i - 1)
  <2>1. \A i \in 1..len : /\ Path[b][i] \in 1..Len(file)
                          /\ file[Path[b][i]].previous = IF i = 1 THEN 0 ELSE Path[b][i - 1]
    BY <1>1, PathElements
  <2>2. \A i \in 1..len : i = 1 <=> i - 1 = 0
    BY <1>1
  <2> QED
    BY <2>1, <2>2
<1>3. 0 \in S
  BY <1>1
<1>4. ASSUME NEW k \in 0..(len - j - 1), k \in S PROVE k + 1 \in S
  <2> DEFINE i == j + k + 1
  <2>1. /\ i \in 1..len /\ i \in (j + 1)..len /\ i # 0 /\ i - 1 = j + k
        /\ j + (k + 1) = i /\ k + 1 \in 0..(len - j)
    <3>1. len \in Nat /\ j \in 0..len /\ k \in 0..(len - j - 1)
      BY <1>1
    <3> HIDE DEF len
    <3> QED
      BY <3>1
  <2>2. PICK h : h = Path[b][i]
    OBVIOUS
  <2>3. h \in 1..Len(file) /\ file[h].previous = At(j + k) /\ operations[h] = 0
    <3> HIDE DEF i, len, At
    <3> QED
      BY <1>2, <2>1, <2>2 DEF len
  <2>4. OperationsTo[h] = OperationsTo[At(j + k)]
    <3> HIDE DEF At
    <3> QED
      BY <2>3, TotalSteps
  <2>5. OperationsTo[At(j + k)] = OperationsTo[At(j)]
    BY <1>4
  <2>6. At(j + (k + 1)) = h
    BY <2>1, <2>2
  <2> HIDE DEF At, i
  <2> QED
    BY <2>1, <2>4, <2>5, <2>6
<1>5. len - j \in S
  <2>1. len - j \in Nat /\ len - j \in 0..(len - j)
    BY <1>1
  <2> HIDE DEF S
  <2>2. PICK m \in Nat : m = len - j
    BY <2>1
  <2>3. \A k \in 0..(m - 1) : k \in S => k + 1 \in S
    BY <1>4, <2>2
  <2>4. \A k \in 0..m : k \in S
    BY <1>3, <2>3, Upwards
  <2> QED
    BY <2>1, <2>2, <2>4
<1>6. OperationsTo[At(len)] = OperationsTo[At(j)]
  <2>1. j + (len - j) = len
    BY <1>1
  <2> HIDE DEF At, len
  <2> QED
    BY <1>5, <2>1
<1>7. At(len) = b
  BY <1>1
<1>8. OperationsTo[0] = <<>>
  <2>1. 0 \in 0..Len(file)
    BY <1>1
  <2> QED
    BY <2>1, OperationsSteps DEF OperationsStep
<1> QED
  BY <1>6, <1>7, <1>8

\* The total of a record is that of its branch.
TotalOK(r) == r.total = TotalAt(r.block + 1, r.transaction)

\* The search of the import loop gives the total of the branch.
LEMMA LatestIsTotal ==
  ASSUME Right, RecordedOK, \A r \in dbOperations : TotalOK(r),
         NEW b \in DOMAIN blocks \cup {Null}, b = Null => dbBlocks = <<>>, NEW beyond
  PROVE  LatestTotal(b, beyond) = OperationsTo[b]
<1>1. Inv /\ TypeOK /\ FileOrdered /\ OperationsTyped /\ IsFiniteSet(dbOperations)
  BY DEF Right, ChainOf, Inv, RecordedOK, OperationsTyped
<1>2. CASE b = Null
  <2>1. dbOperations = {}
    <3>1. \A r \in dbOperations : r.block + 1 \in 1..Len(dbBlocks)
      BY DEF RecordedOK, EveryOperationRecorded
    <3>2. 1..Len(dbBlocks) = {}
      BY <1>2
    <3> QED
      BY <3>1, <3>2
  <2>2. Cardinality(dbOperations) = 0
    BY <2>1, FS_EmptySet
  <2>3. Searches(b, beyond)[0].hit = {}
    <3>1. SearchRuns(Searches(b, beyond), b, beyond)
      BY <1>1, SearchSteps
    <3> QED
      BY <3>1 DEF SearchRuns
  <2>4. OperationsTo[0] = <<>>
    <3>1. 0 \in 0..Len(file)
      BY <1>1, Ancestry
    <3> QED
      BY <1>1, <3>1, OperationsSteps DEF OperationsStep
  <2> QED
    BY <1>2, <2>2, <2>3, <2>4 DEF LatestTotal, TotalOf, Null
<1>3. CASE b # Null
  <2>1. PICK hit : hit = Searches(b, beyond)[Cardinality(dbOperations)].hit
    OBVIOUS
  <2>2. b \in DOMAIN blocks /\ LastRecord(hit, b) /\ LatestTotal(b, beyond) = TotalOf(hit)
    BY <1>3, <2>1, SearchFinds DEF LatestTotal
  <2> DEFINE len == Len(Path[b])
  <2>3. b \in 1..Len(file) /\ len \in Nat \ {0}
    BY <2>2, TreeSeen
  <2>4. \A i \in 1..len : /\ Path[b][i] \in 1..Len(dbBlocks) /\ Path[b][i] \in 1..Len(file)
                          /\ Len(Path[Path[b][i]]) = i
    <3>1. b \in 0..Len(file)
      BY <2>3
    <3>2. \A i \in 1..len : Path[b][i] \in DOMAIN blocks
      BY <2>2, PathInTree
    <3>3. \A i \in 1..len : Len(Path[Path[b][i]]) = i
      BY <1>1, <3>1, PathElements
    <3> QED
      BY <3>2, <3>3, TreeSeen
  <2>5. ASSUME NEW i \in 1..len, NEW k \in 0..(operations[Path[b][i]] - 1)
        PROVE  \E r \in dbOperations : /\ OnBranch(r, b) /\ r.block + 1 = Path[b][i]
                                       /\ r.transaction = k /\ r.height = i - 1
    <3>1. PICK h : h = Path[b][i]
      OBVIOUS
    <3>2. h \in 1..Len(dbBlocks) /\ Len(Path[h]) = i /\ k \in 0..(operations[h] - 1)
      BY <2>4, <3>1
    <3>3. PICK r \in dbOperations :
            r.block = h - 1 /\ r.transaction = k /\ r.height = Len(Path[h]) - 1
      BY <3>2 DEF RecordedOK, EveryOperationRecorded
    <3>4. r.block + 1 = h /\ r.height = i - 1 /\ r.height + 1 = i /\ i <= len
      BY <2>3, <3>2, <3>3
    <3> QED
      BY <3>1, <3>3, <3>4 DEF OnBranch
  <2>6. CASE hit = {}
    <3>1. \A p \in dbOperations : ~ OnBranch(p, b)
      BY <2>2, <2>6 DEF LastRecord
    <3>2. ASSUME NEW i \in 1..len PROVE operations[Path[b][i]] = 0
      <4>1. PICK n : n = operations[Path[b][i]]
        OBVIOUS
      <4>2. n \in Nat
        BY <2>4, <4>1 DEF OperationsTyped, RecordedOK
      <4>3. \A k \in 0..(n - 1) : FALSE
        BY <2>5, <3>1, <4>1
      <4>4. n # 0 => 0 \in 0..(n - 1)
        BY <4>2
      <4> QED
        BY <4>1, <4>3, <4>4
    <3>3. OperationsTo[b] = <<>>
      <4>1. 0 \in 0..len /\ 0 + 1 = 1
        BY <2>3
      <4> HIDE DEF len
      <4>2. \A i \in (0 + 1)..len : operations[Path[b][i]] = 0
        BY <3>2, <4>1
      <4> QED
        BY <1>1, <2>3, <4>1, <4>2, NoneAbove DEF len
    <3> QED
      BY <2>2, <2>6, <3>3 DEF TotalOf
  <2>7. CASE hit # {}
    <3>1. PICK r \in dbOperations : /\ hit = {r} /\ OnBranch(r, b)
            /\ \A p \in dbOperations : OnBranch(p, b) => p = r \/ Before(r, p)
      BY <2>2, <2>7 DEF LastRecord
    <3> DEFINE j == r.height + 1
               h == r.block + 1
               k == r.transaction
    <3>2. /\ r.height \in Nat /\ k \in Nat /\ h \in 1..Len(file) /\ r.block \in Nat
          /\ k < operations[h]
      BY <1>1, RecordFacts
    <3>3. j \in 1..len /\ Path[b][j] = h
      BY <2>3, <3>1, <3>2 DEF OnBranch
    <3>4. operations[h] = k + 1
      <4> SUFFICES ASSUME operations[h] # k + 1 PROVE FALSE
        OBVIOUS
      <4>1. operations[h] \in Nat
        BY <3>2 DEF OperationsTyped, RecordedOK
      <4>2. k + 1 \in 0..(operations[h] - 1)
        BY <3>2, <4>1
      <4>3. PICK p \in dbOperations : /\ OnBranch(p, b) /\ p.transaction = k + 1
                                      /\ p.height = j - 1
        BY <2>5, <3>3, <4>2
      <4>4. p = r \/ Before(r, p)
        BY <3>1, <4>3
      <4> QED
        BY <3>2, <4>3, <4>4 DEF Before
    <3>5. ASSUME NEW i \in (j + 1)..len PROVE operations[Path[b][i]] = 0
      <4>1. i \in 1..len /\ i > j
        BY <2>3, <3>2
      <4>2. PICK n : n = operations[Path[b][i]]
        OBVIOUS
      <4>3. n \in Nat
        BY <2>4, <4>1, <4>2 DEF OperationsTyped, RecordedOK
      <4>4. CASE n # 0
        <5>1. 0 \in 0..(n - 1)
          BY <4>3, <4>4
        <5>2. PICK p \in dbOperations : OnBranch(p, b) /\ p.height = i - 1
          BY <2>5, <4>1, <4>2, <5>1
        <5>3. p = r \/ Before(r, p)
          BY <3>1, <5>2
        <5> QED
          BY <3>2, <4>1, <5>2, <5>3 DEF Before
      <4> QED
        BY <4>2, <4>4
    <3>6. OperationsTo[b] = OperationsTo[h]
      <4> HIDE DEF j, len, h
      <4>1. j \in 0..len /\ j # 0
        BY <2>3, <3>3
      <4> QED
        BY <1>1, <2>3, <3>3, <3>5, <4>1, NoneAbove DEF len
    <3>7. OperationsTo[h] = TotalAt(h, k)
      <4> HIDE DEF h, k
      <4> QED
        BY <1>1, <3>2, <3>4, TotalSteps
    <3>8. TotalOf(hit) = r.total
      BY <3>1 DEF TotalOf
    <3>9. r.total = TotalAt(h, k)
      BY DEF TotalOK
    <3> QED
      BY <2>2, <3>6, <3>7, <3>8, <3>9
  <2> QED
    BY <2>6, <2>7
<1> QED
  BY <1>2, <1>3

-----------------------------------------------------------------------------
(* The totals of the records, of the batch and of the caches.              *)

BatchTotals ==
  /\ \A r \in batchOperations : TotalOK(r)
  /\ addressOperationsBlock = IF next = 0 THEN {} ELSE {TotalBefore(hash, next)}
  /\ blockInfo.longestChain /\ next = 0 => addressCache \subseteq {TotalBefore(hash, 0)}
  /\ blockInfo.longestChain /\ next # 0 => addressCache = {TotalBefore(hash, next)}
  /\ ~blockInfo.longestChain => addressCache \subseteq {OperationsTo[longestBlock]}

TotalsOK ==
  /\ longestBlock \in 0..Len(file)
  /\ \A r \in dbOperations : TotalOK(r)
  /\ ~Importing => addressCache \subseteq {OperationsTo[longestBlock]}
  /\ Importing => BatchTotals

\* Totals do not change when bitcoind appends to the files.
TotalsUnchanged ==
  /\ \A h \in 0..Len(file) : OperationsTo'[h] = OperationsTo[h]
  /\ \A b \in 1..Len(file) : \A n : /\ TotalBefore(b, n)' = TotalBefore(b, n)
                                    /\ TotalAt(b, n)' = TotalAt(b, n)

OperationsGrow ==
  \A h \in 0..Len(file) : OperationsTo[h] = OperationsStep(OperationsTo, h)

LEMMA OperationsStepsNext == TypeOK' /\ FileOrdered' => OperationsGrow'
<1>1. TypeOK /\ FileOrdered => OperationsGrow
  BY OperationsSteps DEF OperationsGrow
<1> QED
  BY <1>1, PTL

LEMMA TotalsStay ==
  ASSUME Inv, Inv', FilesKept
  PROVE  TotalsUnchanged
<1>1. TypeOK /\ FileOrdered /\ TypeOK' /\ FileOrdered'
  BY DEF Inv
<1>2. /\ Len(file) \in Nat /\ Len(file') \in Nat /\ Len(file) <= Len(file')
      /\ \A h \in 1..Len(file) : file'[h] = file[h] /\ operations'[h] = operations[h]
  BY DEF FilesKept
<1> DEFINE Bad == {h \in 0..Len(file) : OperationsTo'[h] # OperationsTo[h]}
<1>3. Bad = {}
  <2> SUFFICES ASSUME Bad # {} PROVE FALSE
    OBVIOUS
  <2>1. PICK h \in Bad : \A k \in Bad : h <= k
    <3>1. Bad \subseteq Nat
      OBVIOUS
    <3> HIDE DEF Bad
    <3> QED
      BY <3>1, LeastElement
  <2>2. h \in 0..Len(file) /\ h \in 0..Len(file') /\ OperationsTo'[h] # OperationsTo[h]
    BY <1>2, <2>1
  <2>3. /\ OperationsTo[h] = OperationsStep(OperationsTo, h)
        /\ OperationsTo'[h] = IF h = 0 THEN <<>>
             ELSE OperationsTo'[file'[h].previous] \o FirstOperations(h, operations'[h])
    <3>1. OperationsTo[h] = OperationsStep(OperationsTo, h)
      BY <1>1, <2>2, OperationsSteps
    <3>2. OperationsGrow'
      BY <1>1, OperationsStepsNext
    <3>3. OperationsTo'[h] = IF h = 0 THEN <<>>
            ELSE OperationsTo'[file'[h].previous] \o FirstOperations(h, operations'[h])
      BY <2>2, <3>2 DEF OperationsGrow, OperationsStep, FirstOperations
    <3> QED
      BY <3>1, <3>3
  <2>4. CASE h = 0
    BY <2>2, <2>3, <2>4 DEF OperationsStep
  <2>5. CASE h # 0
    <3> DEFINE p == file[h].previous
    <3>1. h \in 1..Len(file)
      BY <2>2, <2>5
    <3>2. p \in 0..(h - 1)
      BY <1>1, <3>1, Ancestry
    <3>3. p \in 0..Len(file) /\ ~(h <= p)
      BY <1>2, <3>1, <3>2
    <3>4. OperationsTo'[p] = OperationsTo[p]
      <4>1. p \notin Bad
        <5> HIDE DEF Bad, p
        <5> QED
          BY <2>1, <3>3
      <4> QED
        BY <3>3, <4>1
    <3>5. file'[h].previous = p /\ operations'[h] = operations[h]
      BY <1>2, <3>1
    <3> QED
      BY <2>2, <2>3, <2>5, <3>4, <3>5 DEF OperationsStep
  <2> QED
    BY <2>4, <2>5
<1>4. \A h \in 0..Len(file) : OperationsTo'[h] = OperationsTo[h]
  BY <1>3
<1>5. ASSUME NEW b \in 1..Len(file), NEW n
      PROVE  TotalBefore(b, n)' = TotalBefore(b, n) /\ TotalAt(b, n)' = TotalAt(b, n)
  <2>1. file'[b].previous = file[b].previous /\ file[b].previous \in 0..Len(file)
    <3>1. file[b].previous \in 0..(b - 1)
      BY <1>1, Ancestry
    <3> QED
      BY <1>2, <3>1
  <2>2. OperationsTo'[file'[b].previous] = OperationsTo[file[b].previous]
    BY <1>4, <2>1
  <2> QED
    BY <2>2 DEF TotalBefore, TotalAt, FirstOperations
<1> QED
  BY <1>4, <1>5 DEF TotalsUnchanged

LEMMA TotalStays ==
  ASSUME TotalsUnchanged, NEW r, r.block + 1 \in 1..Len(file), TotalOK(r)
  PROVE  r.total = TotalAt(r.block + 1, r.transaction)'
  BY DEF TotalsUnchanged, TotalOK

\* The steps that have nothing to do with records.
LEMMA OtherTotals ==
  ASSUME Inv, [AddressNext]_allVars, ~ReadOperations, ~ProcessOperation, ~WriteOperations
  PROVE  /\ UNCHANGED <<dbOperations, misled>>
         /\ Importing' => Importing /\ UNCHANGED <<hash, blockInfo, longestBlock, next,
                            addressCache, addressOperationsBlock, batchOperations>>
         /\ ~Importing' => \/ addressCache' = {}
                           \/ ~Importing /\ UNCHANGED <<addressCache, longestBlock>>
         /\ longestBlock' \in {Null, longestBlock}
<1>1. CASE BlockOfAddressArrives \/ Query \/ UNCHANGED allVars
  BY <1>1 DEF BlockOfAddressArrives, BlockArrives, Query, QueryStarts, QueryCopies,
    QueryOpens, QueryVisits, QueryReturns, allVars, addressVars, loopVars, vars, tipVars,
    importVars, Importing
<1>2. CASE CrashOperations
  BY <1>2 DEF CrashOperations, Crash, Down, Importing
<1>3. CASE CommitOperations \/ UndoOperations
  BY <1>3 DEF CommitOperations, BeginCommit, UndoOperations, UndoBlock, loopVars,
    addressVars, tipVars, importVars, Importing
<1>4. CASE NoOperations
  <2>1. UNCHANGED <<dbOperations, misled, next, addressCache, addressOperationsBlock,
                    batchOperations>>
    BY <1>4 DEF NoOperations, addressVars, loopVars
  <2>2. /\ UNCHANGED longestBlock /\ (Importing' <=> Importing)
        /\ (Importing' => UNCHANGED <<hash, blockInfo>>)
    BY <1>4 DEF NoOperations, Start, Restore, RestoreBlock, SizeChain, RebuildChain,
      RestorePosition, ReadFails, WalkBack, WalkEnds, UndoEnds, RedoBlock, tipVars,
      importVars, Importing
  <2> QED
    BY <2>1, <2>2
<1> QED
  BY <1>1, <1>2, <1>3, <1>4 DEF AddressNext

LEMMA TotalsOther ==
  ASSUME Inv, Inv', RecordedOK, FilesKept, TotalsOK, [AddressNext]_allVars,
         ~ReadOperations, ~ProcessOperation, ~WriteOperations
  PROVE  TotalsOK'
<1>1. TotalsUnchanged /\ Len(file) \in Nat /\ Len(file') \in Nat /\ Len(file) <= Len(file')
  BY TotalsStay DEF FilesKept
<1>2. longestBlock' \in 0..Len(file')
  BY <1>1, OtherTotals DEF TotalsOK, Null
<1>3. \A r \in dbOperations' : TotalOK(r)'
  <2>1. \A r \in dbOperations : TotalOK(r)'
    BY <1>1, RecordFacts, TotalStays DEF TotalsOK, TotalOK
  <2> QED
    BY <2>1, OtherTotals
<1>4. ~Importing' => addressCache' \subseteq {OperationsTo[longestBlock]}'
  BY <1>1, OtherTotals DEF TotalsOK, TotalsUnchanged
<1>5. ASSUME Importing' PROVE BatchTotals'
  <2>1. /\ BatchTotals /\ BatchRecorded
        /\ UNCHANGED <<hash, blockInfo, longestBlock, next,
                       addressCache, addressOperationsBlock, batchOperations>>
    BY <1>5, OtherTotals DEF TotalsOK, RecordedOK
  <2>2. hash \in 1..Len(file)
    BY <1>5, OtherTotals, ImportPlace
  <2>3. /\ TotalBefore(hash, next)' = TotalBefore(hash, next)
        /\ TotalBefore(hash, 0)' = TotalBefore(hash, 0)
    <3>1. PICK h, n : h = hash /\ n = next
      OBVIOUS
    <3>2. TotalBefore(h, n)' = TotalBefore(h, n) /\ TotalBefore(h, 0)' = TotalBefore(h, 0)
      BY <1>1, <2>2, <3>1 DEF TotalsUnchanged
    <3> QED
      BY <2>1, <3>1, <3>2 DEF TotalBefore, FirstOperations
  <2>4. OperationsTo'[longestBlock'] = OperationsTo[longestBlock]
    BY <1>1, <2>1 DEF TotalsOK, TotalsUnchanged
  <2>5. \A r \in batchOperations : TotalOK(r)'
    <3> SUFFICES ASSUME NEW r \in batchOperations PROVE TotalOK(r)'
      OBVIOUS
    <3>1. r.block + 1 \in 1..Len(file)
      BY <1>1, <2>1, <2>2 DEF BatchRecorded
    <3>2. TotalOK(r)
      BY <2>1 DEF BatchTotals
    <3> QED
      BY <1>1, <3>1, <3>2, TotalStays DEF TotalOK
  <2> QED
    BY <2>1, <2>3, <2>4, <2>5 DEF BatchTotals
<1> QED
  BY <1>2, <1>3, <1>4, <1>5 DEF TotalsOK

LEMMA TotalsRead ==
  ASSUME Inv, Inv', RecordedOK, FilesKept, TotalsOK, ReadOperations
  PROVE  TotalsOK'
<1>1. /\ UNCHANGED <<dbOperations, file, operations, longestBlock>> /\ pc = "idle"
      /\ next' = 0 /\ addressOperationsBlock' = {} /\ batchOperations' = {}
      /\ addressCache' = IF Switches(blockInfo') THEN {} ELSE addressCache
      /\ pc' = "process"
  BY DEF ReadOperations, ReadBlock, tipVars
<1>2. Importing' /\ ~Importing
  BY <1>1 DEF Importing
<1>3. TotalsUnchanged
  BY TotalsStay
<1>4. longestBlock' \in 0..Len(file') /\ OperationsTo' = OperationsTo
  BY <1>1 DEF TotalsOK, OperationsTo, FirstOperations
<1>5. \A r \in dbOperations' : TotalOK(r)'
  BY <1>1, <1>3, RecordFacts, TotalStays DEF TotalsOK, TotalOK
<1>6. addressCache \subseteq {OperationsTo[longestBlock]}
  BY <1>2 DEF TotalsOK
<1>7. blockInfo'.longestChain => addressCache' \subseteq {TotalBefore(hash, 0)'}
  <2>1. hash' \in 1..Len(file) /\ blockInfo'.previous = file[hash'].previous
    BY <1>1, <1>2, ReadEffect DEF Inv, ImportOK, ReadOperations
  <2>2. PICK h : h = hash'
    OBVIOUS
  <2>3. TotalBefore(h, 0) = OperationsTo[file[h].previous]
    BY <2>1, <2>2, TotalSteps DEF Inv, RecordedOK
  <2>4. TotalBefore(hash, 0)' = TotalBefore(h, 0)
    BY <1>1, <1>4, <2>2 DEF TotalBefore, FirstOperations
  <2>5. blockInfo'.longestChain /\ ~Switches(blockInfo') =>
          blockInfo'.previous = longestBlock
    BY DEF Switches
  <2> QED
    BY <1>1, <1>6, <2>1, <2>2, <2>3, <2>4, <2>5
<1>8. ~blockInfo'.longestChain => addressCache' \subseteq {OperationsTo'[longestBlock']}
  BY <1>1, <1>4, <1>6
<1>9. BatchTotals'
  BY <1>1, <1>7, <1>8 DEF BatchTotals
<1> QED
  BY <1>2, <1>4, <1>5, <1>9 DEF TotalsOK

LEMMA TotalsProcess ==
  ASSUME Right, Inv', RecordedOK, FilesKept, TotalsOK, ProcessOperation
  PROVE  TotalsOK'
<1>1. PICK soFar, r :
        /\ soFar \in TotalsSoFar
        /\ addressCache' = IF blockInfo.longestChain THEN {r.total} ELSE addressCache
        /\ addressOperationsBlock' = {r.total}
        /\ batchOperations' = batchOperations \cup {r}
        /\ r.total = Append(soFar, <<hash, next>>)
        /\ r.transaction = next /\ r.block = hash - 1
  BY ProcessEffect DEF Right, ChainOf
<1>2. Inv /\ TypeOK /\ FileOrdered /\ OperationsTyped
  BY DEF Right, ChainOf, Inv, RecordedOK
<1>3. /\ Importing /\ BatchRecorded /\ BatchTotals /\ hash \in 1..Len(file)
      /\ next' = next + 1 /\ next \in Nat /\ hash = Len(dbBlocks) + 1 /\ hash \in Nat
      /\ Len(dbBlocks) \in Nat
  <2>1. next' = next + 1 /\ next \in 0..(operations[hash] - 1) /\ Importing /\ BatchRecorded
    BY <1>2, ProcessEffect
  <2>2. hash \in 1..Len(file) /\ hash = Len(dbBlocks) + 1 /\ Len(dbBlocks) \in Nat
    BY <1>2, <2>1, ImportPlace
  <2> QED
    BY <2>1, <2>2 DEF TotalsOK
<1>4. UNCHANGED vars /\ UNCHANGED <<operations, dbOperations>>
  BY DEF ProcessOperation
<1>5. UNCHANGED <<file, operations, dbOperations, hash, blockInfo, longestBlock, pc>>
  BY <1>4 DEF vars, importVars, tipVars
<1>6. blockInfo.previous = file[hash].previous
  BY <1>2, <1>3 DEF Inv, ImportOK
<1>7. TotalBefore(hash, 0) = OperationsTo[blockInfo.previous]
  BY <1>2, <1>3, <1>6, TotalSteps
<1>8. soFar = TotalBefore(hash, next)
  <2>1. CASE blockInfo.longestChain /\ addressCache # {}
    <3>1. soFar \in addressCache
      BY <1>1, <2>1 DEF TotalsSoFar, Cached
    <3> QED
      BY <1>3, <2>1, <3>1 DEF BatchTotals
  <2>2. CASE ~(blockInfo.longestChain /\ addressCache # {}) /\ addressOperationsBlock # {}
    <3>1. soFar \in addressOperationsBlock
      BY <1>1, <2>2 DEF TotalsSoFar, Cached
    <3> QED
      BY <1>3, <2>2, <3>1 DEF BatchTotals
  <2>3. CASE ~(blockInfo.longestChain /\ addressCache # {}) /\ addressOperationsBlock = {}
    <3>1. PICK beyond : soFar = LatestTotal(blockInfo.previous, beyond)
      BY <1>1, <2>3 DEF TotalsSoFar, Cached
    <3>2. next = 0
      BY <1>3, <2>3 DEF BatchTotals
    <3>3. blockInfo.previous \in DOMAIN blocks \cup {Null}
      BY <1>2, <1>3, TreeFacts DEF Hangs
    <3>4. blockInfo.previous = Null => dbBlocks = <<>>
      <4>1. file[hash].previous = Null <=> hash = 1
        BY <1>2, <1>3 DEF FileOrdered
      <4>2. hash = 1 => Len(dbBlocks) = 0
        BY <1>3
      <4>3. Len(dbBlocks) = 0 => dbBlocks = <<>>
        BY <1>2, EmptySeq DEF TypeOK
      <4> QED
        BY <1>6, <4>1, <4>2, <4>3
    <3>5. \A s \in dbOperations : TotalOK(s)
      BY DEF TotalsOK
    <3>6. LatestTotal(blockInfo.previous, beyond) = OperationsTo[blockInfo.previous]
      BY <3>3, <3>4, <3>5, LatestIsTotal
    <3> QED
      BY <1>7, <3>1, <3>2, <3>6
  <2> QED
    BY <2>1, <2>2, <2>3
<1>9. /\ r.total = TotalBefore(hash, next + 1) /\ TotalOK(r)
  <2>1. r.total = TotalBefore(hash, next + 1) /\ TotalAt(hash, next) = TotalBefore(hash, next + 1)
    BY <1>1, <1>2, <1>3, <1>8, TotalSteps
  <2>2. r.block + 1 = hash
    BY <1>1, <1>3
  <2> QED
    BY <1>1, <2>1, <2>2 DEF TotalOK
<1>10. OperationsTo' = OperationsTo
  BY <1>5 DEF OperationsTo, FirstOperations
<1>11. \A s : TotalOK(s) => TotalOK(s)'
  BY <1>5, <1>10 DEF TotalOK, TotalAt, FirstOperations
<1>12. TotalBefore(hash, next)' = TotalBefore(hash, next + 1)
  BY <1>3, <1>5, <1>10 DEF TotalBefore, FirstOperations
<1>13. next' # 0
  BY <1>3
<1>14. \A s \in batchOperations' : TotalOK(s)'
  BY <1>1, <1>3, <1>9, <1>11 DEF BatchTotals
<1>15. BatchTotals'
  <2>1. blockInfo'.longestChain => addressCache' = {TotalBefore(hash, next)'}
    BY <1>1, <1>5, <1>9, <1>12
  <2>2. ~blockInfo'.longestChain => addressCache' \subseteq {OperationsTo'[longestBlock']}
    BY <1>1, <1>3, <1>5, <1>10 DEF BatchTotals
  <2>3. addressOperationsBlock' = {TotalBefore(hash, next)'}
    BY <1>1, <1>9, <1>12
  <2> QED
    BY <1>13, <1>14, <2>1, <2>2, <2>3 DEF BatchTotals
<1> QED
  BY <1>3, <1>5, <1>11, <1>15 DEF TotalsOK, Importing

LEMMA TotalsWrite ==
  ASSUME Inv, Inv', RecordedOK, FilesKept, TotalsOK, WriteOperations
  PROVE  TotalsOK'
<1>1. /\ pc = "redo" /\ pc' = "idle" /\ UNCHANGED <<file, operations>>
      /\ addressCache' \in {addressCache, {}}
      /\ longestBlock' = IF blockInfo.longestChain THEN hash ELSE longestBlock
  BY DEF WriteOperations, Finish, tipVars
<1>2. /\ Importing /\ InCommit /\ ~Importing'
  BY <1>1 DEF Importing, InCommit
<1>3. /\ BatchTotals /\ BatchRecorded /\ hash \in 1..Len(file) /\ next = operations[hash]
      /\ Len(dbBlocks) \in Nat /\ hash = Len(dbBlocks) + 1 /\ Len(file) \in Nat
  BY <1>2, ImportPlace DEF TotalsOK, RecordedOK
<1>4. dbOperations' = dbOperations \cup batchOperations
  BY RecordedWrite
<1>5. OperationsTo' = OperationsTo
  BY <1>1 DEF OperationsTo, FirstOperations
<1>6. \A s : TotalOK(s) => TotalOK(s)'
  BY <1>1, <1>5 DEF TotalOK, TotalAt, FirstOperations
<1>7. \A s \in dbOperations' : TotalOK(s)'
  BY <1>3, <1>4, <1>6 DEF TotalsOK, BatchTotals
<1>8. longestBlock' \in 0..Len(file')
  BY <1>1, <1>3 DEF TotalsOK
<1>9. TotalBefore(hash, next) = OperationsTo[hash]
  BY <1>3, TotalSteps DEF Inv, RecordedOK
<1>10. blockInfo.longestChain => addressCache \subseteq {OperationsTo[hash]}
  BY <1>3, <1>9 DEF BatchTotals
<1>11. addressCache' \subseteq {OperationsTo'[longestBlock']}
  BY <1>1, <1>3, <1>5, <1>10 DEF BatchTotals
<1> QED
  BY <1>2, <1>7, <1>8, <1>11 DEF TotalsOK

LEMMA TotalsInit == AddressInit => TotalsOK
  BY DEF AddressInit, Init, TotalsOK, Importing, Null

TotalsOf == RecordedOf /\ TrueFlags /\ (~misled => TotalsOK)

LEMMA TotalsNext == TotalsOf /\ [AddressNext]_allVars => TotalsOf'
<1> SUFFICES ASSUME TotalsOf, [AddressNext]_allVars PROVE TotalsOf'
  OBVIOUS
<1>1. ChainOf /\ RecordedOK /\ TrueFlags /\ Inv
  BY DEF TotalsOf, RecordedOf, ChainOf
<1>2. ChainOf' /\ Inv'
  BY <1>1, ChainNext DEF ChainOf
<1>3. RecordedOK' /\ FilesKept
  BY <1>1, <1>2, RecordedNext, FilesStep
<1>4. TrueFlags'
  BY <1>1, <1>2, TrueFlagsNext
<1>5. ASSUME ~misled' PROVE TotalsOK'
  <2>1. ~misled
    <3>1. ReadOperations \/ ProcessOperation => misled' = misled
      BY DEF ReadOperations, ProcessOperation
    <3>2. WriteOperations => (misled => misled')
      BY DEF WriteOperations
    <3> QED
      BY <1>1, <1>5, <3>1, <3>2, OtherTotals
  <2>2. TotalsOK
    BY <2>1 DEF TotalsOf
  <2>3. CASE ReadOperations
    BY <1>1, <1>2, <1>3, <2>2, <2>3, TotalsRead
  <2>4. CASE ProcessOperation
    <3>1. Right
      BY <1>1, <2>1, <2>4 DEF Right, LockFree, ProcessOperation
    <3> QED
      BY <1>1, <1>2, <1>3, <2>2, <2>4, <3>1, TotalsProcess
  <2>5. CASE WriteOperations
    BY <1>1, <1>2, <1>3, <2>2, <2>5, TotalsWrite
  <2>6. CASE ~ReadOperations /\ ~ProcessOperation /\ ~WriteOperations
    BY <1>1, <1>2, <1>3, <2>2, <2>6, TotalsOther
  <2> QED
    BY <2>3, <2>4, <2>5, <2>6
<1> QED
  BY <1>2, <1>3, <1>4, <1>5 DEF TotalsOf, RecordedOf

LEMMA TotalsAlways == AddressSpec => []TotalsOf
<1>1. AddressInit => TotalsOf
  BY ChainInit, RecordedInit, TrueFlagsInit, TotalsInit DEF TotalsOf, RecordedOf
<1> QED
  BY <1>1, TotalsNext, PTL DEF AddressSpec

\* Unless a flag was wrong at some time, the totals of every record, of
\* whatever branch, are the sums over the branch of its block up to its
\* transaction: neither a total of the cache that is of another branch nor a
\* search that goes astray gets into a record, whatever the switches of the
\* chain, the crashes and the purges (main.cpp:732-798, AddressOperations.cpp:9-93).
THEOREM TotalsAlwaysOfBranch == AddressSpec => []TotalsOfBranch
<1>1. TotalsOf => TotalsOfBranch
  <2> SUFFICES ASSUME TotalsOf, ~misled, NEW r \in dbOperations
               PROVE  r.total = TotalAt(dbBlocks[r.block + 1].hash, r.transaction)
    BY DEF TotalsOfBranch
  <2>1. Inv /\ RecordedOK /\ TotalOK(r)
    BY DEF TotalsOf, RecordedOf, ChainOf, TotalsOK
  <2>2. r.block + 1 \in 1..Len(dbBlocks)
    BY <2>1, RecordFacts
  <2>3. dbBlocks[r.block + 1].hash = r.block + 1
    BY <2>1, <2>2 DEF Inv, IndexedOnce, RecordsOfFiles, RecordsUpTo, RecordOf
  <2> QED
    BY <2>1, <2>3 DEF TotalOK
<1> QED
  BY <1>1, TotalsAlways, PTL

-----------------------------------------------------------------------------
(* The records of a branch, in the order of their totals.                  *)

\* No block of a path comes after its end in the files.
LEMMA PathBounded ==
  ASSUME TypeOK, FileOrdered, NEW b \in 1..Len(file)
  PROVE  \A i \in 1..Len(Path[b]) : Path[b][i] \in 1..b
<1> DEFINE len == Len(Path[b])
           S   == {k \in 0..(len - 1) : Path[b][len - k] <= b}
<1>1. Len(file) \in Nat /\ b \in 0..Len(file) /\ b \in Nat
  BY Ancestry
<1>2. len \in Nat \ {0} /\ Path[b][len] = b
  <2>1. /\ Len(Path[b]) = Len(Path[file[b].previous]) + 1
        /\ Len(Path[file[b].previous]) \in Nat /\ Path[b][Len(Path[b])] = b
    BY PathTypes
  <2> QED
    BY <2>1
<1>3. \A i \in 1..len : /\ Path[b][i] \in 1..Len(file) /\ Path[b][i] \in Nat
                        /\ i # 1 => Path[b][i - 1] < Path[b][i]
  <2> SUFFICES ASSUME NEW i \in 1..len
               PROVE  /\ Path[b][i] \in 1..Len(file) /\ Path[b][i] \in Nat
                      /\ i # 1 => Path[b][i - 1] < Path[b][i]
    OBVIOUS
  <2>1. PICK h : h = Path[b][i]
    OBVIOUS
  <2>2. h \in 1..Len(file) /\ file[h].previous = IF i = 1 THEN 0 ELSE Path[b][i - 1]
    BY <1>1, <2>1, PathElements
  <2>3. file[h].previous \in 0..(h - 1)
    BY <2>2, Ancestry
  <2> QED
    BY <2>1, <2>2, <2>3
<1> HIDE DEF len
<1>4. 0 \in S
  BY <1>1, <1>2
<1>5. ASSUME NEW k \in 0..(len - 1 - 1), k \in S PROVE k + 1 \in S
  <2>1. /\ len - k \in 1..len /\ len - k # 1 /\ (len - k) - 1 = len - (k + 1)
        /\ len - (k + 1) \in 1..len /\ k + 1 \in 0..(len - 1)
    BY <1>2
  <2>2. Path[b][len - (k + 1)] < Path[b][len - k]
    BY <1>3, <2>1
  <2>3. Path[b][len - k] <= b
    BY <1>5
  <2>4. Path[b][len - (k + 1)] \in Nat /\ Path[b][len - k] \in Nat
    BY <1>3, <2>1
  <2>5. Path[b][len - (k + 1)] <= b
    BY <1>1, <2>2, <2>3, <2>4
  <2> QED
    BY <2>1, <2>5
<1>6. \A k \in 0..(len - 1) : k \in S
  <2>1. PICK m \in Nat : m = len - 1
    BY <1>2
  <2> HIDE DEF S
  <2>2. \A k \in 0..(m - 1) : k \in S => k + 1 \in S
    BY <1>5, <2>1
  <2>3. \A k \in 0..m : k \in S
    BY <1>4, <2>2, Upwards
  <2> QED
    BY <2>1, <2>3
<1>7. ASSUME NEW i \in 1..len PROVE Path[b][i] \in 1..b
  <2>1. len - i \in 0..(len - 1) /\ len - (len - i) = i
    BY <1>2
  <2>2. len - i \in S
    <3> HIDE DEF S
    <3> QED
      BY <1>6, <2>1
  <2>3. Path[b][i] <= b
    BY <2>1, <2>2
  <2> QED
    BY <1>1, <1>3, <2>3
<1> QED
  BY <1>7 DEF len

\* One total is the beginning of another.
Begins(s, t) ==
  /\ s \in Seq(Operation) /\ t \in Seq(Operation) /\ Len(s) <= Len(t)
  /\ \A m \in 1..Len(s) : s[m] = t[m]

LEMMA BeginsTransitive ==
  ASSUME NEW s, NEW t, NEW u, Begins(s, t), Begins(t, u)
  PROVE  Begins(s, u)
<1>1. Len(s) \in Nat /\ Len(t) \in Nat /\ Len(u) \in Nat
  BY DEF Begins
<1>2. \A m \in 1..Len(s) : m \in 1..Len(t)
  BY <1>1 DEF Begins
<1> QED
  BY <1>1, <1>2 DEF Begins

LEMMA BeginsSubSeq ==
  ASSUME NEW s, NEW t, Begins(s, t)
  PROVE  s = SubSeq(t, 1, Len(s))
<1> DEFINE u == SubSeq(t, 1, Len(s))
<1>1. Len(s) \in Nat /\ Len(t) \in Nat /\ s \in Seq(Operation) /\ Len(s) <= Len(t)
  BY DEF Begins
<1>2. \A i \in 1..Len(s) : t[i] \in Operation
  BY <1>1 DEF Begins
<1>3. /\ u \in Seq(Operation) /\ Len(u) = IF 1 <= Len(s) THEN Len(s) - 1 + 1 ELSE 0
      /\ \A i \in 1..(Len(s) - 1 + 1) : u[i] = t[1 + i - 1]
  BY <1>1, <1>2, SubSeqProperties
<1>4. Len(u) = Len(s)
  BY <1>1, <1>3
<1>5. ASSUME NEW i \in 1..Len(s) PROVE s[i] = u[i]
  <2>1. i \in 1..(Len(s) - 1 + 1) /\ 1 + i - 1 = i
    BY <1>1
  <2> HIDE DEF u
  <2> QED
    BY <1>3, <2>1 DEF Begins
<1> HIDE DEF u
<1>6. s = u
  BY <1>1, <1>3, <1>4, <1>5, SeqEqual
<1> QED
  BY <1>6 DEF u

\* The total after n operations of a block is the beginning of those after more.
LEMMA TotalLengths ==
  ASSUME TypeOK, FileOrdered, OperationsTyped, NEW b \in 1..Len(file),
         NEW n \in Nat, NEW m \in Nat, n <= m
  PROVE  /\ Begins(TotalBefore(b, n), TotalBefore(b, m))
         /\ Len(TotalBefore(b, n)) = Len(OperationsTo[file[b].previous]) + n
<1> DEFINE s == OperationsTo[file[b].previous]
           t == FirstOperations(b, n)
           u == FirstOperations(b, m)
<1>1. b \in Nat /\ s \in Seq(Operation)
  <2>1. Len(file) \in Nat /\ file[b].previous \in 0..Len(file)
    BY Ancestry, TotalSteps
  <2> QED
    BY <2>1, TotalsTyped
<1>2. /\ t \in Seq(Operation) /\ Len(t) = n /\ u \in Seq(Operation) /\ Len(u) = m
      /\ \A i \in 1..n : t[i] = <<b, i - 1>>
      /\ \A i \in 1..m : u[i] = <<b, i - 1>>
  BY <1>1, FirstOperationsFacts
<1> HIDE DEF s, t, u
<1>3. /\ s \o t \in Seq(Operation) /\ Len(s \o t) = Len(s) + n
      /\ s \o u \in Seq(Operation) /\ Len(s \o u) = Len(s) + m
      /\ Len(s) \in Nat
  <2>1. s \o t \in Seq(Operation) /\ Len(s \o t) = Len(s) + Len(t)
    BY <1>1, <1>2, ConcatProperties
  <2>2. s \o u \in Seq(Operation) /\ Len(s \o u) = Len(s) + Len(u)
    BY <1>1, <1>2, ConcatProperties
  <2> QED
    BY <1>1, <1>2, <2>1, <2>2
<1>4. ASSUME NEW i \in 1..(Len(s) + n) PROVE (s \o t)[i] = (s \o u)[i]
  <2>1. i \in 1..(Len(s) + Len(t)) /\ i \in 1..(Len(s) + Len(u))
    BY <1>2, <1>3
  <2>2. CASE i <= Len(s)
    BY <1>1, <1>2, <2>1, <2>2, ConcatProperties
  <2>3. CASE ~(i <= Len(s))
    <3>1. i - Len(s) \in 1..n /\ i - Len(s) \in 1..m
      BY <1>3, <2>3
    <3>2. t[i - Len(s)] = u[i - Len(s)]
      BY <1>2, <3>1
    <3>3. (s \o t)[i] = t[i - Len(s)] /\ (s \o u)[i] = u[i - Len(s)]
      BY <1>1, <1>2, <2>1, <2>3, ConcatProperties
    <3> QED
      BY <3>2, <3>3
  <2> QED
    BY <2>2, <2>3
<1>5. Begins(s \o t, s \o u)
  BY <1>3, <1>4 DEF Begins
<1> QED
  BY <1>3, <1>5 DEF TotalBefore, s, t, u

\* The operations of the lowest i blocks of the branch of block b.
UpTo(b, i) == IF i = 0 THEN <<>> ELSE OperationsTo[Path[b][i]]

LEMMA UpToSteps ==
  ASSUME TypeOK, FileOrdered, OperationsTyped, NEW b \in 1..Len(file),
         NEW i \in 1..Len(Path[b]), NEW h, h = Path[b][i]
  PROVE  /\ h \in 1..Len(file) /\ operations[h] \in Nat
         /\ UpTo(b, i - 1) = OperationsTo[file[h].previous]
         /\ UpTo(b, i) = TotalBefore(h, operations[h])
         /\ UpTo(b, i - 1) = TotalBefore(h, 0)
<1>1. b \in 0..Len(file) /\ 0 \in 0..Len(file)
  BY Ancestry
<1>2. h \in 1..Len(file) /\ file[h].previous = IF i = 1 THEN 0 ELSE Path[b][i - 1]
  BY <1>1, PathElements
<1>3. OperationsTo[0] = <<>>
  BY <1>1, OperationsSteps DEF OperationsStep
<1>4. UpTo(b, i - 1) = OperationsTo[file[h].previous]
  <2>1. i = 1 <=> i - 1 = 0
    OBVIOUS
  <2> QED
    BY <1>2, <1>3, <2>1 DEF UpTo
<1>5. /\ operations[h] \in Nat /\ OperationsTo[h] = TotalBefore(h, operations[h])
      /\ TotalBefore(h, 0) = OperationsTo[file[h].previous]
  BY <1>2, TotalSteps
<1>6. UpTo(b, i) = OperationsTo[h]
  BY DEF UpTo
<1> QED
  BY <1>2, <1>4, <1>5, <1>6

LEMMA UpToGrows ==
  ASSUME TypeOK, FileOrdered, OperationsTyped, NEW b \in 1..Len(file)
  PROVE  \A i, j \in 0..Len(Path[b]) : i <= j => Begins(UpTo(b, i), UpTo(b, j))
<1>1. Len(Path[b]) \in Nat
  BY PathTypes, SMTT(30)
<1>2. ASSUME NEW i \in 1..Len(Path[b])
      PROVE  Begins(UpTo(b, i - 1), UpTo(b, i))
  <2>1. PICK h : h = Path[b][i]
    OBVIOUS
  <2>2. h \in 1..Len(file) /\ operations[h] \in Nat
    BY <2>1, UpToSteps
  <2>3. UpTo(b, i) = TotalBefore(h, operations[h])
    BY <2>1, UpToSteps
  <2>4. UpTo(b, i - 1) = TotalBefore(h, 0)
    BY <2>1, UpToSteps
  <2>5. Begins(TotalBefore(h, 0), TotalBefore(h, operations[h]))
    <3>1. 0 \in Nat /\ 0 <= operations[h]
      BY <2>2
    <3> QED
      BY <2>2, <3>1, TotalLengths
  <2> QED
    BY <2>3, <2>4, <2>5
<1>3. ASSUME NEW i \in 0..Len(Path[b])
      PROVE  UpTo(b, i) \in Seq(Operation)
  <2>1. CASE i = 0
    BY <2>1 DEF UpTo
  <2>2. CASE i # 0
    <3>1. i \in 1..Len(Path[b])
      BY <2>2
    <3> QED
      BY <1>2, <3>1 DEF Begins
  <2> QED
    BY <2>1, <2>2
<1>4. ASSUME NEW i \in 0..Len(Path[b]), NEW j \in 0..Len(Path[b]), i <= j
      PROVE  Begins(UpTo(b, i), UpTo(b, j))
  <2> DEFINE S == {k \in 0..(j - i) : Begins(UpTo(b, i), UpTo(b, i + k))}
  <2>1. 0 \in S
    <3>1. Begins(UpTo(b, i), UpTo(b, i))
      BY <1>3 DEF Begins
    <3>2. i + 0 = i /\ 0 \in 0..(j - i)
      BY <1>1, <1>4
    <3> QED
      BY <3>1, <3>2
  <2>2. ASSUME NEW k \in 0..(j - i - 1), k \in S PROVE k + 1 \in S
    <3>1. /\ i + (k + 1) \in 1..Len(Path[b]) /\ (i + (k + 1)) - 1 = i + k
          /\ k + 1 \in 0..(j - i)
      BY <1>1
    <3>2. Begins(UpTo(b, i + k), UpTo(b, i + (k + 1)))
      BY <1>2, <3>1
    <3>3. Begins(UpTo(b, i), UpTo(b, i + (k + 1)))
      BY <2>2, <3>2, BeginsTransitive
    <3> QED
      BY <3>1, <3>3
  <2>3. PICK m \in Nat : m = j - i
    <3>1. j - i \in Nat
      BY <1>1, <1>4
    <3> QED
      BY <3>1
  <2>4. m \in S
    <3> HIDE DEF S
    <3>1. \A k \in 0..(m - 1) : k \in S => k + 1 \in S
      BY <2>2, <2>3
    <3>2. \A k \in 0..m : k \in S
      BY <2>1, <3>1, Upwards
    <3> QED
      BY <3>2
  <2>5. i + m = j
    BY <2>3
  <2> QED
    BY <2>4, <2>5
<1> QED
  BY <1>4

\* Where the total of a record of the branch is among them.
LEMMA RecordOnBranch ==
  ASSUME Inv, RecordedOK, NEW b \in 1..Len(file), NEW r \in dbOperations,
         OnBranch(r, b), TotalOK(r)
  PROVE  /\ r.height + 1 \in 1..Len(Path[b])
         /\ Len(r.total) = Len(UpTo(b, r.height)) + r.transaction + 1
         /\ Begins(r.total, UpTo(b, r.height + 1))
         /\ Len(UpTo(b, r.height)) \in Nat
<1>1. TypeOK /\ FileOrdered /\ OperationsTyped
  BY DEF Inv, RecordedOK
<1>2. PICK h, i, k : h = r.block + 1 /\ i = r.height + 1 /\ k = r.transaction
  OBVIOUS
<1>3. /\ h \in 1..Len(file) /\ k \in Nat /\ k < operations[h] /\ r.height \in Nat
      /\ i - 1 = r.height
  BY <1>2, RecordFacts
<1>4. Len(Path[b]) \in Nat
  BY <1>1, PathTypes, SMTT(30)
<1>5. i \in 1..Len(Path[b]) /\ h = Path[b][i]
  BY <1>2, <1>3, <1>4 DEF OnBranch
<1>6. /\ operations[h] \in Nat /\ UpTo(b, i) = TotalBefore(h, operations[h])
      /\ UpTo(b, i - 1) = OperationsTo[file[h].previous]
      /\ UpTo(b, i - 1) = TotalBefore(h, 0)
  BY <1>1, <1>5, UpToSteps
<1>7. r.total = TotalBefore(h, k + 1)
  <2>1. r.total = TotalAt(h, k)
    BY <1>2 DEF TotalOK
  <2>2. TotalAt(h, k) = TotalBefore(h, k + 1)
    BY <1>1, <1>3, TotalSteps
  <2> QED
    BY <2>1, <2>2
<1>8. /\ Begins(TotalBefore(h, k + 1), TotalBefore(h, operations[h]))
      /\ Len(TotalBefore(h, k + 1)) = Len(OperationsTo[file[h].previous]) + (k + 1)
  <2>1. k + 1 \in Nat /\ k + 1 <= operations[h]
    BY <1>3, <1>6
  <2> QED
    BY <1>1, <1>3, <1>6, <2>1, TotalLengths
<1>9. Len(UpTo(b, i - 1)) \in Nat
  <2>1. i - 1 \in 0..Len(Path[b]) /\ i - 1 <= i - 1
    BY <1>4, <1>5
  <2>2. Begins(UpTo(b, i - 1), UpTo(b, i - 1))
    BY <1>1, <2>1, UpToGrows
  <2> QED
    BY <2>2 DEF Begins
<1>10. Len(r.total) = Len(UpTo(b, i - 1)) + k + 1
  <2>1. Len(r.total) = Len(UpTo(b, i - 1)) + (k + 1)
    <3>1. UpTo(b, i - 1) = OperationsTo[file[h].previous]
      BY <1>6
    <3> QED
      BY <1>7, <1>8, <3>1
  <2> QED
    BY <1>3, <1>9, <2>1
<1>11. Begins(r.total, UpTo(b, i))
  BY <1>6, <1>7, <1>8
<1> QED
  BY <1>2, <1>3, <1>5, <1>9, <1>10, <1>11

\* The records of a branch come in the order of their totals, the longest first.
LEMMA BranchOrder ==
  ASSUME Inv, RecordedOK, NEW b \in 1..Len(file),
         NEW r \in dbOperations, OnBranch(r, b), TotalOK(r),
         NEW s \in dbOperations, OnBranch(s, b), TotalOK(s), Before(r, s)
  PROVE  Len(s.total) < Len(r.total)
<1>1. TypeOK /\ FileOrdered /\ OperationsTyped
  BY DEF Inv, RecordedOK
<1>2. /\ r.height \in Nat /\ r.transaction \in Nat /\ s.height \in Nat /\ s.transaction \in Nat
      /\ r.block \in Nat /\ s.block \in Nat
  BY RecordFacts
<1>3. /\ r.height + 1 \in 1..Len(Path[b])
      /\ Len(r.total) = Len(UpTo(b, r.height)) + r.transaction + 1
      /\ Len(UpTo(b, r.height)) \in Nat
  BY RecordOnBranch
<1>4. /\ s.height + 1 \in 1..Len(Path[b])
      /\ Len(s.total) = Len(UpTo(b, s.height)) + s.transaction + 1
      /\ Begins(s.total, UpTo(b, s.height + 1))
      /\ Len(UpTo(b, s.height)) \in Nat
  BY RecordOnBranch
<1>5. CASE r.height > s.height
  <2>1. /\ s.height + 1 \in 0..Len(Path[b]) /\ r.height \in 0..Len(Path[b])
        /\ s.height + 1 <= r.height
    <3>1. r.height + 1 \in 1..Len(Path[b]) /\ s.height + 1 \in 1..Len(Path[b])
      BY <1>3, <1>4
    <3> QED
      BY <1>2, <1>5, <3>1
  <2>2. Begins(UpTo(b, s.height + 1), UpTo(b, r.height))
    BY <1>1, <2>1, UpToGrows
  <2>3. Len(s.total) <= Len(UpTo(b, s.height + 1))
        /\ Len(UpTo(b, s.height + 1)) <= Len(UpTo(b, r.height))
        /\ Len(UpTo(b, s.height + 1)) \in Nat
    BY <1>4, <2>2 DEF Begins
  <2>4. Len(s.total) \in Nat
    BY <1>2, <1>4
  <2> QED
    BY <1>2, <1>3, <2>3, <2>4
<1>6. CASE r.height = s.height
  <2>1. r.block + 1 = s.block + 1
    BY <1>6 DEF OnBranch
  <2>2. r.transaction > s.transaction
    BY <1>2, <1>6, <2>1 DEF Before
  <2>3. PICK n \in Nat : n = Len(UpTo(b, r.height))
    BY <1>3
  <2>4. Len(r.total) = n + r.transaction + 1 /\ Len(s.total) = n + s.transaction + 1
    BY <1>3, <1>4, <1>6, <2>3
  <2> QED
    BY <1>2, <2>2, <2>4
<1> QED
  BY <1>2, <1>5, <1>6 DEF Before

\* There is one for each operation of the branch.
LEMMA EveryLength ==
  ASSUME Inv, RecordedOK, \A r \in dbOperations : TotalOK(r), NEW b \in 1..Len(dbBlocks)
  PROVE  \A m \in 1..Len(UpTo(b, Len(Path[b]))) :
           \E r \in dbOperations : OnBranch(r, b) /\ Len(r.total) = m
<1> SUFFICES ASSUME NEW m \in 1..Len(UpTo(b, Len(Path[b])))
             PROVE  \E r \in dbOperations : OnBranch(r, b) /\ Len(r.total) = m
  OBVIOUS
<1> DEFINE len == Len(Path[b])
           S   == {i \in 0..len : m <= Len(UpTo(b, i))}
<1>1. /\ TypeOK /\ FileOrdered /\ OperationsTyped /\ b \in 1..Len(file)
      /\ Len(dbBlocks) \in Nat /\ Len(dbBlocks) <= Len(file) /\ Len(file) \in Nat
  <2>1. Len(dbBlocks) \in Nat /\ Len(dbBlocks) <= Len(file) /\ Len(file) \in Nat
    BY ImportPlace
  <2> QED
    BY <2>1 DEF Inv, RecordedOK
<1>2. len \in Nat /\ len \in S
  <2>1. len \in Nat
    BY <1>1, PathTypes, SMTT(30)
  <2> QED
    BY <2>1
<1>3. PICK i \in S : \A j \in S : i <= j
  <2>1. S \subseteq Nat /\ S # {}
    BY <1>2
  <2> HIDE DEF S
  <2> QED
    BY <2>1, LeastElement
<1>4. i # 0
  <2>1. Len(UpTo(b, 0)) = 0
    BY DEF UpTo
  <2> QED
    BY <1>3, <2>1
<1>5. i \in 1..len /\ i - 1 \in 0..len /\ ~(i <= i - 1)
  BY <1>2, <1>3, <1>4
<1>6. i - 1 \notin S
  <2> HIDE DEF S
  <2> QED
    BY <1>3, <1>5
<1>7. PICK h : h = Path[b][i]
  OBVIOUS
<1>8. /\ h \in 1..Len(file) /\ operations[h] \in Nat
      /\ UpTo(b, i - 1) = OperationsTo[file[h].previous]
      /\ UpTo(b, i) = TotalBefore(h, operations[h])
  <2>1. i \in 1..Len(Path[b])
    BY <1>5
  <2> HIDE DEF len, S
  <2>2. h \in 1..Len(file) /\ operations[h] \in Nat
    BY <1>1, <1>7, <2>1, UpToSteps
  <2>3. UpTo(b, i - 1) = OperationsTo[file[h].previous]
    BY <1>1, <1>7, <2>1, UpToSteps
  <2>4. UpTo(b, i) = TotalBefore(h, operations[h])
    BY <1>1, <1>7, <2>1, UpToSteps
  <2> QED
    BY <2>2, <2>3, <2>4
<1>9. Len(UpTo(b, i)) = Len(UpTo(b, i - 1)) + operations[h] /\ Len(UpTo(b, i - 1)) \in Nat
  <2>1. operations[h] <= operations[h]
    BY <1>8
  <2>2. Len(UpTo(b, i)) = Len(UpTo(b, i - 1)) + operations[h]
    BY <1>1, <1>8, <2>1, TotalLengths
  <2>3. Begins(UpTo(b, i - 1), UpTo(b, i - 1))
    BY <1>1, <1>5, UpToGrows
  <2>4. Len(UpTo(b, i - 1)) \in Nat
    BY <2>3 DEF Begins
  <2> QED
    BY <2>2, <2>4
<1>10. PICK k : k = m - Len(UpTo(b, i - 1)) - 1
  OBVIOUS
<1>11. k \in 0..(operations[h] - 1) /\ Len(UpTo(b, i - 1)) + k + 1 = m
  <2>1. m <= Len(UpTo(b, i)) /\ ~(m <= Len(UpTo(b, i - 1))) /\ m \in Nat
    BY <1>3, <1>5, <1>6
  <2>2. PICK below \in Nat, many \in Nat :
          below = Len(UpTo(b, i - 1)) /\ many = operations[h]
    BY <1>8, <1>9
  <2>3. k = m - below - 1 /\ m <= below + many /\ ~(m <= below)
    BY <1>9, <1>10, <2>1, <2>2
  <2>4. k \in 0..(many - 1) /\ below + k + 1 = m
    BY <2>1, <2>3
  <2> QED
    BY <2>2, <2>4
<1>12. h \in 1..Len(dbBlocks) /\ Len(Path[h]) = i
  <2>1. h \in 1..b
    BY <1>1, <1>5, <1>7, PathBounded
  <2>2. b \in 0..Len(file)
    BY <1>1
  <2>3. Len(Path[h]) = i
    BY <1>1, <1>5, <1>7, <2>2, PathElements
  <2> QED
    BY <1>1, <2>1, <2>3
<1>13. PICK r \in dbOperations : r.block = h - 1 /\ r.transaction = k /\ r.height = i - 1
  <2>1. k \in 0..(operations[h] - 1)
    BY <1>11
  <2>2. EveryOperationRecorded
    BY DEF RecordedOK
  <2>3. PICK r \in dbOperations :
          r.block = h - 1 /\ r.transaction = k /\ r.height = Len(Path[h]) - 1
    BY <1>12, <2>1, <2>2 DEF EveryOperationRecorded
  <2> QED
    BY <1>12, <2>3
<1>14. OnBranch(r, b)
  <2>1. r.height + 1 = i /\ r.block + 1 = h /\ i <= len
    BY <1>2, <1>5, <1>8, <1>13
  <2> HIDE DEF S
  <2> QED
    BY <1>7, <2>1 DEF OnBranch
<1>15. Len(r.total) = Len(UpTo(b, r.height)) + r.transaction + 1
  BY <1>1, <1>14, RecordOnBranch
<1> QED
  BY <1>11, <1>13, <1>14, <1>15

-----------------------------------------------------------------------------
(* What a query has found.                                                 *)

\* All that a query of the main chain that ends in b may list.
AllOf(b, confirmations) ==
  LET confirmed == Len(Path[b]) + 1 - IF confirmations = 0 THEN 1 ELSE confirmations
  IN IF confirmed <= 0 THEN <<>> ELSE OperationsTo[Path[b][confirmed]]

\* The records of the branch of b with the totals up to a length are still to
\* come, and no other one that the query may list.
ToCome(left, rest, b, confirmations) ==
  /\ \A m \in 1..rest : \E r \in left : OnBranch(r, b) /\ Len(r.total) = m
  /\ \A r \in left :
       OnBranch(r, b) /\ Len(r.total) <= Len(AllOf(b, confirmations)) => Len(r.total) <= rest

\* A part of it is found, and the records of the others are still to come.
Scanned(q) ==
  LET all  == AllOf(q.start, q.confirmations)
      rest == Len(all) - Len(q.found)
  IN /\ Len(all) \in Nat /\ rest \in Nat
     /\ CursorOn(q, q.left, q.start)
     /\ \A i \in 1..Len(q.found) :
          q.found[i].total = SubSeq(all, 1, Len(all) - i + 1)
     /\ ToCome(q.left, rest, q.start, q.confirmations)

QueryTyped(q) ==
  /\ q \in [pc: {"idle", "copy", "open", "scan"}, limit: Nat, confirmations: Nat,
            start: {q.start}, hash: {q.hash}, info: {q.info},
            left: SUBSET dbOperations, found: Seq(dbOperations), disturbed: BOOLEAN]
  /\ q.pc # "idle" => pc = "idle" \/ Importing
  /\ q.pc # "idle" => Len(q.found) <= q.limit
  /\ q.pc \in {"copy", "open"} => q.found = <<>>

\* The main chain still begins with the path of block b, where a query began.
StartOnChain(b) ==
  /\ b \in 1..Len(dbBlocks)
  /\ Len(Path[b]) <= Len(currentChain)
  /\ \A i \in 1..Len(Path[b]) : currentChain[i] = Path[b][i]

QueryRight(q) ==
  q.pc # "idle" /\ ~q.disturbed =>
    /\ StartOnChain(q.start)
    /\ q.pc = "open" => SeenAt(q, q.start)
    /\ q.pc = "scan" => Scanned(q)

QueryOK == QueryTyped(query) /\ (~misled => QueryRight(query))

\* It is the operations of the lowest i blocks of the branch.
LEMMA AllOfUpTo ==
  ASSUME TypeOK, FileOrdered, OperationsTyped, NEW b \in 1..Len(file), NEW n \in Nat
  PROVE  \E i \in 0..Len(Path[b]) :
           /\ AllOf(b, n) = UpTo(b, i)
           /\ \A h \in Nat : h + 1 <= Len(Path[b]) =>
                             (h + n <= Len(Path[b]) <=> h + 1 <= i)
<1>1. PICK len : len = Len(Path[b])
  OBVIOUS
<1>2. len \in Nat
  BY <1>1, PathTypes, SMTT(30)
<1> DEFINE confirmed == len + 1 - IF n = 0 THEN 1 ELSE n
<1>3. AllOf(b, n) = IF confirmed <= 0 THEN <<>> ELSE OperationsTo[Path[b][confirmed]]
  BY <1>1 DEF AllOf
<1>4. confirmed \in Int /\ confirmed <= len
  BY <1>2
<1>5. \A h \in Nat : h + 1 <= len => (h + n <= len <=> h + 1 <= confirmed)
  BY <1>2
<1> HIDE DEF confirmed
<1>6. PICK i \in 0..len : /\ confirmed <= 0 => i = 0
                          /\ ~(confirmed <= 0) => i = confirmed
  <2>1. CASE confirmed <= 0
    <3>1. 0 \in 0..len
      BY <1>2
    <3> QED
      BY <2>1, <3>1
  <2>2. CASE ~(confirmed <= 0)
    <3>1. confirmed \in 0..len
      BY <1>2, <1>4, <2>2
    <3> QED
      BY <2>2, <3>1
  <2> QED
    BY <2>1, <2>2
<1>7. AllOf(b, n) = UpTo(b, i)
  BY <1>3, <1>4, <1>6 DEF UpTo
<1>8. \A h \in Nat : h + 1 <= confirmed <=> h + 1 <= i
  BY <1>4, <1>6
<1> QED
  BY <1>1, <1>5, <1>6, <1>7, <1>8

\* The records with enough confirmations are those of it, and their totals
\* are its beginnings.
LEMMA ConfirmedRecords ==
  ASSUME Inv, RecordedOK, NEW b \in 1..Len(file), NEW n \in Nat,
         NEW r \in dbOperations, OnBranch(r, b), TotalOK(r)
  PROVE  /\ r.height + n <= Len(Path[b]) <=> Len(r.total) <= Len(AllOf(b, n))
         /\ Len(r.total) <= Len(AllOf(b, n)) =>
              r.total = SubSeq(AllOf(b, n), 1, Len(r.total))
         /\ Len(r.total) \in Nat \ {0} /\ Len(AllOf(b, n)) \in Nat
<1>1. TypeOK /\ FileOrdered /\ OperationsTyped
  BY DEF Inv, RecordedOK
<1>2. PICK i \in 0..Len(Path[b]) :
        /\ AllOf(b, n) = UpTo(b, i)
        /\ \A h \in Nat : h + 1 <= Len(Path[b]) => (h + n <= Len(Path[b]) <=> h + 1 <= i)
  BY <1>1, AllOfUpTo
<1>3. /\ r.height + 1 \in 1..Len(Path[b])
      /\ Len(r.total) = Len(UpTo(b, r.height)) + r.transaction + 1
      /\ Begins(r.total, UpTo(b, r.height + 1))
      /\ Len(UpTo(b, r.height)) \in Nat
  BY RecordOnBranch
<1>4. r.height \in Nat /\ r.transaction \in Nat /\ Len(Path[b]) \in Nat
  <2>1. Len(Path[b]) \in Nat
    BY <1>1, PathTypes, SMTT(30)
  <2> QED
    BY <2>1, RecordFacts
<1>5. r.height + n <= Len(Path[b]) <=> r.height + 1 <= i
  BY <1>2, <1>3, <1>4
<1>6. Len(UpTo(b, i)) \in Nat /\ Len(r.total) \in Nat \ {0}
  <2>1. Begins(UpTo(b, i), UpTo(b, i))
    BY <1>1, <1>4, UpToGrows
  <2>2. Len(UpTo(b, i)) \in Nat
    BY <2>1 DEF Begins
  <2>3. Len(r.total) \in Nat \ {0}
    BY <1>3, <1>4
  <2> QED
    BY <2>2, <2>3
<1>7. CASE r.height + 1 <= i
  <2>1. r.height + 1 \in 0..Len(Path[b])
    BY <1>3, <1>4
  <2>2. Begins(UpTo(b, r.height + 1), UpTo(b, i))
    BY <1>1, <1>7, <2>1, UpToGrows
  <2>3. Begins(r.total, UpTo(b, i))
    BY <1>3, <2>2, BeginsTransitive
  <2>4. Len(r.total) <= Len(UpTo(b, i)) /\ r.total = SubSeq(UpTo(b, i), 1, Len(r.total))
    BY <2>3, BeginsSubSeq DEF Begins
  <2> QED
    BY <1>2, <1>5, <1>6, <1>7, <2>4
<1>8. CASE ~(r.height + 1 <= i)
  <2>1. r.height \in 0..Len(Path[b]) /\ i <= r.height
    BY <1>3, <1>4, <1>8
  <2>2. Begins(UpTo(b, i), UpTo(b, r.height))
    BY <1>1, <2>1, UpToGrows
  <2>3. Len(UpTo(b, i)) <= Len(UpTo(b, r.height))
    BY <2>2 DEF Begins
  <2>4. ~(Len(r.total) <= Len(UpTo(b, i)))
    BY <1>3, <1>4, <1>6, <2>3
  <2> QED
    BY <1>2, <1>5, <1>6, <1>8, <2>4
<1> QED
  BY <1>7, <1>8

\* A query begins at the tip of the main chain.
LEMMA StartsRight ==
  ASSUME RecordedOK, NEW q, QueryStarts, q = query', QueryTyped(query),
         ~misled => Right
  PROVE  QueryTyped(q) /\ (~misled => QueryRight(q))
<1>1. PICK r \in Requests :
        q = [NoQuery EXCEPT !.pc = "copy", !.limit = r.limit,
                            !.confirmations = r.confirmations, !.start = TipOf(currentChain)]
  BY DEF QueryStarts
<1>2. r.limit \in Nat /\ r.confirmations \in Nat
  BY AddressAssumption
<1>3. PICK tip : tip = TipOf(currentChain)
  OBVIOUS
<1>4. q = [pc |-> "copy", limit |-> r.limit, confirmations |-> r.confirmations,
           start |-> tip, hash |-> Null, info |-> NoInfo, left |-> {}, found |-> <<>>,
           disturbed |-> FALSE]
  BY <1>1, <1>3 DEF NoQuery
<1>5. pc = "idle" \/ Importing
  BY DEF QueryStarts, LockFree, Importing
<1>6. QueryTyped(q)
  BY <1>2, <1>4, <1>5 DEF QueryTyped
<1>7. ASSUME ~misled PROVE StartOnChain(tip)
  <2>1. Right /\ currentChain # <<>>
    BY <1>7 DEF QueryStarts
  <2>2. Inv /\ PathAbove(currentChain, 0, Null)
    BY <2>1 DEF Right, ChainOf, LockFree, Inv, ChainOK
  <2>3. tip \in DOMAIN blocks \cup {Null} /\ currentChain = Path[tip]
    BY <1>3, <2>2, ChainIsPath
  <2>4. tip # Null
    <3>1. Path[0] = <<>>
      BY <2>2, PathSteps DEF Inv
    <3> QED
      BY <2>1, <2>3, <3>1 DEF Null
  <2>5. tip \in 1..Len(dbBlocks) /\ Len(Path[tip]) \in Nat
    BY <2>1, <2>3, <2>4, TreeSeen
  <2> QED
    BY <2>3, <2>5 DEF StartOnChain
<1>8. ~misled => QueryRight(q)
  BY <1>4, <1>7 DEF QueryRight
<1> QED
  BY <1>6, <1>8

LEMMA CopiesRight ==
  ASSUME NEW q, QueryCopies, q = query', QueryTyped(query), ~misled => Right,
         ~misled => QueryRight(query)
  PROVE  QueryTyped(q) /\ (~misled => QueryRight(q))
<1>1. /\ q = [query EXCEPT !.pc = "open", !.hash = query.start, !.info = InfoOf(query.start)]
      /\ query.pc = "copy"
  BY DEF QueryCopies
<1>2. /\ q.pc = "open" /\ q.hash = query.start /\ q.info = InfoOf(query.start)
      /\ q.start = query.start /\ q.disturbed = query.disturbed
  BY <1>1 DEF QueryTyped
<1>3. QueryTyped(q)
  BY <1>1 DEF QueryTyped
<1>4. ASSUME ~misled PROVE QueryRight(q)
  <2> SUFFICES ASSUME ~q.disturbed PROVE StartOnChain(q.start) /\ SeenAt(q, q.start)
    BY <1>2 DEF QueryRight
  <2>1. StartOnChain(q.start) /\ Right
    BY <1>1, <1>2, <1>4 DEF QueryRight
  <2>2. q.start \in DOMAIN blocks
    BY <2>1, TreeSeen DEF StartOnChain
  <2>3. SeenAt(CursorAt(q.start), q.start)
    BY <2>1, <2>2, FreshCopy
  <2>4. SeenAt(q, q.start)
    BY <1>2, <2>3 DEF SeenAt, CursorAt
  <2> QED
    BY <2>1, <2>4
<1> QED
  BY <1>3, <1>4

\* All records are still to come.
LEMMA OpensRight ==
  ASSUME Inv, RecordedOK, NEW q, QueryOpens, q = query', QueryTyped(query),
         ~misled => TotalsOK, ~misled => QueryRight(query)
  PROVE  QueryTyped(q) /\ (~misled => QueryRight(q))
<1>1. q = [query EXCEPT !.pc = "scan", !.left = dbOperations] /\ query.pc = "open"
  BY DEF QueryOpens
<1>2. /\ q.pc = "scan" /\ q.hash = query.hash /\ q.info = query.info
      /\ q.left = dbOperations /\ q.found = <<>> /\ q.confirmations \in Nat
      /\ q.start = query.start /\ q.disturbed = query.disturbed
  BY <1>1 DEF QueryTyped
<1>3. QueryTyped(q)
  BY <1>1 DEF QueryTyped
<1>4. ASSUME ~misled, ~q.disturbed PROVE StartOnChain(q.start) /\ Scanned(q)
  <2>1. /\ StartOnChain(q.start) /\ SeenAt(query, q.start)
        /\ \A r \in dbOperations : TotalOK(r)
    BY <1>1, <1>2, <1>4 DEF QueryRight, TotalsOK
  <2>2. PICK b, all : b = q.start /\ all = AllOf(q.start, q.confirmations)
    OBVIOUS
  <2>3. /\ b \in 1..Len(dbBlocks) /\ b \in 1..Len(file)
        /\ TypeOK /\ FileOrdered /\ OperationsTyped
    <3>1. Len(dbBlocks) \in Nat /\ Len(dbBlocks) <= Len(file) /\ Len(file) \in Nat
      BY ImportPlace
    <3> QED
      BY <2>1, <2>2, <3>1 DEF StartOnChain, Inv, RecordedOK
  <2>4. PICK i \in 0..Len(Path[b]) : all = UpTo(b, i)
    BY <1>2, <2>2, <2>3, AllOfUpTo
  <2>5. Len(Path[b]) \in Nat \ {0} /\ Path[b][Len(Path[b])] = b
    <3>1. /\ Len(Path[b]) = Len(Path[file[b].previous]) + 1
          /\ Len(Path[file[b].previous]) \in Nat /\ Path[b][Len(Path[b])] = b
      BY <2>3, PathTypes
    <3> QED
      BY <3>1
  <2>6. Begins(all, UpTo(b, Len(Path[b])))
    BY <2>3, <2>4, <2>5, UpToGrows
  <2>7. /\ Len(all) \in Nat /\ Len(UpTo(b, Len(Path[b]))) \in Nat
        /\ Len(all) <= Len(UpTo(b, Len(Path[b])))
    BY <2>6 DEF Begins
  <2>8. CursorOn(q, q.left, b)
    <3>1. SeenAt(q, b)
      BY <1>2, <2>1, <2>2 DEF SeenAt
    <3> QED
      BY <2>5, <3>1 DEF CursorOn
  <2>9. \A m \in 1..Len(all) : \E r \in q.left : OnBranch(r, b) /\ Len(r.total) = m
    <3>1. \A m \in 1..Len(all) : m \in 1..Len(UpTo(b, Len(Path[b])))
      BY <2>7
    <3> QED
      BY <1>2, <2>1, <2>3, <3>1, EveryLength
  <2>10. Len(all) - Len(q.found) = Len(all) /\ \A k \in 1..Len(q.found) : FALSE
    BY <1>2, <2>7
  <2>11. ToCome(q.left, Len(all), b, q.confirmations)
    BY <2>2, <2>9 DEF ToCome
  <2>12. Scanned(q)
    BY <2>2, <2>7, <2>8, <2>10, <2>11 DEF Scanned
  <2> QED
    BY <2>1, <2>12
<1>5. ~misled => QueryRight(q)
  BY <1>2, <1>4 DEF QueryRight
<1> QED
  BY <1>3, <1>5

Foremost(r, left) == r \in left /\ \A s \in left \ {r} : Before(r, s)

\* A record of the branch that has enough confirmations is the next to list,
\* and any other is not of the rest.
LEMMA NextListed ==
  ASSUME Inv, RecordedOK, \A s \in dbOperations : TotalOK(s),
         NEW b \in 1..Len(file), NEW n \in Nat, NEW left, left \subseteq dbOperations,
         NEW r, Foremost(r, left), NEW rest \in Nat, ToCome(left, rest, b, n),
         OnBranch(r, b), r.height + n <= Len(Path[b])
  PROVE  /\ rest # 0 /\ r.total = SubSeq(AllOf(b, n), 1, rest)
         /\ ToCome(left \ {r}, rest - 1, b, n)
<1> DEFINE len(s) == Len(s.total)
<1>1. r \in left /\ \A s \in left : OnBranch(s, b) => len(s) \in Nat \ {0}
  BY ConfirmedRecords DEF Foremost
<1>2. len(r) <= Len(AllOf(b, n)) /\ r.total = SubSeq(AllOf(b, n), 1, len(r))
  BY <1>1, ConfirmedRecords
<1>3. len(r) <= rest /\ len(r) \in Nat \ {0}
  BY <1>1, <1>2 DEF ToCome
<1>4. \A s \in left \ {r} : OnBranch(s, b) => len(s) < len(r)
  BY BranchOrder DEF Foremost
<1> HIDE DEF len
<1>5. len(r) = rest
  <2>1. PICK s \in left : OnBranch(s, b) /\ len(s) = rest
    <3>1. rest \in 1..rest
      BY <1>3
    <3> QED
      BY <3>1 DEF len, ToCome
  <2>2. s = r
    <3> SUFFICES ASSUME s # r PROVE FALSE
      OBVIOUS
    <3>1. len(s) < len(r)
      BY <1>4, <2>1
    <3> QED
      BY <1>3, <2>1, <3>1
  <2> QED
    BY <2>1, <2>2
<1>6. ASSUME NEW m \in 1..(rest - 1)
      PROVE  \E s \in left \ {r} : OnBranch(s, b) /\ len(s) = m
  <2>1. m \in 1..rest /\ m # rest
    OBVIOUS
  <2>2. PICK s \in left : OnBranch(s, b) /\ len(s) = m
    BY <2>1 DEF len, ToCome
  <2> QED
    BY <1>5, <2>1, <2>2
<1>7. \A s \in left \ {r} : OnBranch(s, b) => len(s) <= rest - 1
  BY <1>1, <1>4, <1>5
<1>8. ToCome(left \ {r}, rest - 1, b, n)
  BY <1>6, <1>7 DEF len, ToCome
<1> QED
  BY <1>2, <1>3, <1>5, <1>8

LEMMA OthersNotListed ==
  ASSUME Inv, RecordedOK, \A s \in dbOperations : TotalOK(s),
         NEW b \in 1..Len(file), NEW n \in Nat, NEW left, left \subseteq dbOperations,
         NEW r \in left, NEW rest \in Nat, rest <= Len(AllOf(b, n)),
         ToCome(left, rest, b, n), ~(OnBranch(r, b) /\ r.height + n <= Len(Path[b]))
  PROVE  ToCome(left \ {r}, rest, b, n)
<1> SUFFICES ASSUME NEW m \in 1..rest
             PROVE  \E s \in left \ {r} : OnBranch(s, b) /\ Len(s.total) = m
  BY DEF ToCome
<1>1. PICK s \in left : OnBranch(s, b) /\ Len(s.total) = m
  BY DEF ToCome
<1>2. s # r
  <2> SUFFICES ASSUME s = r PROVE FALSE
    OBVIOUS
  <2>1. /\ r.height + n <= Len(Path[b]) <=> Len(r.total) <= Len(AllOf(b, n))
        /\ Len(AllOf(b, n)) \in Nat
    BY <1>1, ConfirmedRecords
  <2>2. m <= Len(AllOf(b, n))
    BY <2>1
  <2> QED
    BY <1>1, <2>1, <2>2
<1> QED
  BY <1>1, <1>2

\* What a visit of the iterator does to a query.
LEMMA VisitEffect ==
  ASSUME Inv, RecordedOK, NEW q, QueryVisits, q = query', QueryTyped(query)
  PROVE  \E r, d, beyond :
           /\ query.left \subseteq dbOperations /\ Foremost(r, query.left)
           /\ d = Moved(query, r, beyond)
           /\ q.left = query.left \ {r} /\ q.hash = d.hash /\ q.info = d.info
           /\ q.found = IF IsOf(r, d) /\ Confirmed(r) THEN Append(query.found, r)
                                                      ELSE query.found
           /\ q.pc = "scan" /\ q.start = query.start /\ q.disturbed = query.disturbed
           /\ q.confirmations = query.confirmations /\ q.confirmations \in Nat
           /\ QueryTyped(q)
<1>1. /\ query.pc = "scan" /\ query.left # {} /\ Len(query.found) # query.limit
  BY DEF QueryVisits, QueryDone
<1>2. PICK r : r = First(query.left)
  OBVIOUS
<1>3. PICK beyond, d :
        /\ d = Moved(query, r, beyond)
        /\ q = [query EXCEPT !.left = @ \ {r}, !.hash = d.hash, !.info = d.info,
                  !.found = IF IsOf(r, d) /\ Confirmed(r) THEN Append(@, r) ELSE @]
  BY <1>2 DEF QueryVisits
<1>4. query.left \subseteq dbOperations /\ query.found \in Seq(dbOperations)
      /\ query.limit \in Nat /\ query.confirmations \in Nat
      /\ Len(query.found) <= query.limit
  BY <1>1 DEF QueryTyped
<1>5. r \in query.left /\ Foremost(r, query.left)
  BY <1>1, <1>2, <1>4, FirstFound DEF Foremost
<1>6. PICK found : found = IF IsOf(r, d) /\ Confirmed(r) THEN Append(query.found, r)
                                                         ELSE query.found
  OBVIOUS
<1>7. found \in Seq(dbOperations) /\ Len(found) <= query.limit
  <2>1. /\ Append(query.found, r) \in Seq(dbOperations)
        /\ Len(Append(query.found, r)) = Len(query.found) + 1
    BY <1>4, <1>5, AppendProperties
  <2>2. Len(query.found) \in Nat
    BY <1>4
  <2>3. Len(query.found) + 1 <= query.limit
    BY <1>1, <1>4, <2>2
  <2> QED
    BY <1>4, <1>6, <2>1, <2>3
<1>8. q = [query EXCEPT !.left = query.left \ {r}, !.hash = d.hash, !.info = d.info,
                        !.found = found]
  BY <1>3, <1>6 DEF QueryTyped
<1>9. /\ q.left = query.left \ {r} /\ q.hash = d.hash /\ q.info = d.info /\ q.found = found
      /\ q.pc = "scan" /\ q.start = query.start /\ q.disturbed = query.disturbed
      /\ q.confirmations = query.confirmations
  BY <1>1, <1>8 DEF QueryTyped
<1>10. QueryTyped(q)
  <2>1. PICK less : less = query.left \ {r} /\ less \in SUBSET dbOperations
    BY <1>4
  <2>2. q = [query EXCEPT !.left = less, !.hash = d.hash, !.info = d.info, !.found = found]
    BY <1>8, <2>1
  <2>3. q \in [pc: {"idle", "copy", "open", "scan"}, limit: Nat, confirmations: Nat,
              start: {query.start}, hash: {d.hash}, info: {d.info},
              left: SUBSET dbOperations, found: Seq(dbOperations), disturbed: BOOLEAN]
    BY <1>7, <2>1, <2>2 DEF QueryTyped
  <2>4. q.limit = query.limit
    BY <2>2 DEF QueryTyped
  <2>5. pc = "idle" \/ Importing
    BY <1>1 DEF QueryTyped
  <2> QED
    BY <1>7, <1>9, <2>3, <2>4, <2>5 DEF QueryTyped
<1> QED
  BY <1>3, <1>4, <1>5, <1>6, <1>9, <1>10

LEMMA VisitsRight ==
  ASSUME Inv, RecordedOK, NEW q, QueryVisits, q = query', QueryTyped(query),
         ~misled => TotalsOK /\ Right /\ QueryRight(query)
  PROVE  QueryTyped(q) /\ (~misled => QueryRight(q))
<1>1. PICK r, d, beyond :
        /\ query.left \subseteq dbOperations /\ Foremost(r, query.left)
        /\ d = Moved(query, r, beyond)
        /\ q.left = query.left \ {r} /\ q.hash = d.hash /\ q.info = d.info
        /\ q.found = IF IsOf(r, d) /\ Confirmed(r) THEN Append(query.found, r)
                                                   ELSE query.found
        /\ q.pc = "scan" /\ q.start = query.start /\ q.disturbed = query.disturbed
        /\ q.confirmations = query.confirmations /\ q.confirmations \in Nat
        /\ QueryTyped(q)
  BY VisitEffect
<1>2. ASSUME ~misled, ~q.disturbed PROVE StartOnChain(q.start) /\ Scanned(q)
  <2>1. /\ StartOnChain(q.start) /\ Scanned(query) /\ Right
        /\ \A s \in dbOperations : TotalOK(s)
    BY <1>1, <1>2 DEF QueryRight, QueryVisits, TotalsOK
  <2>2. PICK b, n, all, rest, left :
          /\ b = q.start /\ n = q.confirmations /\ all = AllOf(b, n)
          /\ rest = Len(all) - Len(query.found) /\ left = query.left
    OBVIOUS
  <2>3. /\ b \in DOMAIN blocks /\ b \in 1..Len(file) /\ n \in Nat
        /\ Len(Path[b]) \in Nat /\ blocks[b].height = Len(Path[b]) - 1
    BY <1>1, <2>1, <2>2, TreeSeen DEF StartOnChain
  <2>4. /\ rest \in Nat
        /\ CursorOn(query, left, b)
        /\ \A i \in 1..Len(query.found) :
             query.found[i].total = SubSeq(all, 1, Len(all) - i + 1)
        /\ ToCome(left, rest, b, n)
    BY <1>1, <2>1, <2>2 DEF Scanned
  <2>5. /\ r \in left /\ left \subseteq dbOperations /\ q.left = left \ {r}
        /\ Foremost(r, left) /\ \A s \in left \ {r} : Before(r, s)
    BY <1>1, <2>2 DEF Foremost
  <2>6. /\ CursorOn(d, left \ {r}, b)
        /\ IsOf(r, d) <=> OnBranch(r, b)
    BY <1>1, <2>1, <2>3, <2>4, <2>5, TurnFinds
  <2>7. CursorOn(q, q.left, b)
    BY <1>1, <2>5, <2>6 DEF CursorOn, SeenAt
  <2>8. Confirmed(r) <=> r.height + n <= Len(Path[b])
    <3>1. r.height \in Nat
      BY <2>5, RecordFacts
    <3> QED
      BY <1>1, <2>2, <2>3, <3>1 DEF Confirmed
  <2>9. Len(all) \in Nat /\ Len(query.found) \in Nat /\ rest <= Len(all)
    <3>1. query.found \in Seq(dbOperations)
      BY DEF QueryTyped
    <3>2. TypeOK /\ FileOrdered /\ OperationsTyped
      BY DEF Inv, RecordedOK
    <3>3. PICK i \in 0..Len(Path[b]) : all = UpTo(b, i)
      BY <2>2, <2>3, <3>2, AllOfUpTo
    <3>4. Begins(all, all)
      BY <2>3, <3>2, <3>3, UpToGrows
    <3>5. Len(all) \in Nat
      BY <3>4 DEF Begins
    <3>6. Len(query.found) \in Nat
      BY <3>1
    <3>7. rest = Len(all) - Len(query.found)
      BY <2>2
    <3> QED
      BY <3>5, <3>6, <3>7
  <2>10. CASE OnBranch(r, b) /\ r.height + n <= Len(Path[b])
    <3>1. q.found = Append(query.found, r) /\ query.found \in Seq(dbOperations)
      BY <1>1, <2>6, <2>8, <2>10 DEF QueryTyped
    <3>2. /\ rest # 0 /\ r.total = SubSeq(all, 1, rest)
          /\ ToCome(left \ {r}, rest - 1, b, n)
      <4>1. /\ rest # 0 /\ r.total = SubSeq(AllOf(b, n), 1, rest)
            /\ ToCome(left \ {r}, rest - 1, b, n)
        <5>1. rest \in Nat /\ ToCome(left, rest, b, n)
          BY <2>4
        <5> QED
          BY <2>1, <2>3, <2>5, <2>10, <5>1, NextListed
      <4> QED
        BY <2>2, <4>1
    <3>3. Len(q.found) = Len(query.found) + 1
      BY <1>1, <3>1, AppendProperties
    <3>4. Len(all) - Len(q.found) = rest - 1 /\ rest - 1 \in Nat
      BY <2>2, <2>4, <2>9, <3>2, <3>3
    <3>5. ASSUME NEW i \in 1..Len(q.found)
          PROVE  q.found[i].total = SubSeq(all, 1, Len(all) - i + 1)
      <4>1. CASE i = Len(query.found) + 1
        <5>1. q.found[i] = r
          BY <1>1, <3>1, <4>1, AppendProperties
        <5>2. Len(all) - i + 1 = rest
          BY <2>2, <2>9, <4>1
        <5> QED
          BY <3>2, <5>1, <5>2
      <4>2. CASE i # Len(query.found) + 1
        <5>1. i \in 1..Len(query.found)
          BY <2>9, <3>3, <4>2
        <5>2. q.found[i] = query.found[i]
          BY <1>1, <3>1, <5>1, AppendProperties
        <5> QED
          BY <2>4, <5>1, <5>2
      <4> QED
        BY <4>1, <4>2
    <3>6. Scanned(q)
      BY <2>2, <2>5, <2>7, <2>9, <3>2, <3>4, <3>5 DEF Scanned
    <3> QED
      BY <2>1, <3>6
  <2>11. CASE ~(OnBranch(r, b) /\ r.height + n <= Len(Path[b]))
    <3>1. q.found = query.found
      BY <1>1, <2>6, <2>8, <2>11
    <3>2. ToCome(left \ {r}, rest, b, n)
      <4>1. rest <= Len(AllOf(b, n))
        BY <2>2, <2>9
      <4> QED
        BY <2>1, <2>3, <2>4, <2>5, <2>11, <4>1, OthersNotListed
    <3>3. Scanned(q)
      BY <2>2, <2>4, <2>5, <2>7, <2>9, <3>1, <3>2 DEF Scanned
    <3> QED
      BY <2>1, <3>3
  <2> QED
    BY <2>10, <2>11
<1>3. ~misled => QueryRight(q)
  BY <1>1, <1>2 DEF QueryRight
<1> QED
  BY <1>1, <1>3

\* A step of another thread does not take blocks off the main chain while a
\* query goes on, but for those that the query is marked with, and the process
\* goes on importing.
ChainExtends ==
  /\ Len(currentChain) \in Nat /\ Len(currentChain') \in Nat
  /\ Len(currentChain) <= Len(currentChain')
  /\ \A i \in 1..Len(currentChain) : currentChain'[i] = currentChain[i]

QueryStays ==
  \/ query' = NoQuery
  \/ /\ query' = query \/ query' = [query EXCEPT !.disturbed = TRUE]
     /\ query.pc # "idle" =>
          /\ pc' = "idle" \/ Importing'
          /\ query' = [query EXCEPT !.disturbed = TRUE] \/ ChainExtends

LEMMA ChainAppended ==
  ASSUME TypeOK, NEW h, currentChain' = Append(currentChain, h)
  PROVE  ChainExtends
<1>1. PICK S : currentChain \in Seq(S)
  BY Zenon DEF TypeOK
<1>2. currentChain \in Seq(S \cup {h}) /\ Len(currentChain) \in Nat
  BY <1>1
<1>3. /\ Len(currentChain') = Len(currentChain) + 1
      /\ \A i \in 1..Len(currentChain) : currentChain'[i] = currentChain[i]
  BY <1>2, AppendProperties
<1> QED
  BY <1>2, <1>3 DEF ChainExtends

LEMMA OthersLetQuery ==
  ASSUME Inv, QueryTyped(query), [AddressNext]_allVars, ~Query
  PROVE  QueryStays
<1>1. TypeOK /\ Len(currentChain) \in Nat
  BY Lengths DEF Inv
<1>2. UNCHANGED currentChain => ChainExtends
  BY <1>1 DEF ChainExtends
<1>3. CASE UNCHANGED allVars \/ BlockOfAddressArrives
  <2>1. UNCHANGED <<query, pc, currentChain>>
    BY <1>3 DEF allVars, addressVars, vars, memVars, BlockOfAddressArrives, BlockArrives
  <2> QED
    BY <1>2, <2>1 DEF QueryStays, QueryTyped, Importing
<1>4. CASE CrashOperations
  BY <1>4 DEF CrashOperations, QueryStays
<1>5. CASE ReadOperations \/ ProcessOperation \/ CommitOperations
  <2>1. UNCHANGED <<query, currentChain>> /\ pc' \in {"process", "walk", "redo"}
    BY <1>5 DEF ReadOperations, ReadBlock, ProcessOperation, CommitOperations, BeginCommit,
      addressVars, vars, memVars
  <2> QED
    BY <1>2, <2>1 DEF QueryStays, Importing
<1>6. CASE UndoOperations
  <2>1. /\ query' = query \/ query' = [query EXCEPT !.disturbed = TRUE]
        /\ query # NoQuery => query' = [query EXCEPT !.disturbed = TRUE]
    BY <1>6 DEF UndoOperations
  <2>2. pc' = "undo"
    BY <1>6 DEF UndoOperations, UndoBlock
  <2>3. query.pc # "idle" => query # NoQuery
    BY DEF NoQuery
  <2> QED
    BY <2>1, <2>2, <2>3 DEF QueryStays, Importing
<1>7. CASE WriteOperations
  <2>1. query' = query /\ pc' = "idle" /\ Finish
    BY <1>7 DEF WriteOperations, Finish
  <2>2. UNCHANGED currentChain \/ currentChain' = Append(currentChain, hash)
    BY <2>1 DEF Finish
  <2>3. ChainExtends
    BY <1>1, <1>2, <2>2, ChainAppended
  <2> QED
    BY <2>1, <2>3 DEF QueryStays
<1>8. CASE NoOperations
  <2>1. query' = query
    BY <1>8 DEF NoOperations, addressVars
  <2> SUFFICES ASSUME query.pc # "idle" PROVE (pc' = "idle" \/ Importing') /\ ChainExtends
    BY <2>1 DEF QueryStays
  <2>2. pc = "idle" \/ Importing
    BY DEF QueryTyped
  <2>3. CASE Start \/ Restore
    BY <2>2, <2>3 DEF Start, Restore, RestoreBlock, SizeChain, RebuildChain,
      RestorePosition, Importing
  <2>4. CASE ReadFails \/ WalkBack \/ WalkEnds
    <3>1. UNCHANGED currentChain /\ pc' \in {"idle", "walk", "undo"}
      BY <2>4 DEF ReadFails, WalkBack, WalkEnds, memVars
    <3> QED
      BY <1>2, <3>1 DEF Importing
  <2>5. CASE UndoEnds
    <3>1. /\ pc' = "redo" /\ Len(currentChain) <= height /\ height \in Nat
          /\ currentChain' = [i \in 1..height |->
               IF i <= Len(currentChain) THEN currentChain[i] ELSE Null]
      BY <1>1, <2>5 DEF UndoEnds, TypeOK
    <3>2. Len(currentChain') = height
      BY <3>1
    <3>3. \A i \in 1..Len(currentChain) : currentChain'[i] = currentChain[i]
      BY <1>1, <3>1
    <3> QED
      BY <1>1, <3>1, <3>2, <3>3 DEF ChainExtends, Importing
  <2>6. CASE RedoBlock
    <3>1. pc' = "redo" /\ currentChain' = Append(currentChain, toAppend[Len(toAppend)])
      BY <2>6 DEF RedoBlock
    <3>2. ChainExtends
      BY <1>1, <3>1, ChainAppended
    <3> QED
      BY <3>1, <3>2 DEF Importing
  <2> QED
    BY <1>8, <2>3, <2>4, <2>5, <2>6 DEF NoOperations
<1> QED
  BY <1>3, <1>4, <1>5, <1>6, <1>7, <1>8 DEF AddressNext

\* Records are added and never removed.
RecordsGrow ==
  /\ dbOperations \subseteq dbOperations'
  /\ Len(dbBlocks) \in Nat /\ Len(dbBlocks') \in Nat /\ Len(dbBlocks) <= Len(dbBlocks')

LEMMA RecordsOnlyGrow ==
  ASSUME Inv, Inv', RecordedOK, FilesKept, [AddressNext]_allVars
  PROVE  RecordsGrow
<1>1. Len(dbBlocks) \in Nat
  BY ImportPlace
<1>2. CASE WriteOperations
  <2>1. dbOperations' = dbOperations \cup batchOperations
    BY <1>2, RecordedWrite
  <2>2. Len(dbBlocks') = Len(dbBlocks) + 1
    BY <1>2, FinishEffect DEF WriteOperations
  <2> QED
    BY <1>1, <2>1, <2>2 DEF RecordsGrow
<1>3. CASE ~WriteOperations
  <2>1. UNCHANGED <<dbBlocks, dbOperations>>
    <3>1. ReadOperations \/ ProcessOperation => UNCHANGED <<dbBlocks, dbOperations>>
      BY DEF ReadOperations, ReadBlock, ProcessOperation, vars, dbVars
    <3> QED
      BY <1>3, <3>1, OtherSteps
  <2> QED
    BY <1>1, <2>1 DEF RecordsGrow
<1> QED
  BY <1>2, <1>3

LEMMA TypedKept ==
  ASSUME QueryTyped(query), QueryStays, RecordsGrow
  PROVE  QueryTyped(query)'
<1>1. CASE query' = NoQuery
  BY <1>1 DEF QueryTyped, NoQuery
<1>2. CASE query' # NoQuery
  <2>1. PICK q, D : q = query /\ D = dbOperations'
    OBVIOUS
  <2>2. /\ query' = q \/ query' = [q EXCEPT !.disturbed = TRUE]
        /\ q.pc # "idle" => pc' = "idle" \/ Importing'
    BY <1>2, <2>1 DEF QueryStays
  <2>3. /\ q \in [pc: {"idle", "copy", "open", "scan"}, limit: Nat, confirmations: Nat,
                  start: {q.start}, hash: {q.hash}, info: {q.info},
                  left: SUBSET dbOperations, found: Seq(dbOperations), disturbed: BOOLEAN]
        /\ q.pc # "idle" => Len(q.found) <= q.limit
        /\ q.pc \in {"copy", "open"} => q.found = <<>>
    BY <2>1 DEF QueryTyped
  <2>4. q.left \in SUBSET D /\ q.found \in Seq(D)
    <3>1. dbOperations \subseteq D
      BY <2>1 DEF RecordsGrow
    <3>2. q.left \in SUBSET dbOperations /\ q.found \in Seq(dbOperations)
      BY <2>3
    <3> QED
      BY <3>1, <3>2
  <2>5. q \in [pc: {"idle", "copy", "open", "scan"}, limit: Nat, confirmations: Nat,
               start: {q.start}, hash: {q.hash}, info: {q.info},
               left: SUBSET D, found: Seq(D), disturbed: BOOLEAN]
    BY <2>3, <2>4
  <2>6. /\ query'.pc = q.pc /\ query'.start = q.start /\ query'.hash = q.hash
        /\ query'.info = q.info /\ query'.limit = q.limit /\ query'.found = q.found
        /\ query' \in [pc: {"idle", "copy", "open", "scan"}, limit: Nat, confirmations: Nat,
                       start: {q.start}, hash: {q.hash}, info: {q.info},
                       left: SUBSET D, found: Seq(D), disturbed: BOOLEAN]
    BY <2>2, <2>5
  <2> QED
    BY <2>1, <2>2, <2>3, <2>6 DEF QueryTyped
<1> QED
  BY <1>1, <1>2

LEMMA RightKept ==
  ASSUME Inv, Inv', RecordedOK, FilesKept, QueryTyped(query), QueryRight(query),
         QueryStays, RecordsGrow
  PROVE  QueryRight(query)'
<1> SUFFICES ASSUME query'.pc # "idle", ~query'.disturbed
             PROVE  /\ StartOnChain(query.start)'
                    /\ query'.pc = "open" => SeenAt(query, query.start)'
                    /\ query'.pc = "scan" => Scanned(query)'
  BY DEF QueryRight
<1>1. query' = query /\ ChainExtends
  <2>1. query' # NoQuery
    BY DEF NoQuery
  <2>2. query' # [query EXCEPT !.disturbed = TRUE]
    BY DEF QueryTyped
  <2>3. query' = query
    BY <2>1, <2>2 DEF QueryStays
  <2> QED
    BY <2>1, <2>2, <2>3 DEF QueryStays
<1>2. PICK q, b, n : q = query /\ b = q.start /\ n = q.confirmations
  OBVIOUS
<1>3. /\ StartOnChain(b)
      /\ q.pc = "open" => SeenAt(q, b)
      /\ q.pc = "scan" => Scanned(q)
      /\ n \in Nat
  BY <1>1, <1>2 DEF QueryRight, QueryTyped
<1>4. /\ b \in 1..Len(file) /\ b \in 1..Len(dbBlocks') /\ Len(file) \in Nat
      /\ TypeOK /\ FileOrdered
  <2>1. Len(dbBlocks) \in Nat /\ Len(dbBlocks) <= Len(file) /\ Len(file) \in Nat
    BY ImportPlace
  <2> QED
    BY <1>3, <2>1 DEF StartOnChain, RecordsGrow, Inv
<1>5. Path'[b] = Path[b] /\ Len(Path[b]) \in Nat
  <2>1. Len(Path[b]) \in Nat
    BY <1>4, PathTypes, SMTT(30)
  <2> QED
    BY <1>4, <2>1 DEF FilesKept
<1>6. \A i \in 1..Len(Path[b]) :
        /\ Path[b][i] \in 1..Len(file) /\ Path'[Path[b][i]] = Path[Path[b][i]]
        /\ file'[Path[b][i]] = file[Path[b][i]]
        /\ OperationsTo'[Path[b][i]] = OperationsTo[Path[b][i]]
  <2> SUFFICES ASSUME NEW i \in 1..Len(Path[b])
               PROVE  /\ Path[b][i] \in 1..Len(file) /\ Path'[Path[b][i]] = Path[Path[b][i]]
                      /\ file'[Path[b][i]] = file[Path[b][i]]
                      /\ OperationsTo'[Path[b][i]] = OperationsTo[Path[b][i]]
    OBVIOUS
  <2>1. PICK h : h = Path[b][i]
    OBVIOUS
  <2>2. b \in 0..Len(file)
    BY <1>4
  <2>3. h \in 1..Len(file) /\ h \in 0..Len(file)
    BY <1>4, <2>1, <2>2, PathElements
  <2>4. OperationsTo'[h] = OperationsTo[h]
    BY <2>3, TotalsStay DEF TotalsUnchanged
  <2> QED
    BY <2>1, <2>3, <2>4 DEF FilesKept
<1>7. /\ Len(Path[b]) <= Len(currentChain')
      /\ \A i \in 1..Len(Path[b]) : currentChain'[i] = Path[b][i] /\ i \in 1..Len(currentChain')
  BY <1>1, <1>3, <1>5 DEF StartOnChain, ChainExtends
<1>8. StartOnChain(b)'
  BY <1>4, <1>5, <1>7 DEF StartOnChain
<1>9. \A i \in 1..Len(Path[b]) : SeenAt(q, Path[b][i]) =>
        /\ q.hash = Path'[b][i] /\ q.info.height = Len(Path'[Path'[b][i]]) - 1
        /\ q.info.previous = file'[Path'[b][i]].previous
        /\ \E k \in 1..Len(currentChain') : currentChain'[k] = Path'[b][i]
  BY <1>5, <1>6, <1>7 DEF SeenAt
<1>10. q.pc = "open" => SeenAt(q, b)'
  <2>1. Path[b][Len(Path[b])] = b /\ Len(Path[b]) \in 1..Len(Path[b])
    <3>1. /\ Len(Path[b]) = Len(Path[file[b].previous]) + 1
          /\ Len(Path[file[b].previous]) \in Nat /\ Path[b][Len(Path[b])] = b
      BY <1>4, PathTypes
    <3> QED
      BY <3>1
  <2> SUFFICES ASSUME SeenAt(q, b) PROVE SeenAt(q, b)'
    BY <1>3
  <2> QED
    BY <1>5, <1>9, <2>1 DEF SeenAt, OnChain
<1>11. AllOf(b, n)' = AllOf(b, n)
  <2>1. PICK len : len = Len(Path[b])
    OBVIOUS
  <2>2. len \in Nat /\ \A i \in 1..len : OperationsTo'[Path[b][i]] = OperationsTo[Path[b][i]]
    BY <1>5, <1>6, <2>1
  <2>3. PICK confirmed : confirmed = len + 1 - IF n = 0 THEN 1 ELSE n
    OBVIOUS
  <2>4. confirmed <= 0 \/ confirmed \in 1..len
    BY <1>3, <2>2, <2>3
  <2>5. AllOf(b, n) = IF confirmed <= 0 THEN <<>> ELSE OperationsTo[Path[b][confirmed]]
    BY <2>1, <2>3 DEF AllOf
  <2>6. AllOf(b, n)' = IF confirmed <= 0 THEN <<>> ELSE OperationsTo'[Path[b][confirmed]]
    BY <1>5, <2>1, <2>3 DEF AllOf
  <2> QED
    BY <2>2, <2>4, <2>5, <2>6
<1>12. ASSUME Scanned(q) PROVE Scanned(query)'
  <2>1. PICK all, rest, left :
          all = AllOf(b, n) /\ rest = Len(all) - Len(q.found) /\ left = q.left
    OBVIOUS
  <2>2. /\ Len(all) \in Nat /\ rest \in Nat
        /\ CursorOn(q, left, b) /\ ToCome(left, rest, b, n)
        /\ \A i \in 1..Len(q.found) : q.found[i].total = SubSeq(all, 1, Len(all) - i + 1)
    BY <1>2, <1>12, <2>1 DEF Scanned
  <2>3. CursorOn(q, left, b)'
    <3>1. PICK j \in 1..Len(Path[b]) :
            /\ SeenAt(q, Path[b][j])
            /\ j = Len(Path[b]) \/ \A r \in left : r.height + 1 <= j
      BY <2>2 DEF CursorOn
    <3> QED
      BY <1>5, <1>9, <3>1 DEF CursorOn, SeenAt, OnChain
  <2>4. ToCome(left, rest, b, n)'
    <3>1. \A r : OnBranch(r, b)' <=> OnBranch(r, b)
      BY <1>5 DEF OnBranch
    <3> QED
      BY <1>11, <2>2, <3>1 DEF ToCome
  <2>5. AllOf(b, n)' = all
    BY <1>11, <2>1
  <2> QED
    BY <1>1, <1>2, <2>1, <2>2, <2>3, <2>4, <2>5 DEF Scanned
<1> QED
  BY <1>1, <1>2, <1>3, <1>8, <1>10, <1>12

LEMMA QueryInit == AddressInit => QueryOK
<1> SUFFICES ASSUME AddressInit PROVE QueryOK
  OBVIOUS
<1>1. query = NoQuery
  BY DEF AddressInit
<1>2. QueryTyped(query)
  BY <1>1 DEF QueryTyped, NoQuery
<1>3. QueryRight(query)
  BY <1>1 DEF QueryRight, NoQuery
<1> QED
  BY <1>2, <1>3 DEF QueryOK

\* A step of a query leaves everything else as it is.
LEMMA QuerySteps ==
  ASSUME Inv, RecordedOK, QueryOK, Query, ~misled => TotalsOK,
         LockFree /\ ~misled => Right
  PROVE  QueryOK'
<1>1. PICK q : q = query'
  OBVIOUS
<1>2. /\ QueryTyped(query) /\ (~misled => QueryRight(query))
      /\ UNCHANGED <<vars, operations, dbOperations, misled>>
  BY DEF QueryOK, Query, QueryStarts, QueryCopies, QueryOpens, QueryVisits, QueryReturns
<1>3. QueryTyped(q) /\ (~misled => QueryRight(q))
  <2>1. CASE QueryStarts
    <3>1. ~misled => Right
      BY <2>1 DEF QueryStarts
    <3> QED
      BY <1>1, <1>2, <2>1, <3>1, StartsRight
  <2>2. CASE QueryCopies
    <3>1. ~misled => Right
      BY <2>2 DEF QueryCopies
    <3> QED
      BY <1>1, <1>2, <2>2, <3>1, CopiesRight
  <2>3. CASE QueryOpens
    BY <1>1, <1>2, <2>3, OpensRight
  <2>4. CASE QueryVisits
    <3>1. ~misled => Right
      BY <2>4 DEF QueryVisits
    <3> QED
      BY <1>1, <1>2, <2>4, <3>1, VisitsRight
  <2>5. CASE QueryReturns
    <3>1. q = NoQuery
      BY <1>1, <2>5 DEF QueryReturns
    <3>2. QueryTyped(q)
      BY <3>1 DEF QueryTyped, NoQuery
    <3>3. QueryRight(q)
      BY <3>1 DEF QueryRight, NoQuery
    <3> QED
      BY <3>2, <3>3
  <2> QED
    BY <2>1, <2>2, <2>3, <2>4, <2>5 DEF Query
<1>4. UNCHANGED <<file, dbBlocks, currentChain, pc, operations, dbOperations, misled>>
  BY <1>2 DEF vars, dbVars, memVars
<1>5. Path' = Path /\ OperationsTo' = OperationsTo
  BY <1>4 DEF Path, OperationsTo, FirstOperations
<1>6. QueryTyped(query)'
  BY <1>1, <1>3, <1>4 DEF QueryTyped, Importing
<1>7. ~misled => QueryRight(query)'
  <2> SUFFICES ASSUME ~misled PROVE QueryRight(query)'
    OBVIOUS
  <2>1. QueryRight(q)
    BY <1>3
  <2>2. StartOnChain(q.start) => StartOnChain(q.start)'
    BY <1>4, <1>5 DEF StartOnChain
  <2>3. SeenAt(q, q.start) => SeenAt(q, q.start)'
    BY <1>4, <1>5 DEF SeenAt, OnChain
  <2>4. Scanned(q) => Scanned(q)'
    <3>1. CursorOn(q, q.left, q.start) => CursorOn(q, q.left, q.start)'
      BY <1>4, <1>5 DEF CursorOn, SeenAt, OnChain
    <3>2. AllOf(q.start, q.confirmations)' = AllOf(q.start, q.confirmations)
      BY <1>5 DEF AllOf
    <3>3. \A rest : ToCome(q.left, rest, q.start, q.confirmations) =>
                      ToCome(q.left, rest, q.start, q.confirmations)'
      BY <1>5, <3>2 DEF ToCome, OnBranch
    <3> QED
      BY <3>1, <3>2, <3>3 DEF Scanned
  <2> QED
    BY <1>1, <2>1, <2>2, <2>3, <2>4 DEF QueryRight
<1> QED
  BY <1>4, <1>6, <1>7 DEF QueryOK

AnswerOf == TotalsOf /\ QueryOK

LEMMA AnswerNext == AnswerOf /\ [AddressNext]_allVars => AnswerOf'
<1> SUFFICES ASSUME AnswerOf, [AddressNext]_allVars PROVE AnswerOf'
  OBVIOUS
<1>1. TotalsOf /\ TotalsOf' /\ QueryOK
  BY TotalsNext DEF AnswerOf
<1>2. Inv /\ Inv' /\ RecordedOK /\ ChainOf /\ TrueFlags /\ (~misled => TotalsOK)
  BY <1>1 DEF TotalsOf, RecordedOf, ChainOf
<1>3. FilesKept
  BY <1>2, FilesStep
<1>4. CASE Query
  <2>1. LockFree /\ ~misled => Right
    BY <1>2 DEF Right
  <2> QED
    BY <1>1, <1>2, <1>4, <2>1, QuerySteps DEF AnswerOf
<1>5. CASE ~Query
  <2>1. QueryTyped(query) /\ (~misled => QueryRight(query))
    BY <1>1 DEF QueryOK
  <2>2. QueryStays /\ RecordsGrow
    BY <1>2, <1>3, <1>5, <2>1, OthersLetQuery, RecordsOnlyGrow
  <2>3. QueryTyped(query)'
    BY <2>1, <2>2, TypedKept
  <2>4. ~misled' => ~misled
    <3>1. ReadOperations \/ ProcessOperation => misled' = misled
      BY DEF ReadOperations, ProcessOperation
    <3>2. WriteOperations => (misled => misled')
      BY DEF WriteOperations
    <3> QED
      BY <1>2, <3>1, <3>2, OtherTotals
  <2>5. ~misled' => QueryRight(query)'
    BY <1>2, <1>3, <2>1, <2>2, <2>4, RightKept
  <2> QED
    BY <1>1, <2>3, <2>5 DEF AnswerOf, QueryOK
<1> QED
  BY <1>4, <1>5

\* Unless a flag was wrong at some time, the answer of a query that saw no
\* switch of the chain lists the operations of the main chain as it was when
\* the query began: those of its last blocks, as many as asked for and all if
\* there are fewer, none left out or listed twice, the last one first and each
\* with its totals, although blocks are added between the locks that the query
\* takes (AddressOperations.cpp:43-69 and 123-146).
THEOREM AnswersAlwaysOfChain == AddressSpec => []AnswerOfChain
<1>1. AnswerOf => AnswerOfChain
  <2> SUFFICES ASSUME AnswerOf, QueryDone, ~misled, ~query.disturbed PROVE AnswerOfChain
    BY DEF AnswerOfChain
  <2>1. /\ query.pc = "scan" /\ (query.left = {} \/ Len(query.found) = query.limit)
        /\ QueryTyped(query) /\ Scanned(query)
    BY DEF QueryDone, AnswerOf, QueryOK, QueryRight
  <2>2. PICK all, rest, found, limit :
          /\ all = AllOf(query.start, query.confirmations)
          /\ rest = Len(all) - Len(found) /\ found = query.found /\ limit = query.limit
    OBVIOUS
  <2>3. /\ Len(all) \in Nat /\ rest \in Nat
        /\ ToCome(query.left, rest, query.start, query.confirmations)
        /\ \A i \in 1..Len(found) : found[i].total = SubSeq(all, 1, Len(all) - i + 1)
    BY <2>1, <2>2 DEF Scanned
  <2>4. Len(found) \in Nat /\ limit \in Nat /\ Len(found) <= limit
    <3>1. found \in Seq(dbOperations) /\ limit \in Nat /\ Len(found) <= limit
      BY <2>1, <2>2 DEF QueryTyped
    <3> QED
      BY <3>1
  <2>5. rest = 0 \/ Len(found) = limit
    <3>1. CASE query.left = {}
      <4>1. \A m \in 1..rest : FALSE
        BY <2>3, <3>1 DEF ToCome
      <4>2. rest # 0 => 1 \in 1..rest
        BY <2>3
      <4> QED
        BY <4>1, <4>2
    <3> QED
      BY <2>1, <2>2, <3>1
  <2>6. PICK shown : shown = IF Len(all) < limit THEN Len(all) ELSE limit
    OBVIOUS
  <2>7. Len(found) = shown
    <3>1. PICK n : n = Len(all)
      OBVIOUS
    <3>2. n - Len(found) = rest
      BY <2>2, <3>1
    <3>3. rest \in Nat /\ n \in Nat
      BY <2>3, <3>1
    <3> QED
      BY <2>4, <2>5, <2>6, <3>1, <3>2, <3>3
  <2> QED
    BY <2>2, <2>3, <2>6, <2>7 DEF AnswerOfChain, AllOf
<1>2. AddressInit => AnswerOf
  BY ChainInit, RecordedInit, TrueFlagsInit, TotalsInit, QueryInit
     DEF AnswerOf, TotalsOf, RecordedOf
<1> QED
  BY <1>1, <1>2, AnswerNext, PTL DEF AddressSpec
=============================================================================

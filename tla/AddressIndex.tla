----------------------------- MODULE AddressIndex -----------------------------
(***************************************************************************)
(* The operations of an address (src/src/main.cpp, AddressOperations.cpp): *)
(* every transaction that pays to or spends of an address leaves a record  *)
(* with the running totals of the address up to it, on the branch of its   *)
(* block.  The import loop looks for the last record on the branch of a    *)
(* new block, and the RPC threads read the records of the main chain,      *)
(* while the import loop goes on.                                          *)
(*                                                                         *)
(* One address is modelled, since records of different addresses have      *)
(* nothing in common but the capacity of addressCache.  A total is         *)
(* modelled by the sequence of the operations that are summed up in it, so *)
(* that each of total_input, total_output and txCount is right if and only *)
(* if the sequence is; an operation is named by its block and its place    *)
(* in the block.  Option --rescan-index is not used.                       *)
(***************************************************************************)
EXTENDS ChainIndexProperties, FiniteSets

CONSTANTS
  Counts,          \* how many transactions of a block may touch the address
  Requests         \* what the RPC threads ask for, see below

ASSUME AddressAssumption ==
  /\ RescanIndices = {}
  /\ Counts \subseteq Nat
  /\ Requests \subseteq [limit: Nat \ {0}, confirmations: Nat]

VARIABLES
  operations      \* how many transactions of each block touch the address

\* LevelDB: the records of the address, with their keys.
VARIABLES
  dbOperations

\* The entry of the address in the cache, a set with at most one total; whether
\* blocks has an entry for the zero hash, kept apart from the tree; and locals
\* of the import loop: the entry in addressOperationsBlock, the records in the
\* batch, and how many transactions are processed.
VARIABLES
  addressCache, zeroEntry, addressOperationsBlock, batchOperations, next

VARIABLES
  query,          \* what an RPC thread is doing
  misled          \* history: longestChain was TRUE off the main chain

loopVars    == <<addressCache, zeroEntry, addressOperationsBlock, batchOperations, next>>
addressVars == <<operations, dbOperations, loopVars, query, misled>>
allVars     == <<vars, addressVars>>

\* The part of BlockInfo that the search for records copies.
NoInfo == [height |-> 0, longestChain |-> FALSE, previous |-> Null]

NoQuery == [pc |-> "idle", limit |-> 0, confirmations |-> 0, start |-> Null,
            hash |-> Null, info |-> NoInfo, left |-> {}, found |-> <<>>,
            disturbed |-> FALSE]

AddressInit ==
  /\ Init
  /\ operations = <<>>
  /\ dbOperations = {}
  /\ addressCache = {} /\ zeroEntry = FALSE
  /\ addressOperationsBlock = {} /\ batchOperations = {} /\ next = 0
  /\ query = NoQuery
  /\ misled = FALSE

-----------------------------------------------------------------------------
(* The records and how they are searched.                                  *)

\* DbAddressOperationChainKey: the highest block and in it the last
\* transaction come first.
BeforeAnyBlock(r, s) ==
  r.height > s.height \/ (r.height = s.height /\ r.transaction > s.transaction)
Before(r, s) ==
  \/ r.height > s.height
  \/ r.height = s.height /\ r.transaction > s.transaction
  \/ r.height = s.height /\ r.transaction = s.transaction /\ r.block < s.block

\* The order in which an iterator sees records, and a batch that is written: a
\* record with the key of a new one is replaced.
First(records) == CHOOSE r \in records : \A s \in records \ {r} : Before(r, s)
PutAll(records, new) ==
  {s \in records : \A r \in new : Before(s, r) \/ Before(r, s)} \cup new

\* blocks[h], for any hash; the entry of the zero hash says what an absent one does.
InfoOf(h) ==
  IF h \in DOMAIN blocks
  THEN [height       |-> blocks[h].height,
        longestChain |-> blocks[h].longestChain,
        previous     |-> blocks[h].previous]
  ELSE NoInfo

\* currentChain[h]; beyond its end there may be any hash.
OnChainAt(h, beyond) ==
  IF h < Len(currentChain) THEN currentChain[h + 1] ELSE beyond

\* The ancestor at height h of block c.hash, of which c.info is a copy: by way
\* of the main chain once a block is flagged as being part of it.
AncestorsAt(h, beyond) ==
  LET ancestor[b \in DOMAIN blocks] ==
        IF blocks[b].height <= h THEN b
        ELSE IF blocks[b].longestChain THEN OnChainAt(h, beyond)
        ELSE ancestor[blocks[b].previous]
  IN ancestor
CursorAt(h) == [hash |-> h, info |-> InfoOf(h)]
AtHeight(c, h, beyond) ==
  IF c.info.height <= h THEN c
  ELSE CursorAt(IF c.info.longestChain THEN OnChainAt(h, beyond)
                ELSE AncestorsAt(h, beyond)[c.info.previous])

\* One turn of the search: records too high are skipped, others move the
\* cursor to the block of their height.
Moved(c, r, beyond) ==
  IF r.height > c.info.height THEN c ELSE AtHeight(c, r.height, beyond)
IsOf(r, c) == r.height <= c.info.height /\ blockIds[r.block + 1] = c.hash

\* getAddressOperation with no confirmations, for the import loop: the total
\* of the first record on the branch that ends in start.  A search has records
\* left, a cursor and, once it is over, the record it found.
Visit(search, beyond) ==
  LET r == First(search.left)
      c == Moved(search.cursor, r, beyond)
  IN [left |-> search.left \ {r}, cursor |-> c,
      hit  |-> IF search.hit = {} /\ IsOf(r, c) THEN {r} ELSE search.hit]
Searches(start, beyond) ==
  LET search[k \in 0..Cardinality(dbOperations)] ==
        IF k = 0 THEN [left |-> dbOperations, cursor |-> CursorAt(start), hit |-> {}]
        ELSE Visit(search[k - 1], beyond)
  IN search
TotalOf(hit) == IF hit = {} THEN <<>> ELSE (CHOOSE r \in hit : TRUE).total
LatestTotal(start, beyond) ==
  TotalOf(Searches(start, beyond)[Cardinality(dbOperations)].hit)

-----------------------------------------------------------------------------
(* The import loop.                                                        *)

BlockOfAddressArrives ==
  /\ BlockArrives
  /\ \E n \in Counts : operations' = Append(operations, n)
  /\ UNCHANGED <<dbOperations, loopVars, query, misled>>

\* The cache is cleared before a block that does not extend the tip.
Switches(info) == info.longestChain /\ info.previous # longestBlock

ReadOperations ==
  /\ ReadBlock
  /\ addressCache' = IF Switches(blockInfo') THEN {} ELSE addressCache
  /\ addressOperationsBlock' = {} /\ batchOperations' = {} /\ next' = 0
  /\ UNCHANGED <<operations, dbOperations, zeroEntry, query, misled>>

Cached == blockInfo.longestChain /\ addressCache # {}

\* The total before the next transaction of the new block.
CachedOrLatest ==
  IF addressCache # {} THEN addressCache
  ELSE {LatestTotal(blockInfo.previous, beyond) : beyond \in DOMAIN blocks \cup {Null}}
TotalsSoFar ==
  IF Cached THEN addressCache
  ELSE IF addressOperationsBlock # {} THEN addressOperationsBlock
  ELSE {LatestTotal(blockInfo.previous, beyond) : beyond \in DOMAIN blocks \cup {Null}}

\* The search looks up the parent of the new block, which the first block
\* lacks: blocks gets an entry for the zero hash.
ProcessOperation ==
  /\ pc = "process"
  /\ next < operations[hash]
  /\ next' = next + 1
  /\ \E soFar \in TotalsSoFar :
       LET total == Append(soFar, <<hash, next>>)
       IN /\ addressCache' = IF blockInfo.longestChain THEN {total} ELSE addressCache
          /\ addressOperationsBlock' = {total}
          /\ batchOperations' = PutAll(batchOperations,
               {[height |-> blockInfo.height, transaction |-> next,
                 block |-> blockInfo.index, total |-> total]})
  /\ zeroEntry' = (zeroEntry \/ (~Cached /\ addressOperationsBlock = {}
                                    /\ blockInfo.previous = Null))
  /\ UNCHANGED <<vars, operations, dbOperations, query, misled>>

CommitOperations ==
  /\ BeginCommit
  /\ next = operations[hash]
  /\ UNCHANGED addressVars

\* A block leaves the main chain, whatever a query has seen of it.
UndoOperations ==
  /\ UndoBlock
  /\ query' = IF query = NoQuery THEN query ELSE [query EXCEPT !.disturbed = TRUE]
  /\ UNCHANGED <<operations, dbOperations, loopVars, misled>>

\* The batch is written.  Then the cache is purged: with many addresses in it
\* this one may be dropped.
WriteOperations ==
  /\ Finish
  /\ dbOperations' = PutAll(dbOperations, batchOperations)
  /\ addressCache' \in {addressCache, {}}
  /\ addressOperationsBlock' = {} /\ batchOperations' = {} /\ next' = 0
  /\ misled' = (misled \/ \E h \in DOMAIN blocks' :
                  /\ blocks'[h].longestChain
                  /\ \A i \in 1..Len(currentChain') : currentChain'[i] # h)
  /\ UNCHANGED <<operations, zeroEntry, query>>

\* The process stops and starts.
CrashOperations ==
  /\ Crash
  /\ addressCache' = {} /\ zeroEntry' = FALSE
  /\ addressOperationsBlock' = {} /\ batchOperations' = {} /\ next' = 0
  /\ query' = NoQuery
  /\ UNCHANGED <<operations, dbOperations, misled>>

NoOperations ==
  /\ \/ Start \/ Restore \/ ReadFails
     \/ WalkBack \/ WalkEnds \/ UndoEnds \/ RedoBlock
  /\ UNCHANGED addressVars

-----------------------------------------------------------------------------
(* getaddress asks for the records of the main chain, one more than it      *)
(* shows; address_balance for the first one with enough confirmations.     *)
(* chainMutex is taken for each step that reads the chain.                 *)

QueryStarts ==
  /\ query = NoQuery
  /\ LockFree /\ currentChain # <<>>
  /\ \E r \in Requests :
       query' = [NoQuery EXCEPT !.pc = "copy", !.limit = r.limit,
                                !.confirmations = r.confirmations,
                                !.start = TipOf(currentChain)]
  /\ UNCHANGED <<vars, operations, dbOperations, loopVars, misled>>

QueryCopies ==
  /\ query.pc = "copy"
  /\ LockFree
  /\ query' = [query EXCEPT !.pc = "open", !.hash = query.start,
                            !.info = InfoOf(query.start)]
  /\ UNCHANGED <<vars, operations, dbOperations, loopVars, misled>>

\* A LevelDB iterator sees the records of when it is made.
QueryOpens ==
  /\ query.pc = "open"
  /\ query' = [query EXCEPT !.pc = "scan", !.left = dbOperations]
  /\ UNCHANGED <<vars, operations, dbOperations, loopVars, misled>>

QueryDone ==
  query.pc = "scan" /\ (query.left = {} \/ Len(query.found) = query.limit)

ConfirmedByOne(r) == TRUE
Confirmed(r)      == r.height + query.confirmations <= blocks[query.start].height + 1

QueryVisits ==
  /\ query.pc = "scan" /\ ~QueryDone
  /\ LockFree
  /\ LET r == First(query.left) IN
     \E beyond \in DOMAIN blocks \cup {Null} :
       LET c == Moved(query, r, beyond) IN
       query' = [query EXCEPT !.left = @ \ {r}, !.hash = c.hash, !.info = c.info,
                   !.found = IF IsOf(r, c) /\ Confirmed(r) THEN Append(@, r) ELSE @]
  /\ UNCHANGED <<vars, operations, dbOperations, loopVars, misled>>

QueryReturns ==
  /\ QueryDone
  /\ query' = NoQuery
  /\ UNCHANGED <<vars, operations, dbOperations, loopVars, misled>>

-----------------------------------------------------------------------------
Query == QueryStarts \/ QueryCopies \/ QueryOpens \/ QueryVisits \/ QueryReturns

AddressNext ==
  \/ BlockOfAddressArrives \/ CrashOperations
  \/ ReadOperations \/ ProcessOperation \/ CommitOperations
  \/ UndoOperations \/ WriteOperations \/ NoOperations
  \/ Query

AddressSpec == AddressInit /\ [][AddressNext]_allVars

-----------------------------------------------------------------------------
\* The first n operations of a block, those of a block and its ancestors, and
\* those up to transaction k of a block.
FirstOperations(b, n) == [i \in 1..n |-> <<b, i - 1>>]
OperationsTo[h \in 0..Len(file)] ==
  IF h = Null THEN <<>>
  ELSE OperationsTo[file[h].previous] \o FirstOperations(h, operations[h])
TotalAt(b, k) == OperationsTo[file[b].previous] \o FirstOperations(b, k + 1)

\* Types; the key of a record and what a query has copied are of blocks that
\* are in memory, and a query finds no more than it asked for
\* (main.cpp:740-795, AddressOperations.cpp:123-146).
AddressTypeOK ==
  /\ operations \in Seq(Counts) /\ Len(operations) = Len(file)
  /\ addressCache \subseteq Seq(Nat \X Nat) /\ Cardinality(addressCache) <= 1
  /\ addressOperationsBlock \subseteq Seq(Nat \X Nat)
  /\ Cardinality(addressOperationsBlock) <= 1
  /\ \A r \in dbOperations \cup batchOperations \cup query.left
              \cup {query.found[i] : i \in 1..Len(query.found)} :
       /\ DOMAIN r = {"height", "transaction", "block", "total"}
       /\ r.height \in 0..r.block /\ r.block \in 0..Len(dbBlocks)
       /\ r.total \in Seq(Nat \X Nat) \ {<<>>}
  /\ next \in Nat /\ Cardinality(batchOperations) = next
  /\ query.pc \in {"idle", "copy", "open", "scan"}
  /\ query.pc # "idle" => query.start \in DOMAIN blocks
  /\ Len(query.found) <= query.limit
  /\ {misled, zeroEntry} \subseteq BOOLEAN

\* Unless a flag was wrong at some time, the totals of every record are the
\* sums over the branch of its block up to its transaction, for the records of
\* all branches, whatever the switches of the chain, the crashes and the
\* purges of the cache (main.cpp:732-798, AddressOperations.cpp:9-93).
TotalsOfBranch ==
  ~misled => \A r \in dbOperations :
               r.total = TotalAt(dbBlocks[r.block + 1].hash, r.transaction)

\* Every operation of every block in LevelDB has one record, under the height
\* of its block, also when blocks of several branches have the same height
\* (main.cpp:787-795, Database.h:118-126).
EveryOperationRecorded ==
  /\ \A h \in 1..Len(dbBlocks) : \A k \in 0..(operations[h] - 1) :
       \E r \in dbOperations :
         r.block = h - 1 /\ r.transaction = k /\ r.height = Len(Path[h]) - 1
  /\ \A r \in dbOperations :
       /\ r.block + 1 \in 1..Len(dbBlocks)
       /\ r.transaction \in 0..(operations[r.block + 1] - 1)
       /\ \A s \in dbOperations :
            r.block = s.block /\ r.transaction = s.transaction => r = s

\* An answer lists the operations of the main chain as it was when the query
\* began, the last one first and only as many as asked for, with their totals,
\* even if blocks are added meanwhile; a switch of the chain during the query
\* is not covered (AddressOperations.cpp:43-69 and 123-146).
AnswerOfChain ==
  QueryDone /\ ~misled /\ ~query.disturbed =>
    LET tip       == Len(Path[query.start])
        confirmed == tip + 1 - IF query.confirmations = 0 THEN 1 ELSE query.confirmations
        all       == IF confirmed <= 0 THEN <<>>
                     ELSE OperationsTo[Path[query.start][confirmed]]
        n         == Len(all)
        shown     == IF n < query.limit THEN n ELSE query.limit
    IN /\ Len(query.found) = shown
       /\ \A i \in 1..shown : query.found[i].total = SubSeq(all, 1, n - i + 1)
=============================================================================

# bkchaind in TLA+

bkchaind is a block explorer daemon. It reads the block files that a patched
bitcoind (or ppcoind) writes, indexes blocks, transactions, unspent outputs and
address operations in LevelDB, follows the main chain through reorganisations,
polls bitcoind for transactions of the memory pool, and answers JSON-RPC and
websocket clients. This directory holds TLA+ modules of its core, the TLC
configurations that check them, and proofs for TLAPS. Around the core are the
sockets, the queries and the data formats, down to the vectors and the hashes. Paths below are those of
`PROJECT.json`: `src/` stands for the root of the repository, so that the main
program is `src/src/main.cpp`. In this text `main.cpp` is that file, and the
other files of `src/src` are named alike.

## 1. The system

### Threads

| thread | what it does | where |
| --- | --- | --- |
| main | restores the memory from LevelDB, then imports one block after the other; sleeps when the files end | main.cpp:310-953 |
| live | polls the memory pool of bitcoind, keeps lists of live transactions, broadcasts blocks and transactions | BitcoinLiveTX.cpp |
| RPC | one thread per HTTP request, reads LevelDB and the memory | CacherServer.cpp |
| websocket | subscriptions, sends of broadcasts | BroadcastWebsocketServer.hpp |

`chainMutex` guards the tree and the main chain, `cacheMutex` (recursive) the
ids and the cache of unspent outputs, `pendingTransactionsMutex` the live lists.
The orders of nesting in the code are pending before chain (main.cpp:835-836,
BitcoinLiveTX.cpp) and pending before cache; nothing takes them the other way.
There is no transaction that spans two calls of LevelDB but one `WriteBatch`,
written once per block (main.cpp:941) or per live transaction.

### Components

| component | state | operations | correct when | modules |
| --- | --- | --- | --- | --- |
| import loop and chain index (main.cpp, Blocks.h) | LevelDB: `DbBlock` by index, `BackupState`. Memory: `blockIds`, `blocks`, `currentChain`. Locals: `longestBlock`, `totalBits`, `blockInfo`, ... | read a block, commit it, reorganise, restore, rescan | every block of the files is indexed once, the main chain is the heaviest and is a path, a restart rebuilds what was there | `ChainIndex`, `ChainIndexProperties`, `BestChain`; `ChainIndexProofs` |
| index of unspent outputs (main.cpp:74-148) | LevelDB: `DbAddressUTXO`, `DbTransactionBlock`, the transactions of a `DbBlock` | process, undo and redo the transactions of blocks | the index is that of the main chain | `UtxoIndex`, `UtxoIndexProofs` |
| address operations (AddressOperations.cpp, main.cpp:732-798) | LevelDB: `DbAddressOperationChain`. Memory: `addressCache`, `addressOperationsBlock` | add a record per address and transaction, find the last one on a branch, list those of the main chain | the totals of a record are those of its branch | `AddressIndex`, `AddressIndexProofs`, pages in `RpcQueries` |
| ids of transactions (Database.cpp) | LevelDB: hash to id, `DbTransaction` by id. Memory: `txLatestIndex`, `txCache`, `txCache2` | make, look up, store, load, purge | an id belongs to one transaction for ever | `TxIds`, `TxIdsProofs` |
| transaction processing (BitcoinTX.cpp) | cache of unspent outputs | ids and links of inputs, the address of an output, amounts, coin age | the source of each input is found; an output belongs to the address its script names | ids and links in `TxIds`, addresses in `Scripts` |
| live transactions (BitcoinLiveTX.cpp) | `pendingTransactions`, `pendingTransactionsByAddress`, ... | poll, store, broadcast | every transaction of the memory pool is listed, none of the chain is | `LiveTx`, `LiveTxProofs`, ids in `TxIds` |
| block file reader (blockchain/BlockChain.cpp) | file index, offset, block number | next block, next file, position for a restart | blocks come once and in order | `BlockFiles`, `BlockStream`, `BlockFilesProofs` |
| block parser (blockchain/BlockChain.cpp:1370-1790) | a position in bytes | read a block, read a transaction of bitcoind | what was written is read, what is cut or too large is refused | `BlockParser` |
| RPC server (CacherServer.cpp) | none of its own | queries, `tx_push` | an answer is that of a state of the chain of the time of the query | `RpcQueries`, `RpcQueriesProofs`; lookups of ids in `TxIds`, scans in `AddressIndex`, `tx_push` in `Connections` |
| websocket server (BroadcastWebsocketServer.hpp) | `m_connections`, `m_livetx` | open, close, subscribe, broadcast | a subscriber misses nothing | `Broadcast`, `ConnectionsProofs`, with `Connections` |
| RPC client of bitcoind (httpclientasio.cpp) | a socket that is kept open | request, reconnect | a call gets its own answer, and ends | `HttpClient`, `ConnectionsProofs`, with `Connections` |
| LRU cache (lrucache.hpp) | list and map | put, get, purge | the least recently used go first | `LruCache`, `TxIdsProofs`; its promise in `TxIds` and `AddressIndex` |
| serialization (Serialization.h, varint.h, Database.h) | none | archives, packed keys | a record is read back as it was written; keys are in the order that scans count on | `Archive` |
| addresses and hashes (Base58.cpp, BitcoinAddress.cpp, SHA256.cpp, RIPEMD160.cpp, Database.cpp) | the state of a hash | numbers to base 58, padding, hexadecimal text, base64 | encoding is inverted by decoding, padding is that of the standards | `Base58`, `Hashing`, `Texts` |
| script decoder and interpreter (ScriptDecoder.cpp, BitcoinScript.cpp) | a stack | read opcodes, execute | the stack holds what was pushed | `Scripts` |
| small vectors (llvm/ADT/SmallVector.h) | slots, inside or on the heap | all of the vector's operations | elements are kept, constructed once and given up once | `SmallVector`, `TxIdsProofs` |

`blockchain/main.cpp`, a console of the library that the reader comes from, is
left out. Of the vendored `src/llvm` the vector is modelled, since the code base
keeps every list of a record in it; its bit arithmetic and type traits are not.

### How they interact

The import loop is the only writer of blocks, outputs and operations. It makes
ids, which the live thread does too. Both look up transactions in LevelDB, where
the loop does not see its own batch: for this it keeps maps of the block that it
imports. The live thread and the RPC threads (`tx_push`) share one socket to
bitcoind, the live thread and the websocket thread the set of subscribers. The
RPC threads see the memory whenever `chainMutex` is free, that is
before and after a commit and between two records of a scan, and LevelDB at any
time. `bitcoind` appends to the files and may stop between any two blocks.

### What is hard

* A reorganisation walks over branches of any length, and the weight of a block
  is its "bits" field, so that the heavier branch may be the shorter one.
* The process can stop at any time. LevelDB survives, the memory does not, and
  ids are written before the records that use them.
* Undo and redo of transactions that are in several branches.
* Caches that are right only as long as the chain is not switched.
* Queries that give up the lock between two steps.
* A connection that is kept open: what one call leaves in it meets the next.
* A vector that is a copy of itself, an integer at the limit of its form, a
  message that fills its last block: boundaries that few inputs reach.

The hazards in `PROJECT.json` list these at their lines, with the property that
covers each or the reason why none does.

## 2. The modules

### ChainIndex

One step of the model is one iteration of a loop of the code, since each has an
effect that a crash or a reader could see or miss. `pc` tells where the main
thread is:

| pc | code | actions |
| --- | --- | --- |
| down | the process does not run | `Start` |
| restore, size, rebuild, position | main.cpp:310-445 | `RestoreBlock`, `SizeChain`, `RebuildChain`, `RestorePosition` |
| idle | main.cpp:449-507 | `ReadFails`, `SkipBlock`, `ReadExistingBlock`, `ReadBlock` |
| process | main.cpp:576-831 | `BeginCommit` |
| walk, undo, redo | main.cpp:853-925 | `WalkBack`, `WalkEnds`, `UndoBlock`, `UndoEnds`, `RedoBlock` |
| (last step) | main.cpp:927-942 | `Finish` |

`BlockArrives` is bitcoind, `Crash` and `Down` end the process at any point. The
hash of a block is its place in the files: the code only compares hashes, and
bitcoind writes a block after its parent. `Restore`, and `Commit` but for its
begin, run under `chainMutex`: readers see the memory when `pc` is `idle` or
`process` (`LockFree`).

Two things of the restore are modelled as they are and not as they were meant.
`longestBlock` and `totalBits` at main.cpp:318-320 are other variables than those
of the import loop, which therefore starts with the zero hash and zero: the
first block after a restart always counts as heaviest. And `--rescan-index`
restores the records before an index only, then reads and skips as many blocks:
nothing compares the index with the number of records (main.cpp:196, 330, 503), and
`Start` takes any index of `RescanIndices`. A restore that meets a record whose
parent it does not have reads an empty vector and stops the process
(`RestoreFails`).

`BestChain` is the abstract specification: a tree that only grows and the tip of
the first of its heaviest chains. `ImplementsBestChain` states that `ChainIndex`
implements it under the mapping `Best` as long as it is not started again.

`ChainIndexProperties` has the properties. Their reference is the ancestry of
the blocks in the files (`Path`, `Work`, `BestTip`), not what the program
keeps. `FlagsCoverChain` has two parts: that the blocks of the main chain are
flagged holds whatever happens (`ChainFlagged`), that no other block is holds
until the first restart, and only where all blocks have the same bits
(`OnlyChainFlagged`): a lighter chain that is longer keeps flags (section 5).
`Restorable` is what rescans leave intact: a restore finds the parent of every
record among those before it, unless a rescan of an empty database skipped the
first block; and all records are right (`RecordsOfFiles`) for as long as no block
gets a second index and no rescan starts above the number of records
(`RescansAhead`). The module also has the inductive
invariants of the proofs, `Inv` without rescans, `RescanInv` with them, and
`NeverAhead` for rescans that do not start above the records.

### UtxoIndex

It extends `ChainIndex`: every action takes the step of `ChainIndex` together
with what it does to the transactions. The batch is modelled by the database as
it will be after the batch is written. A transaction has one output and at most
one input and is named by how its coins came about, so that the same transaction
can be in blocks of several branches; `ValidBlockArrives` lets bitcoind write
only blocks whose transactions spend what is unspent on their own branch.

The history variable `missed` collects the blocks that joined the main chain
without reaching the index; the code has two ways to lose them (section 5).
`UnspentButForMissed` says what else can be wrong, and that nothing more is. An
output that is restored can get the height of another block of the same
transaction: `UndoUTXO` looks for the block at its height in `currentChain`
without looking where that ends (main.cpp:132), and the memory behind the end may
hold any hash, also that of a block that was there before. And from a second
restart on the restore may find another chain than the one the index follows,
since the first block after a restart becomes the tip whatever its weight; so the
property is about the time before that.

### AddressIndex

It extends `ChainIndexProperties` in the same way, for one address. A total
(`total_input`, `total_output`, `txCount`) is modelled by the sequence of the
operations that are summed up in it. The records are a set, and an iterator sees
them in the order of their keys, `First` first. `LatestTotal` is the search of
the import loop on the branch of the new block, which trusts `longestChain` and,
once a block has it, `currentChain`. `Query` is an RPC thread in the middle of
its own search, step by step, while the loop goes on: it copies the entry of its
start, opens the iterator (which does not see later writes) and takes
`chainMutex` anew for every record. Beyond the end of `currentChain`, which a
stale flag or a switch of the chain can make it read, a search may find anything.
After a commit the cache is purged, and any one entry may be gone.

`blocks[hash]` inserts what it does not find: when the parent of the first block
is looked up, the tree gets an entry for the zero hash (AddressOperations.cpp:17).
No walk along the tree comes to that entry and it says what an absent one says, so
that it is kept apart, as `zeroEntry`, and every step of `AddressIndex` is one of
`ChainIndex`, about which the theorems of the chain speak.
`misled` remembers that a flag was `TRUE` off the main chain, and
`disturbed` that a block left the main chain during a query.

### TxIds

The ids alone, with the import loop, the live thread and the RPC lookups as
three processes, each call of `DatabaseHelper` one step (they hold
`cacheMutex`). The batch of the import loop is lost in a crash and what
`GetOrCreateId` writes is not. `PurgeCaches` keeps any entries within the
capacity. Half of an id in the key of a spent output is uninitialised
(BitcoinTX.cpp:181-190 copies four bytes into eight): it is one of `GarbageIds`.
The live thread finds the source of an input in a listed transaction, in the cache
of unspent outputs or in a record (BitcoinTX.cpp:106-166): `unspent` has the
transactions whose outputs were put into that cache since the start, any of which it
may have forgotten (`LiveLinkSource`, `LiveNoSource`).

### BlockFiles and BlockStream

`BlockFiles` has the block files with the two programs that use them at the same
time. A file is a sequence of cells; a block takes `Pieces` cells, which bitcoind
writes one after the other (`WritePiece`), possibly over cells that were
allocated in advance. Around this it tries to lock, as in the patch of
`daemon-patches`; `F_SETLK` does not wait, and the patch does not look whether it
was refused, so that it goes on without (`unlocked` remembers the block).

| pc | code | actions |
| --- | --- | --- |
| down | the process does not run | `Start` |
| idle | main.cpp:482-488, BlockChain.cpp:1956-1968 | `LockToRead`, which waits |
| locked | BlockChain.cpp:1970-2001 | `ReadMagic`, where the next file may be opened |
| magic | BlockChain.cpp:2002-2036, main.cpp:488-500 | `ReadData` |
| process | main.cpp:827-831 and 941 | `Commit` |

A read that fails at any point ends in `Fail`: the position from before is set
again. The stream is buffered: the descriptor may be ahead of `ftell()` by up to
`Buffer` cells (`Ahead`), and what is in the buffer is not read again. Locks are
placed at the descriptor, so that an unlock starts further on than the lock did
and leaves a part of it behind (`left`).

`BlockStream` is what `ChainIndex` supposes of the reader: blocks that come one
after the other, and a restart that resumes at the saved position. The two
modules meet there: `ImplementsBlockStream` is a property of both, `BlockFiles`
implementing the position by a file and an offset, `ChainIndex` using it for
the import and the restore.

### LiveTx

The thread for live transactions. A step is what it does under one mutex or
between two calls of bitcoind:

| pc | code | actions |
| --- | --- | --- |
| sleep | BitcoinLiveTX.cpp:42-54 | `Poll` |
| tip | 56-72 | `TakeTip` |
| announce, clear | 72-88 | `Announce`, `ClearLists` |
| list | 90-99 | `NextTx`, `PollEnds` |
| fetch | 101-120 | `Fetch` |
| process, save | 121-142 | `Process`, `Save` |
| add, send | 145-190 | `Add`, `Send` |

`PollFails` is the handler at line 196, reached from every call that can throw; an
error of the socket ends the daemon (see `HttpClient`), which is a `Crash` here.
The import loop is taken as `BestChain` (by `INSTANCE`), which `ChainIndex` is
proved to implement, together with what its commit does to the lists and to
LevelDB. bitcoind is modelled by the blocks it wrote and the transactions it
knows; its memory pool has those that are not on its best chain, so that a
switch of branches brings transactions back, before the import loop sees it. A
crash keeps the tree: the thread does nothing before the end of the files is
reached again, when the chain is restored. `behind` and `listsBehind` remember
that lists were made of a memory pool older than the tip, which
`LiveUnconfirmed` excepts.

### RpcQueries

The handlers of CacherServer.cpp on the chain of `ChainIndex`, one lookup under
`chainMutex` or one read of LevelDB a step, with the import loop at work in
between:

| query | code | actions |
| --- | --- | --- |
| `getblock`, `getblockhash`, `block_hash`, `block_index`, `block_height` | CacherServer.cpp:446-459, 513-610, 666-731 | `AskBlock`, `AskIndex`, `AskHeight`, `AskHash`, then `FindBlock`, `LoadBlock` |
| `getrawtx`, `tx_hash`, `tx_index` | 142-216, 612-650 | `AskTx`, `LoadLinks`, `ConvertLink`, `Converted` |
| `getblocks` | 248-269 | `AskPages`, `GetPage`: a client that reads page after page |
| `getaddress`, `address_balance` | 271-442, 733-805 | `AskAddress`, `Scan`, `AddLive`, `ConfirmOperation`, `Confirmed` |
| `address_unspent` | 807-956 | `AskAddress`, `CollectOutputs`, `AddPending` |

Every step of `ChainIndex` is taken, with what it does to the index of unspent
outputs and to a query. `utxo` is that index for one address, kept as in `UtxoIndex`:
`batchUtxo` is what it will be once the batch is written, by `ProcessUTXO` when a
block is read that extends the tip (`BlockProcessed`) or rejoins the chain
(`BlockRejoins`), by `UndoUTXO` when one leaves it. The tip of a reorganisation and
the first block after a restart are processed on no path; `missed` collects them,
and `UnspentAsBalance` says nothing of the outputs they make or spend (`Touched`),
which `address_balance` counts and `address_unspent` lacks. `UnspentOn` is the
reference, computed from the blocks of a path.

`LiveListed` lists the shared transaction whether the chain has it or not: the
commit of a block with it may come between the poll and the look at the tip
(BitcoinLiveTX.cpp:54-88). An answer that shows it twice is in the model, and
`BalanceOfUnspent` excepts it. The scan of operations is one step here that returns
what `AnswerOfChain` and `TotalsOfBranch` promise, since `AddressIndex` has it step
by step; where they promise nothing, after a flag was ever stale (`misled`) or in a
disturbed query, it does not go on (`Promised`, `NotPromised`), and nothing is said of
the answer.

Where `currentChain.size()` is read without the
lock, any size can be seen while the vector changes (`SizesSeen`). `disturbed`
remembers that a block left the main
chain during the query, that a block off the chain was flagged, or that the query
began while the chain was being rebuilt
or one branch replaced by another (`ChainChanges`): some calls begin without the
lock. `raced` remembers that a size was read during a change; the properties
except those. `UnspentAsBalance` also ends with the second restart: the first block
after a restart becomes the tip even if it is not the heaviest (main.cpp:371), the
next restart goes back to the heaviest chain, and the unspent outputs stay those
of the other one.

### HttpClient, Broadcast and Connections

`HttpClient` is `SendMessage` under `send_mutex`: connect if the socket is closed,
write, read the head, read the body, and what each error leaves behind. There are
three ways in which a call goes wrong:

* An answer that is no 200 closes the socket and throws a `JsonRpcException`
  (`Fails`): the caller handles it.
* An error of the socket is rethrown as a `system_error`, but the function is
  declared `throw (JsonRpcException)` (httpclientasio.cpp:130, 246-250). The build is
  C++11 (`src/src/CMakeLists.txt:3`), which enforces that: the daemon ends
  (`Aborts`, `~Alive`). A refused connection does this, a reset one, and a kept one
  that bitcoind has closed in the meantime.
* A body that ends early is returned as far as it came, and its socket is
  kept if the head said so (221-243). The caller's parser refuses it, so that `Return`
  counts a failed call, and the next call meets the dead socket and ends the daemon.

`errors` counts the answers that are no 200, `breaks` the connections that broke or
were refused. bitcoind
is external: it answers in order, well or with an error, with a length or by
closing, and may close or reset the connection anywhere. Parts of an answer bear
the name of the call they belong to, so that a part that reaches another call
would show. `Broadcast` is the websocket server: events of connections on one
thread, the loop of a broadcast on another, under `m_mutex`; a send to a
connection that is closing throws out of the loop.

`Connections` composes the two by the threads that use them: polls of the live
thread, `tx_push`, subscribers, and the shutdown of main.cpp:955-968, which stops
the RPC server first and then waits for the live thread.

### The data modules

`SmallVector` has the operations of the vector slot by slot: a slot holds an
element, nothing constructed, or what is left of a moved element, so that an
element that is lost, constructed over or not destroyed shows as a fault. It is
checked for plain types (`isPodLike`) and for classes. `LruCache` has the list and
the map, and `cached`, the value of each key as its users count on it: a list
without places and nodes, which `purge` cuts to the size.

`Archive`, `BlockParser`, `Hashing`, `Base58`, `Texts` and `Scripts` are pure:
operators translated from the code, and for each what it should compute
(`ReadBack`, `KeysInOrder`, `BlockParsed`, `HashedAsPadded`, `AddressReadBack`,
`TextReadBack`, `AddressRecognised`, `ScriptExecuted`), where the limits that the
code has are spelled out. Bytes are smaller than eight bits where the size of a
number matters (`ByteBase`), blocks and hashes shorter. A script that reads past
its end reads the memory behind it, which is a parameter.

### MC modules

`MCChainIndex`, `MCUtxoIndex`, `MCAddressIndex`, `MCTxIds`, `MCBlockFiles`,
`MCLiveTx`, `MCRpcQueries` and `MCConnections` only define the values that the
configurations give to constants. `MCData` composes the data modules: `subject`
says whether a behaviour is one of the vectors, one of the cache, or stays at one
sample of the inputs of a conversion.

## 3. What is checked

| run | bounds | shows |
| --- | --- | --- |
| chain_import | 6 blocks, two weights, no restart | every shape of tree: `ChainLinked`, `FlagsCoverChain`, and `ImplementsBestChain` |
| chain_crash | 4 blocks, two weights, 2 restarts | `HeaviestChain`, `IndexedOnce`, `TreeMatchesDatabase` after crashes anywhere, `NoNeedlessUndo`, `ImplementsBlockStream`, and `EveryBlockIndexed` under fairness |
| chain_rescan | 5 blocks, 4 restarts, `--rescan-index` 0 to 3 | `Restorable` through rescans that are cut short and repeated, or start above the records: with these bounds a record gets a wrong height and loses its duplicate again |
| utxo_index | 4 blocks of any shape with up to 2 payments, or the 7 blocks of `ForkedFile`; 1 restart | `UnspentButForMissed`, `TransactionBlocks` |
| utxo_lost_tip | 4 blocks that only make coins, no restart | a counterexample to `UnspentOutputs` (section 5) |
| address_index | 4 blocks with up to 2 operations, 1 restart, a page and a balance | `TotalsOfBranch`, `EveryOperationRecorded`, `AnswerOfChain` |
| ids | 3 transactions, caches of 1, 1 restart | `UniqueInFirstRun`, `NamedInFirstRun`, `StoredInFirstRun`, `IdsAreStable` |
| live_tx | 2 transactions, one spends of the other, 3 blocks of two weights, 1 failure or restart | `ListsAgree`, `LiveUnconfirmed`, `SentOnce`, `EveryLiveListed` |
| block_files | 3 blocks of 2 pieces in 2 files, a buffer of 2, files that grow or are allocated for 2 blocks, 2 starts | `ImplementsBlockStream`, `IntactIfLocked`, `EveryBlockImported` |
| rpc_queries | 4 blocks of one weight, 1 restart, pages of 2, 0 or 3 confirmations | `ConfirmationsOfChain`, `PagesCoverChain`, `BalanceOfUnspent`, `UnspentAsBalance` |
| connections | 2 polls, 1 pushed transaction, bodies of at most one part, 1 fault (an error of bitcoind, a break or a refusal), 2 subscribers | `AnswersBelong`, `FailsOncePerFault`, `SubscribersReached`, `ShutdownEnds` |
| data | 2 vectors of 1 slot inside and 4 elements in all, a cache of 2 for 3 keys, digits to base 8, blocks of 8 bytes, scripts of up to 4 opcodes | `VectorsKept`, `KeepsLastUsed`, `RecordsReadBack`, `BlocksParsed`, `NamesReadBack`, `ScriptsUnderstood` |

Four blocks are the least with a reorganisation of two blocks on top of a common
one; two weights (1 and 3) add switches to a shorter chain, to a chain that is
extended after it was left, and ties. Six blocks have switches back and forth.
Two restarts have a crash during the restore after a crash. A block of the same
transaction beyond the end of the chain takes seven blocks: too many to have all
their shapes, so that beyond four the run has the one that shows it. A payment chain of
two in a block has an output that is made and spent in it, and the two branches
can have the same payment. A page of three is less than the operations of a
branch. A cache of one entry for three transactions is always too small. Three
blocks in two files have a file with a block before and a block after the one
that is read, and a switch; with two pieces a block can be seen half written,
and a buffer of two cells reaches into the next block. The third block that
bitcoind finds can switch its chain, and with one failure anywhere each list is
cleared at every point of a poll.

Pages of two over four blocks have a full page, a last one and an empty one, and
two operations shown of three have the one that only serves the differences. Three
confirmations over four blocks have blocks on both sides of the limit, and none of a
chain that is too short; four blocks also have a reorganisation whose tip is missed.
Two
polls and a push over one socket have a call of the same and one of the other
thread after a connection that is kept open or broke; one fault at any point is
enough for a failed call and for a cut answer whose socket ends the daemon at the
next call. The proofs have any number of faults. Two subscribers are one that is
sent to before and one after another that closes. With one slot inside a vector
every operation moves to the heap and back; two vectors are exchanged, moved and
copied into each other, and an element is inserted into the vector it is in. Three keys overflow a cache of two.
Numbers and lengths are sampled at both sides of each limit of their forms; with
digits to base 8 a byte has three marker values, as it has with 256. Messages are
of every length up to two blocks and two bytes, around all the places where the
padding turns over.

`chain_rescan` does not check for deadlock: after a rescan that was cut short the
daemon can refuse the next block and stop (`ReadExistingBlock`), and the number of
starts is bounded. Neither do `connections`, where the daemon
stops, and `data`, where a sample does not move. The type invariants of
the modules serve the proofs and the reader and are not among the properties of
the runs.

Each property of these runs is broken by a plausible bug, given as a mutated
definition in `PROJECT.json` (`mutants`).

### Fairness

`FairSpec` has `WF_vars(Main)` and nothing else: the main thread runs on when it
can, which is what an operating system gives to a thread that takes no lock for
ever. There is none on the arrival of blocks, on crashes or on starts.
`EveryBlockIndexed` therefore supposes that the daemon is up again and again. In
`BlockFiles` the reader has the same fairness, and bitcoind ends a block that it
has begun to write: it holds a lock meanwhile, for which the reader waits
(`F_SETLKW`). In `LiveTx` the import loop and the thread run on; calls of bitcoind
fail at most `MaxTroubles` times, without which no list would ever be complete.
In `Connections` the threads run as long as the daemon does, and bitcoind answers
every request unless the connection breaks: the client has no timeout, so that
`ShutdownEnds` holds only on this condition; it allows that an error of the socket
ends the daemon first. Nobody need poll, push, subscribe or quit.

## 4. What is proved

With TLAPS, for all values of the constants:

| theorem | says | assumes |
| --- | --- | --- |
| `TypeCorrect`, `IndexedOnceAlways`, `ChainLinkedAlways` (`ChainIndexProofs`) | `TypeOK`, `IndexedOnce` and `ChainLinked` hold at all times, for any number of blocks, weights and crashes | `ConstantsAssumption`; `NoRescans`, that the option `--rescan-index` is not used |
| `TreeAlwaysMatches` (`ChainIndexProofs`) | `TreeMatchesDatabase`: the tree of an import and that of a restore are the same, with the children in their order | `ConstantsAssumption`, `NoRescans` |
| `AlwaysHeaviest` (`ChainIndexProofs`) | `HeaviestChain`: until the first restart, and at the end of every restore, the main chain is the first of the heaviest | `ConstantsAssumption`, `NoRescans` |
| `NeverUndoneInVain` (`ChainIndexProofs`) | `NoNeedlessUndo`, an action property | `ConstantsAssumption`, `NoRescans` |
| `ChainAlwaysFlagged`, `FlagsAlwaysCoverChain` (`ChainIndexProofs`) | `ChainFlagged` at all times; `FlagsCoverChain` as long as `starts = 0` | `ConstantsAssumption`, `NoRescans` |
| `BestChainImplemented` (`ChainIndexProofs`) | the import loop implements `BestChain`, for any number of blocks and weights: every step is one of the abstract choice or a stutter | `ConstantsAssumption`; `MaxStarts = 0`, since after a restart the first block always wins; `NoRescans` |
| `StreamImplemented` (`ChainIndexProofs`) | the loop reads and saves its position as `BlockStream` promises, whatever the crashes | `ConstantsAssumption`, `NoRescans` |
| `AlwaysRestorable` (`ChainIndexProofs`) | `Restorable`, with any crashes and any rescans | `ConstantsAssumption` |
| `RightRecordsKept` (`ChainIndexProofs`) | the action property behind the second half of it: unless a rescan starts above the records, no step makes right records wrong but one that gives a block a second index | `ConstantsAssumption` |
| `IntactAlways` (`BlockFilesProofs`) | `IntactIfLocked`: a block that was written under the lock is imported complete | `FilesAssumption` |
| `ReaderImplementsStream` (`BlockFilesProofs`) | `ImplementsBlockStream`: the reader implements `BlockStream`, step by step, whatever fails and restarts | `FilesAssumption` |
| `TransactionBlocksAlways` (`UtxoIndexProofs`) | `TransactionBlocks` holds at all times, for any transactions and crashes | `ConstantsAssumption`, `UtxoAssumption` |
| `UnspentButForMissedAlways` (`UtxoIndexProofs`) | `UnspentButForMissed` holds at all times, for any blocks, weights, valid transactions, reorganisations and crashes | `ConstantsAssumption`, `UtxoAssumption` |
| `EveryOperationAlwaysRecorded` (`AddressIndexProofs`) | `EveryOperationRecorded` holds at all times: no record is lost, doubled or replaced, for any blocks, operations, branches and crashes | `ConstantsAssumption`, `AddressAssumption` |
| `TotalsAlwaysOfBranch` (`AddressIndexProofs`) | `TotalsOfBranch` holds at all times: the cache, the search and the purges never bring a total of another branch into a record | `ConstantsAssumption`, `AddressAssumption` |
| `AnswersAlwaysOfChain` (`AddressIndexProofs`) | `AnswerOfChain` holds at all times: what a query lists is of one chain, in order and without a gap, whatever the import adds between its locks | `ConstantsAssumption`, `AddressAssumption` |
| `IdsStable` (`TxIdsProofs`) | the id of a hash never changes, across any number of crashes | `TxIdsAssumption` |
| `IdTypes`, `IdsAreUnique`, `RecordsNamedById`, `ImportedStayStored` (`TxIdsProofs`) | until the daemon is first stopped, types are right, no two hashes share an id, every record, batch and cache entry is that of its id, and the record of an imported transaction stays | `TxIdsAssumption` |
| `AlwaysKeepsLastUsed` (`TxIdsProofs`) | `KeepsLastUsed` of `LruCache` holds at all times: list, map and nodes are of the keys that were used last, with their values, for any keys, values and size | `CacheAssumption` |
| `VectorsAlwaysKept` (`TxIdsProofs`) | `VectorsKept` of `SmallVector` holds at all times: after any calls the vectors have the elements their users count on, each constructed and destroyed once, and each heap block has one owner; for plain types and classes, any elements, vectors and slots | `InlineAssumption`, `SlotAssumption` |
| `ListsAlwaysAgree`, `NeverSentTwice` (`LiveTxProofs`) | `ListsAgree` and `SentOnce` hold at all times, for any transactions, blocks, failures and restarts | nothing |
| `ListedAlwaysUnconfirmed` (`LiveTxProofs`) | `LiveUnconfirmed` holds at all times | `LiveAssumption` |
| `ConfirmationsAlwaysOfChain` (`RpcQueriesProofs`) | `ConfirmationsOfChain` holds at all times: however the import loop's steps fall between the lookups of a handler, what it says of blocks and transactions is of one chain | `ConstantsAssumption`, `RpcAssumption` |
| `PagesAlwaysCover` (`RpcQueriesProofs`) | `PagesCoverChain` holds at all times, for any size of a page and any blocks added between two pages | `ConstantsAssumption`, `RpcAssumption` |
| `UnspentAlwaysAsBalance` (`RpcQueriesProofs`) | `UnspentAsBalance` holds at all times: up to the second restart and but for outputs of missed blocks, the lists of unspent outputs are what the balances count, for any confirmations, blocks, branches and reorganisations | `ConstantsAssumption`, `RpcAssumption` |
| `BalanceAlwaysOfUnspent` (`RpcQueriesProofs`) | `BalanceOfUnspent` holds at all times: the running totals of a chain are the value of what is unspent on it, and a page shows each operation once with its own amounts, for any tree of blocks, size of a page and confirmations; only while no flag was ever stale, and not for a listed transaction that the chain already has | `ConstantsAssumption`, `RpcAssumption` |
| `FailsOnce`, `AnswersAlwaysBelong` (`ConnectionsProofs`) | `FailsOncePerFault`: each failed call has an error or a break of its own, and only a break ends the daemon; `AnswersBelong`: an answer is the caller's own, and whole unless the connection broke; for any numbers of calls, parts of a body and faults | `ClientAssumption`, `CallerAssumption` |
| `SubscribersAlwaysReached` (`ConnectionsProofs`) | `SubscribersReached`, for any set of subscribers | nothing |

The theorems of `ChainIndexProofs` about states follow from one inductive invariant, `Inv`
of `ChainIndexProperties`. `ChainLinked` alone speaks only of states in which
no lock is held and is not inductive: while a reorganisation is at work the
chain is cut and a path is added block by block. What carries it are
`ReorganiseOK` (the blocks still to be added are a path from the cut to the new
block, and the walk is always one step below the lowest of them), `RebuildOK`
(the same for the restore, which fills the chain from the top, so that
`PathAbove` speaks of the part above a position), `TreeOK` (heights and parents
in memory are those of the records), `ImportOK` (what the new block copied from
its parent is still true at its commit) and `Progress` (which of the lists is
ahead of which, in each phase). There is one lemma per action, and `InvNext`
puts them together. That `Inv` holds on small instances was checked by TLC
before it was proved.

`BestChainImplemented` adds `TipInv` to `Inv`: `totalBits` is the total of
`longestBlock`, that of a new block is its parent's and its own bits, and its flag
says whether it is the heavier one. A commit of many steps maps to
one of `BestChain`, the others to stutters. `StreamImplemented` needs of `Inv` that
the records are the blocks of the files up to the position.

The rest of `ChainIndexProofs` is about what is computed from the ancestry of the blocks:
`Path` and `Work` are recursive functions. Neither they nor the theorems about
them need the induction rules of the library: that a function satisfies its
recursive equation, and that all its values have a property, is proved by the
least counterexample (`LeastElement`, from the well-foundedness of the natural
numbers). On top of `Inv` there are five more invariants, each inductive together with
`Inv` and those before it:

* `RecordsOK`: every record of the tree has the total, the height and the
  children of its block among the blocks read so far. It holds inside an import
  too, where the new block already hangs in its parent's children.
* `TipsOK`: the tip of the import, before the first restart, and the tip of the
  restore are the first of the heaviest blocks (`TipGrows`: the next block is the
  new one if and only if it is heavier); the chain that a restore fills from the
  top ends in that tip.
* `UndoOK`: what an undo removes is not on the path of the new block: the walk
  ended at the highest common block.
* `FlagsOK`: the blocks of the chain are flagged and, during a restore, those that
  are filled in; during a reorganisation, those that are still to be added.
* `MarksOK`: if all bits are equal, flagged blocks are on the chain or on the path
  of the new block. A new tip is then higher than the old one
  (`HeavierIsLonger`), so that the walk passes every height that leaves the chain.

`AlwaysRestorable` does not suppose `NoRescans` and has an invariant of its own,
`RescanInv`. While a rescan overwrites records, the next block is the one of the next
index (`RescanPlaces`). Parents have smaller indices, but for a first record
whose block is not the first; and if the records up
to those in memory are right and no block was skipped that has none, so are the tree
and the block being imported (`RescanTree`): a wrong record, a second index or a
skipped block makes no claim. `NeverAhead` is inductive as long as no rescan starts
above the records: then a block that adds a record is at most the next one, since
the reader may be behind. A commit on
right records therefore rewrites the same record, adds that of the next block, or
gives an old block a second index. TLC checked `RescanInv` with the bounds of
`chain_rescan` before it was proved. That the parent of a record is smaller and one
below it whenever no block has two indices holds with four blocks and three
restarts, but is not inductive, and false with five and four (section 5).

The invariant of `BlockFilesProofs` has three parts: `Shape`, the types; `Placed`,
that there is a place for every block such that the files are laid out
accordingly (`Layout`) and the reader stands at the place that follows its last
block (`ReaderAt`), which maps a file and an offset to the position of
`BlockStream`; and `SoundOK`, that what was read of a block is what bitcoind wrote, or
excused as in `IntactIfLocked`, and that the locks of the two do not overlap
(`LockOK`).

`UtxoIndexProofs` goes on from there. `FilesOK` is about what bitcoind writes: the
transactions of each block spend outputs that are unspent on its branch, and make
new ones, from which follows for every block that its reference `Unspent` has each
output with the height of its block (`FilesSound`). `LinksOK` says that LevelDB
and the batch have for each transaction the indices of exactly its blocks.
`UnspentOK` is the heart: `Follows(u, h)` says that index `u` is `Unspent[h]`, but
for the outputs that missed blocks of the branch of `h` touch, and for heights
found beyond the end. The index follows the tip whenever other threads can look,
and the batch follows the tip all through a reorganisation. Doing a transaction in both
keeps them the same (`SameProcessed`); undoing the tip does (`SameBlockUndone`),
because what a block made was not there before, because what it spent was unspent
before it, and because the only block of a source on the main chain is the one
whose height the reference has (`HeightsFound`); both go by induction along the
block. A restart keeps what was followed, since there is one first heaviest chain
(`TipIsBest`). `UnspentButForMissed` was once stated without its exception
for heights and for any number of restarts, and TLC agreed on four blocks; both
were found false when the invariant would not go through, and are now in the model,
the first with a run of its own shape.

`AddressIndexProofs` also rests on `ChainIndexProofs`. `RecordedOK` is about keys:
the batch has the records of the transactions of the new block that are
processed, LevelDB those of all blocks below it, each under the height of its
block, so that writing the batch replaces nothing. `TrueFlags` is about
`longestChain`: a block that has it, and whoever has seen it, is on the main
chain, unless `misled`; it has parts for the restore, where only blocks that are
filled in are flagged. `TotalsOK` has the totals themselves: those of all records,
the cache, which has the total of the tip or of the new block, and
`addressOperationsBlock`. For the totals that the search of the import loop gives,
`LatestIsTotal` says that they are `OperationsTo` of the block it began at. This
goes by induction along the records (`SearchFinds`): what is seen comes before what
is left, the cursor stays on the branch, at or below the height it was moved to,
whichever way it takes (`AncestorFound`: by parents, or by `currentChain` from a
flagged block on), and a record is taken if and only if it is the first of the
branch (`LastRecord`). That the first record of the branch has its total
follows from `RecordedOK`: the blocks above it have no operations (`NoneAbove`).

For the answers there is `QueryOK`, about a query between any two of its steps. The main
chain still begins with the path of the block where it began (`StartOnChain`),
unless a block left the chain meanwhile, which marks the query. What it has copied
of a block may be older than what the tree has: it may lack a flag, but never has a
wrong one (`SeenAt`), and either way of the search goes to the same ancestor. And
of the records to list, as many as are not yet found are still to come
(`ToCome`), one for each length that a total can have (`EveryLength`): the
records of a branch come in the order of their totals (`BranchOrder`), each total
is a beginning of the longer ones (`RecordOnBranch`), and those with enough
confirmations are those up to one length (`ConfirmedRecords`). So the next one that
is listed has the longest total that is left (`NextListed`). The iterator
misses what the import writes after it was made, but that is of blocks that come
later in the files than those on the path of the block where the query began
(`PathBounded`).

`IdsStable` needs only that the cache of ids agrees with LevelDB. The other
theorems about ids rest on `IdsInv`: the next id is above all ids in use, so
that `CreateId` cannot give one away twice. This breaks with the first restart,
where the next id is computed from the keys of records (section 5); hence
`FirstRun` in all four.

The theorems about `LiveTx` follow from `LiveInv`: the transaction that the
thread works on is not listed until it is added, so that it gets a new place at
the end; and it was not sent unless it is stored, so that `needBroadcast`, which
is set when it was not stored, still says the truth at the send, even if a block
with it was committed in between.

The theorems about the socket rest on two invariants. `HttpInv` has where the
stream is at each point of a call and the account of failures (`Paid`): a call that
will fail with what is left of its answer (`Debt`: no 200, or less than the head
says) has a fault that no call has paid for yet, and a connection that is
neither open nor closed as its answer says (`Intact`) has cost a break. A fault is
not paid twice because after it no call returns to the socket: it is closed, or the
next call that uses it ends the daemon.
`OwnInv` says that all of the stream is of the call that holds the mutex: a body
is read to its end, or the socket is closed. `BroadcastInv` says that those who
are still to be sent to are subscribed and not gone, and that all others who are
due have the last message.

`ListedAlwaysUnconfirmed` needs `PollOK`: how far what is not in the chain has come,
from the poll over the look at the tip to the lists, and that a poll of a branch
that leads to the tip has nothing of the chain of the tip (`LeadsConfirms`). Beside
it stands `BlocksOK`: a block comes after its parent, so that `ConfirmedAt` and
`Leads` are given by their recursion (`ConfirmedSteps`, `LeadsSteps`) and what is
confirmed up to a block never changes (`ConfirmedKept`).

The theorems about `RpcQueries` compare what a handler collects in many steps with
the chain of its beginning. Of the import loop they use the invariants of
`ChainIndexProofs` and two more (`LoopInv`): the lists of a reorganisation are filled
only for a block that replaces the tip by one of another branch (`ReplacesOK`), and
no block is built on the tip until the tip is replaced (`TipChildless`, since the
first of the heaviest blocks has no child). From the latter follows that the path which
a reorganisation adds never hangs on the tip, so that each reorganisation that adds
blocks removes one as well, which disturbs the query. Hence `CalmOK`: as long as a
query is undisturbed, the chain of its beginning is a beginning of the chain
(`Begun`), and whenever the lock is free its blocks are exactly those with the flag.
On top of it there is one invariant for each kind of query:

* `PagesOK`: what is not yet on a page is at the lower end of the chain, for a block
  that is added moves blocks to later pages only (`PageBlocks`).
* `OutputsOK`, with `IndexOK` and `UtxoOK`. Up to the second restart the chain of the
  last commit is the main chain whenever the lock is free, because both the first
  import and a restore follow the first of the heaviest blocks (`IndexOK`). The
  index has the unspent outputs of that chain but for those that its missed
  blocks touch, and the batch those of the chain with the new block if that is
  processed (`UtxoOK`, `Agrees`). It is kept through a reorganisation block by block:
  what a block adds to the outputs of its path is `NewOn` (`AddedBlock`), so that
  processing it follows the path upwards (`UtxoGrows`), undoing it downwards
  (`UtxoShrinks`), and one that is not processed is missed (`UtxoMisses`). The
  unsigned comparison of address_unspent takes exactly the blocks with the
  confirmations that are asked for (`CollectedOutputs`), for the blocks of a chain
  are different.
* `AnswersOK`: every answer so far is right and stays so while the chain grows
  (`AnswersGrow`), what was copied of a block leads to its record in LevelDB
  (`LoadingOK`), and of the blocks of a transaction that are still to be looked up,
  one is on the main chain if none was found yet (`LinksOK`, `ToConvert`). The blocks
  of a set are looked up as a sequence: `SetAsSequence` says that the sequence has
  each element of a finite set and no other.
* `BalanceOK`: the operations that a query holds are the first ones of those of its
  chain, or these with the shared transaction on top if it was listed; this rests on
  `PageIs` (cut to one more than is shown, the differences of totals are the amounts
  of the operations).

The value of a balance comes from `AllBooked`, an induction along the parents of the
files (`FileInduction`, from the least block without the property, as the prover has
no induction of its own): the operations of the chain of each block
(`OperationsOf`) carry the totals below them, are of different transactions, and
leave as the difference of the last totals the value of the unspent outputs
(`Booked`). It needs that the shared transaction is in a block of a branch only once
and that the first block has the payment it spends (`ContentsSound`), which is what
bitcoind validates.

This invariant failed twice before it went through, and TLC then found the
same with two restarts: queries that begin during a rebuild were not disturbed
in the model, and `UnspentAsBalance` had no exception for the second restart. Both
are corrected, and are in `RpcQueries` above.

`AlwaysKeepsLastUsed` rests on `CacheOK`: the place of each key in the map is the
node that is in the list where its pair is in `cached`, and no node and no key is
there twice. That the map forgets nothing needs the converses: every node and
every key of the map is in the list. A use moves one position to the front and
leaves the others in order (`Behind`), which is one lemma for `put` of a new
key, `put` of an old one and `get` (`UseKeeps`). `purge` goes by the size of the map
and cuts the list: that these are equal (`SizeIs`), and that there is a node for a
new pair (`FreeIs`), follow from the pigeonhole principle.

`VectorsAlwaysKept` rests on `VectorsRight`: every vector `Keeps` its elements, which
says of one object what `VectorsKept` says of all. Each operation has a lemma on
the object it returns: it keeps the elements that the call should leave
(`Spliced`, some elements in the place of others). They are put together from what
the steps on the slots do (`ConstructFacts`, `AssignFacts`, `DestroyFacts`,
`VacateFacts`, `ReleaseFacts`), where no step may construct over an element or
read a raw slot. That a vector that grows has more slots than before is the one
arithmetical fact: `NextPowerOf2` is above its argument (`PowerAbove`), by the least
number that is not exceeded. `SlotAssumption` only says that the marks of slots
without a value are no elements. Two lemmas hold for classes only with what the
actions ask for: `insert` by move at the end, and a move of elements in place to a
vector that has none, has as many, or has to grow (see section 5).

Only model-checked are: liveness (`EveryBlockIndexed`, `EveryBlockImported`,
`EveryLiveListed`, `ShutdownEnds`), since fairness is out of the prover's reach; and the
conversions of the data modules (`RecordsReadBack`, `BlocksParsed`,
`NamesReadBack`, `ScriptsUnderstood`), which use recursive operators that
take the prover its arithmetic.

## 5. Where the code differs from what it says

One has a run that ends in a counterexample (`findings` in `PROJECT.json`):

* `utxo_lost_tip`: the block that triggers a reorganisation is not processed for
  unspent outputs, neither when it is read (main.cpp:560-570) nor with the other
  blocks of its branch (main.cpp:905-925).

Met while modelling; each is in the models as the code has it, and the property
that it would break says which states it excepts:

* The walk of a reorganisation clears `longestChain` at the heights of the new
  branch only. A block of a longer, lighter chain keeps the flag, and a block
  built on it takes its totals from the wrong branch (`misled`).
* An id is written at once, its record later. After a crash the next id is
  computed from the records, and an id is given a second time (`FirstRun`).
* A commit clears two local lists of `main()` (main.cpp:293-294) instead of the
  global ones, and the global index by address. If the block does not become the
  tip, live transactions stay listed and are never indexed again.

* After a restart `longestBlock` is the zero hash, so that the first block is
  taken for a reorganisation and lost to the unspent outputs as in
  `utxo_lost_tip`, without any branch (`missed` in `UtxoIndex`). It becomes the tip
  even if it is not the heaviest: the next restart then restores the heaviest
  chain, although the outputs are those of the chain that was followed before
  (main.cpp:371).
* `UndoUTXO` reads `currentChain` beyond its end when a transaction is also in a
  higher block of another branch (main.cpp:132), and may restore an output
  with the height of that block.
* A rescan saves the position of the block it rewrites; if it is cut short, the
  next start gives blocks a second index, and a later one can remove it and leave
  wrong heights. A rescan from an index above the number of records skips blocks
  that were never indexed: the next one hangs under a parent that is not in
  memory, gets a wrong height and the first record as its parent. On an
  empty database it becomes its own parent, and the next restore reads an empty
  vector (main.cpp:344). A restore fills `currentChain` by height without a check
  (main.cpp:399-406), and may write beyond its end. `Restorable` says that
  these are the only ways to a wrong record.
* A block of a file that was allocated in advance can be imported with zeroes
  for the bytes that were not written yet, when bitcoind was refused the lock or
  the block is the first of its file. It is kept if it parses, since its
  transactions are not checked against the hash (`IntactIfLocked` has these
  exceptions).
* Padding at the end of a file would stop the reader for ever, since the next
  file is opened and the old one read (BlockChain.cpp:1985-1987).
* The keys that lead from a transaction to its spenders are half uninitialised
  (BitcoinTX.cpp:185), so that spenders are not found.
* A block that is committed between the poll of the memory pool and the look at
  the tip leaves its transactions listed as live until the next tip
  (BitcoinLiveTX.cpp:54-88), so that `getaddress` shows them twice and its totals
  count them twice (excepted in `BalanceOfUnspent`).
* `address_unspent` lacks the outputs of blocks that the index missed, and lists what
  these spent, while `address_balance` counts them as they are: the two differ after
  a reorganisation or a restart (excepted in `UnspentAsBalance`).
* An error of the socket to bitcoind ends the daemon: `SendMessage` is declared
  `throw (JsonRpcException)` and rethrows a `system_error` (httpclientasio.cpp:130,
  246-250). So does a connection that bitcoind has closed while it was idle, at the
  next call. A kept connection that breaks in the middle of a body fails one call,
  whose answer does not parse, and ends the daemon with the next (221-243).
* `address_unspent` counts one confirmation more than the other calls
  (CacherServer.cpp:871), and handlers read `blockIds` and `currentChain` without
  the lock (CacherServer.cpp:161, 417, 539, 871, 925).
* "getblockheight" is bound to the handler of "getblockhash"
  (abstractcacherserver.h:19).
* The comparison of a checksum joins its bytes by `||`, so that one equal byte of
  four is enough for an address (BitcoinAddress.cpp:1488). Base58 takes a number
  below 58 with zeros above it for a long one.
* The parser of blocks reads two bytes after each of the three markers of a
  length, so that lengths from 0xFFFF on are wrong, unlike on the page that its
  comment cites (BlockChain.cpp:1544-1575).
* The forms of scripts in the comments of BitcoinTX.cpp:61-64 end with the
  script and have keys of 33 to 65 bytes; the code accepts what follows, and keys
  of 33 or 65 bytes only. A key with another first byte than its form has gets an
  address from memory that was not written.
* `decodeScript` decodes the data behind an OP_PUSHDATA as opcodes. The stack of
  the interpreter copies one byte for the sizes 2, 4 and 8 too, though its
  comments say that it copies as many. Opcodes it does not know end the program.
* With elements of a class, the vector loses the last element in an `insert` by
  move before the end, and elements of a shorter vector in a move assignment to
  one with room for them. The run leaves these two calls out, which the daemon
  does not make.
* The decoder of base64 stops at `+` and `/`; the daemon only encodes.
* The console of the library reads `block.blockLength` before it is set.

## 6. What is not modelled

* Statistics of blocks (coin age, rewards, proof of stake) and amounts: sums
  along the chain that no decision depends on.
* The option `--rescan-index` in `UtxoIndex`, `AddressIndex` and `RpcQueries`.
* Transactions of several inputs and outputs, and outputs without address.
* Errors of LevelDB: the code ignores the status of its writes.
* bitcoind stopped in the middle of a block, or a file that it leaves padded when
  it begins the next one: `BlockFiles` supposes that it does neither.
* Queries during which a block leaves the main chain are in `AddressIndex`, but
  `AnswerOfChain` says nothing of their answers.
* The compression functions of both hashes and the elliptic curve: arithmetic
  without a state, whose only property is its table of constants. Of llvm the bit
  arithmetic and the type traits, which the daemon does not call.
* JSON, the HTTP server and the websocket library; how a library reports its
  errors is modelled from how the code uses them.
* The buffer of 8 MiB that an archive writes to: its end is not
  checked, but no block of MAX_BLOCK_SIZE makes a record that long.
* The layout of what the script decoder prints, and the console of the reader.

## 7. Plan

The order is by importance. Done: 1 to 10.

1. `ChainIndex` with `BestChain`, its properties, runs and proofs.
2. `UtxoIndex`, composed with `ChainIndex`.
3. `TxIds` and its proofs.
4. `AddressIndex`, composed with `ChainIndex`.
5. `BlockFiles`, which implements `BlockStream`, the reader that `ChainIndex`
   supposes.
6. `LiveTx`, composed with `BestChain`.
7. The data modules: `Archive`, `BlockParser`, `Base58`, `Hashing`, `Texts` and
   `Scripts`, each checked against a reference over samples, and `SmallVector`.
8. `LruCache`: the list and the map of lrucache.hpp against the promise that
   `TxIds` and `AddressIndex` suppose.
9. `RpcQueries`, composed with `ChainIndex`; `HttpClient` and `Broadcast`,
   composed by `Connections`.
10. Proofs: `ChainIndex`, with the refinements of `BestChain`
    and `BlockStream`; `UtxoIndex`; `BlockFiles`; the ids; live
    transactions; the records of addresses and the answers from them; the queries of
    the RPC server; the socket and the broadcasts; `LruCache`; rescans
    (`Restorable`); `SmallVector`.
11. Left to model: the option `--rescan-index` in `UtxoIndex`, `AddressIndex` and
    `RpcQueries`, and transactions of several inputs and outputs.

## 8. Running

    tlc -config ChainImport.cfg MCChainIndex
    tlapm ChainIndexProofs.tla

The configuration and the module of each run are in `PROJECT.json`; one run
takes from seconds to three minutes, the proofs some minutes.

------------------------------ MODULE RpcQueries ------------------------------
(***************************************************************************)
(* The queries of the RPC server (src/src/CacherServer.cpp) on a chain     *)
(* that the import loop keeps changing.  A handler takes chainMutex for    *)
(* single lookups only, so that the parts of an answer are of different    *)
(* states; some reads of currentChain take no lock at all.                 *)
(*                                                                         *)
(* One address is modelled.  A block may have a payment of its own to the  *)
(* address, named by the block, and the transaction Shared, which spends   *)
(* the payment of the first block and pays a part of it back; it can be in *)
(* blocks of several branches, and is listed as live when the mempool of   *)
(* bitcoind has it.                                                        *)
(*                                                                         *)
(* The index of unspent outputs is kept as UtxoIndex has it, batch by      *)
(* batch.  The scan of the operations is the one of AddressIndex: here it  *)
(* is one step that returns what AnswerOfChain promises, and a query of    *)
(* which it promises nothing is not followed further.                      *)
(***************************************************************************)
EXTENDS ChainIndexProperties, SequencesExt

CONSTANTS
  Contents,       \* what a block after the first may have, of Own and Shared
  PageSize,       \* the 20 of getblocks
  MaxOps,         \* the 50 operations that getaddress shows
  Confirmations   \* what address_balance and address_unspent are asked for

ASSUME RpcAssumption ==
  /\ RescanIndices = {}
  /\ Contents \subseteq SUBSET {"own", "shared"}
  /\ PageSize \in Nat \ {0} /\ MaxOps \in Nat \ {0} /\ Confirmations \subseteq Nat

Shared == MaxFile + 1

VARIABLES
  contents,       \* of each block of the files
  utxo,           \* LevelDB: DbAddressUTXO, the unspent outputs of the address
  batchUtxo,      \* what utxo will be once the batch is written
  listed,         \* pendingTransactionsByAddress has Shared
  query           \* what an RPC thread is doing

\* History of what was committed.
VARIABLES
  dbChain,        \* the main chain after the last commit
  missed,         \* its blocks whose transactions did not reach utxo
  misled          \* longestChain was TRUE off the main chain

historyVars == <<dbChain, missed, misled>>
rpcVars == <<contents, utxo, batchUtxo, listed, historyVars>>
allVars == <<vars, rpcVars, query>>

\* start is the chain of when the query began; disturbed, raced and committed
\* tell what happened since.
NoQuery == [pc |-> "idle", kind |-> "", arg |-> 0, hashes |-> <<>>,
            info |-> ZeroInfo, links |-> <<>>, was |-> FALSE,
            answers |-> {}, ops |-> <<>>, fromChain |-> 0, live |-> FALSE, seen |-> {},
            start |-> <<>>, disturbed |-> FALSE, raced |-> FALSE,
            committed |-> FALSE]

RpcInit ==
  /\ Init
  /\ contents = <<>> /\ listed = FALSE
  /\ utxo = {} /\ batchUtxo = {}
  /\ dbChain = <<>> /\ missed = {} /\ misled = FALSE
  /\ query = NoQuery

-----------------------------------------------------------------------------
(* What is known of the address.                                           *)

Has(b, what) == what \in contents[b]
OnPath(path, what) == \E i \in 1..Len(path) : Has(path[i], what)

\* An operation with the totals of its chain; the amounts are 2 for a payment
\* and 1 for the part paid back.
Operation(what, before) ==
  LET in  == IF what = Shared THEN 2 ELSE 0
      out == IF what = Shared THEN 1 ELSE 2
  IN [of |-> what, input |-> in, output |-> out,
      total_input |-> before.total_input + in,
      total_output |-> before.total_output + out, txCount |-> before.txCount + 1]
NoOperation == [of |-> Null, input |-> 0, output |-> 0,
                total_input |-> 0, total_output |-> 0, txCount |-> 0]
Latest(ops) == IF ops = <<>> THEN NoOperation ELSE ops[1]
WithOperation(ops, what) == <<Operation(what, Latest(ops))>> \o ops

\* The operations of the chain of each block, the last one first, as they are
\* recorded when the block is processed.
Recorded(h, before) ==
  LET own == IF Has(h, "own") THEN WithOperation(before, h) ELSE before
  IN IF Has(h, "shared") THEN WithOperation(own, Shared) ELSE own
OperationsOf[h \in 0..Len(file)] ==
  IF h = Null THEN <<>> ELSE Recorded(h, OperationsOf[file[h].previous])
OperationsOn(path) == OperationsOf[TipOf(path)]

\* The height of each unspent output of a chain: a reference for utxo.
UnspentOn(path) ==
  LET spent == OnPath(path, "shared")
  IN {[of |-> path[i], height |-> i - 1] :
        i \in {j \in 1..Len(path) : Has(path[j], "own") /\ ~(spent /\ j = 1)}}
     \cup {[of |-> Shared, height |-> i - 1] :
        i \in {j \in 1..Len(path) : Has(path[j], "shared")}}

\* The block whose payment Shared spends, and the outputs that blocks make or
\* spend.
FirstBlock == 1
Touched(bs) ==
  {b \in bs : Has(b, "own")}
    \cup IF \E b \in bs : Has(b, "shared") THEN {Shared, FirstBlock} ELSE {}

-----------------------------------------------------------------------------
(* The index of unspent outputs: an output is a key, its height the value. *)

Without(u, what) == {o \in u : o.of # what}
Put(u, what, h)  == Without(u, what) \cup {[of |-> what, height |-> h]}

\* ProcessUTXO and UndoUTXO of the transactions of a block; what is spent goes
\* back at the height of the first block.
ProcessUTXO(u, b, h) ==
  LET own == IF Has(b, "own") THEN Put(u, b, h) ELSE u
  IN IF Has(b, "shared") THEN Without(Put(own, Shared, h), FirstBlock) ELSE own
RemoveOutputs(u, b) ==
  LET own == IF Has(b, "own") THEN Without(u, b) ELSE u
  IN IF Has(b, "shared") THEN Without(own, Shared) ELSE own
UndoUTXO(u, b) ==
  IF Has(b, "shared") THEN Put(RemoveOutputs(u, b), FirstBlock, 0) ELSE RemoveOutputs(u, b)

-----------------------------------------------------------------------------
(* The import loop, with what it does to the index and to a query.         *)

BlockWritten ==
  /\ BlockArrives
  /\ \E c \in IF file = <<>> THEN {{"own"}} ELSE Contents :
       /\ "shared" \in c => ~OnPath(Path[file'[Len(file')].previous], "shared")
       /\ contents' = Append(contents, c)
  /\ UNCHANGED <<utxo, batchUtxo, listed, historyVars, query>>

\* A block that left the main chain is still marked: see FlagsCoverChain.
Misled == \E h \in DOMAIN blocks : blocks[h].longestChain /\ ~OnChain(h)

\* processUTXO: the new block extends the tip.
Extends == blockInfo.longestChain /\ ~Reorganises

\* The transactions of the new block are put into the batch, if it does.
BlockProcessed ==
  /\ ReadBlock
  /\ batchUtxo' = IF Extends' THEN ProcessUTXO(utxo, hash', blockInfo'.height) ELSE utxo
  /\ UNCHANGED <<contents, utxo, listed, historyVars, query>>

\* An ancestor of the new block joins the main chain.
BlockRejoins ==
  /\ RedoBlock
  /\ LET b == toAppend[Len(toAppend)]
     IN batchUtxo' = ProcessUTXO(batchUtxo, b, blocks[b].height)
  /\ UNCHANGED <<contents, utxo, listed, historyVars, query>>

\* The commit clears the index by address and writes the batch.  The new block of
\* a reorganisation was processed neither when it was read nor with its ancestors.
Commits ==
  /\ Finish
  /\ utxo' = batchUtxo
  /\ dbChain' = currentChain'
  /\ missed' = (missed \cup IF Reorganises THEN {hash} ELSE {}) \cap ToSet(currentChain')
  /\ misled' = (misled \/ Misled')
  /\ listed' = FALSE
  /\ query' = IF query = NoQuery THEN query
              ELSE [query EXCEPT !.committed = TRUE, !.disturbed = @ \/ Misled']
  /\ UNCHANGED <<contents, batchUtxo>>

BlockLeaves ==
  /\ UndoBlock
  /\ batchUtxo' = UndoUTXO(batchUtxo, currentChain[Len(currentChain)])
  /\ query' = IF query = NoQuery THEN query ELSE [query EXCEPT !.disturbed = TRUE]
  /\ UNCHANGED <<contents, utxo, listed, historyVars>>

\* The process stops; getaddress, address_balance and address_unspent do this
\* themselves when no block is indexed: back() of an empty currentChain.
AskEmpty == LockFree /\ currentChain = <<>> /\ starts < MaxStarts /\ Down
Stops ==
  /\ Crash \/ AskEmpty
  /\ batchUtxo' = utxo
  /\ listed' = FALSE /\ query' = NoQuery
  /\ UNCHANGED <<contents, utxo, historyVars>>

LoopGoesOn ==
  /\ Start \/ Restore \/ ReadFails \/ BeginCommit \/ WalkBack \/ WalkEnds \/ UndoEnds
  /\ UNCHANGED <<rpcVars, query>>

\* The thread for live transactions, as LiveTx has it.  The poll may be older
\* than the tip, so that Shared may be in a block of the chain already.
LiveListed ==
  /\ ~listed /\ LockFree /\ currentChain # <<>>
  /\ listed' = TRUE
  /\ UNCHANGED <<vars, contents, utxo, batchUtxo, historyVars, query>>

LiveCleared ==
  /\ listed /\ LockFree
  /\ listed' = FALSE
  /\ UNCHANGED <<vars, contents, utxo, batchUtxo, historyVars, query>>

-----------------------------------------------------------------------------
(* Lookups of blocks.                                                      *)

Steps(from) == query.pc = from /\ UNCHANGED <<vars, rpcVars>>
Becomes(q)  == query' = q
AnswerWith(q, block, main, confirmations) ==
  [q EXCEPT !.answers = @ \cup {[of |-> block, main |-> main,
                                 confirmations |-> confirmations]}]

\* currentChain.size() without the lock: while the loop changes the vector
\* any size can be seen.
SizesSeen == IF LockFree THEN {Len(currentChain)} ELSE 0..MaxFile
Raced(q)  == [q EXCEPT !.raced = @ \/ ~LockFree]

\* The main chain is being rebuilt, or one branch replaced by another.
ChainChanges == pc \in {"restore", "rebuild"} \/ Reorganises

Begins(kind, at) == [NoQuery EXCEPT !.kind = kind, !.pc = at, !.start = currentChain,
                                    !.disturbed = IF LockFree THEN Misled
                                                   ELSE ChainChanges]

\* block_hash and getblock.
AskBlock ==
  /\ Steps("idle")
  /\ \E h \in Hash : Becomes([Begins("block", "find") EXCEPT !.hashes = <<h>>])

\* block_index: an index may be anything the client sends.
AskIndex ==
  /\ Steps("idle") /\ LockFree
  /\ \E i \in 0..MaxFile :
       /\ i < Len(blockIds)
       /\ Becomes([Begins("block", "find") EXCEPT !.hashes = <<blockIds[i + 1]>>])

\* block_height: the blocks of a height are collected, then looked up one by
\* one; blockHeights has each block of the tree.
AskHeight ==
  /\ Steps("idle") /\ LockFree
  /\ \E h \in 0..MaxFile :
       LET at == {b \in DOMAIN blocks : blocks[b].height = h} IN
       /\ at # {}
       /\ Becomes([Begins("block", "find") EXCEPT !.hashes = SetToSeq(at)])

\* getblockhash; the server binds the name getblockheight to it as well, so that
\* the handler of that name is never reached (abstractcacherserver.h:19).
AskHash ==
  /\ Steps("idle") /\ LockFree
  /\ \E i \in 1..Len(currentChain) :
       Becomes([Begins("hash", "done") EXCEPT !.seen = {currentChain[i]}])

FindBlock ==
  /\ Steps("find") /\ LockFree
  /\ LET h == query.hashes[1] IN
     IF h \in DOMAIN blocks
     THEN Becomes([query EXCEPT !.pc = "load", !.info = blocks[h]])
     ELSE Becomes([query EXCEPT !.pc = "done"])

\* The record in LevelDB; the confirmations are counted without the lock.
LoadBlock ==
  /\ Steps("load")
  /\ LET record == dbBlocks[query.info.index + 1]
         more   == Tail(query.hashes)
     IN \E size \in SizesSeen :
          Becomes(Raced(AnswerWith(
            [query EXCEPT !.hashes = more,
               !.pc = IF Has(record.hash, "shared") THEN "links"
                      ELSE IF more # <<>> THEN "find" ELSE "done"],
            record.hash, query.info.longestChain, size - query.info.height)))

\* getrawtx, tx_hash, tx_index.
AskTx == Steps("idle") /\ Becomes(Begins("tx", "links"))

\* txLoad: the blocks that the transaction is linked to, in LevelDB; was tells
\* whether one of them is of the main chain.
LinkedBlocks == {i \in 1..Len(dbBlocks) : Has(dbBlocks[i].hash, "shared")}
LoadLinks ==
  /\ Steps("links")
  /\ Becomes(AnswerWith([query EXCEPT !.pc = "convert", !.links = SetToSeq(LinkedBlocks),
                                      !.was = /\ ~query.disturbed
                                              /\ OnPath(currentChain, "shared")],
                        Shared, FALSE, 0))

\* convertTx: of the linked blocks one at most is on the main chain.
FromTip(b)  == Len(currentChain) - 1 - blocks[b].height
FromSize(b) == Len(currentChain) - blocks[b].height
ConvertLink ==
  /\ Steps("convert") /\ query.links # <<>> /\ LockFree
  /\ LET b    == blockIds[query.links[1]]
         next == [query EXCEPT !.links = Tail(@)]
     IN IF b \in DOMAIN blocks /\ blocks[b].longestChain
        THEN Becomes(AnswerWith([next EXCEPT !.answers = {a \in @ : a.of # Shared}],
                                Shared, TRUE, FromSize(b)))
        ELSE Becomes(next)

Converted ==
  /\ Steps("convert") /\ query.links = <<>>
  /\ Becomes([query EXCEPT !.pc = IF query.hashes = <<>> THEN "done" ELSE "find"])

\* getblocks: a client that asks for page after page, up to an empty one.
FromTheEnd == [i \in 1..Len(currentChain) |->
                 currentChain[Len(currentChain) + 1 - i]]
EveryOther(page) ==
  LET from == (PageSize + 1) * page
      n    == Len(currentChain) - from
  IN SubSeq(FromTheEnd, from + 1, from + (IF n < PageSize THEN n ELSE PageSize))
OfPage(page) ==
  LET from == PageSize * page
      n    == Len(currentChain) - from
  IN SubSeq(FromTheEnd, from + 1, from + (IF n < PageSize THEN n ELSE PageSize))
AskPages == Steps("idle") /\ LockFree /\ Becomes(Begins("pages", "page"))
GetPage ==
  /\ Steps("page") /\ LockFree
  /\ IF Len(currentChain) <= PageSize * query.arg
     THEN Becomes([query EXCEPT !.pc = "done"])
     ELSE Becomes([query EXCEPT !.arg = @ + 1, !.seen = @ \cup ToSet(OfPage(query.arg))])

-----------------------------------------------------------------------------
(* Queries about the address.                                              *)

\* getaddress, address_balance and address_unspent begin with the tip.
AskAddress ==
  /\ Steps("idle") /\ LockFree /\ currentChain # <<>>
  /\ \/ Becomes(Begins("address", "scan"))
     \/ \E c \in Confirmations :
          \/ Becomes([Begins("balance", "scan") EXCEPT !.arg = c])
          \/ Becomes([Begins("unspent", "outputs") EXCEPT !.arg = c])

\* getAddressOperations: one more than shown is read, the amounts of each are
\* the differences of totals, and the one more is dropped.  Of the first ones
\* of a page the totals are those of the chain.
Shorter(n, ops) == IF Len(ops) <= n THEN ops ELSE SubSeq(ops, 1, n)
Differences(ops) ==
  [i \in 1..Len(ops) |->
     LET before == IF i < Len(ops) THEN ops[i + 1] ELSE NoOperation
     IN [ops[i] EXCEPT !.input  = ops[i].total_input - before.total_input,
                       !.output = ops[i].total_output - before.total_output]]
PageCut(ops)   == Differences(Shorter(MaxOps, ops))
PageOf(ops)    == Shorter(MaxOps, Differences(Shorter(MaxOps + 1, ops)))

\* getAddressOperation: the last one of the blocks with enough confirmations.
ConfirmedPath(path, c) ==
  SubSeq(path, 1, Len(path) + 1 - (IF c = 0 THEN 1 ELSE c))
LatestOf(ops) == Shorter(1, ops)

BlocksOf(operations) ==
  SelectSeq(query.start, LAMBDA b : (Has(b, "own") /\ b \in operations)
                                      \/ (Has(b, "shared") /\ Shared \in operations))

\* The stored totals are right unless a flag was stale when they were made, and
\* the search is unless one is or a block left the chain.
Promised == ~misled /\ ~query.disturbed
NotPromised == Steps("scan") /\ ~Promised /\ Becomes(NoQuery)
Scan ==
  /\ Steps("scan") /\ LockFree /\ Promised
  /\ LET ops == IF query.kind = "address" THEN PageOf(OperationsOn(query.start))
                ELSE LatestOf(OperationsOn(ConfirmedPath(query.start, query.arg)))
         asksLive == query.kind = "address" \/ query.arg = 0
     IN Becomes([query EXCEPT !.ops = ops, !.fromChain = Len(ops),
                              !.pc = IF asksLive THEN "live" ELSE "done"])

\* processLiveTransactions, on top of the last operation or of zeroes; the
\* page keeps its size.
OnZeroes(ops) == <<Operation(Shared, NoOperation)>> \o ops
OnTop(ops)    == WithOperation(ops, Shared)
Shown(ops)    == Shorter(MaxOps, ops)
AddLive ==
  /\ Steps("live") /\ LockFree
  /\ LET ops   == IF listed THEN OnTop(query.ops) ELSE query.ops
         shown == Shown(ops)
     IN Becomes([query EXCEPT !.ops = shown, !.live = listed,
          !.pc = IF query.kind = "address" THEN "confirm" ELSE "done",
          !.hashes = BlocksOf({shown[i].of : i \in 1..Len(shown)})])

\* Each operation of the page that has a block.
ConfirmOperation ==
  /\ Steps("confirm") /\ query.hashes # <<>> /\ LockFree
  /\ LET b    == query.hashes[1]
         next == [query EXCEPT !.hashes = Tail(@)]
     IN IF b \in DOMAIN blocks
        THEN Becomes(AnswerWith(next, b, blocks[b].longestChain, FromSize(b)))
        ELSE Becomes(next)

Confirmed ==
  /\ Steps("confirm") /\ query.hashes = <<>>
  /\ Becomes([query EXCEPT !.pc = "done"])

\* What getaddress returns as its totals: none if there was no operation on the
\* chain, whatever is live.
TotalsReturned ==
  IF query.kind = "address" /\ query.fromChain = 0 THEN NoOperation ELSE Latest(query.ops)

\* address_unspent: the outputs of the index.  Sizes are unsigned, so that an
\* output above the end of the chain has very many confirmations.
EnoughOfSigned(size, h) == size - h >= query.arg
Enough(size, h)         == size - h + 1 < 0 \/ size - h + 1 >= query.arg
CollectOutputs ==
  /\ Steps("outputs")
  /\ \E size \in SizesSeen :
       Becomes(Raced([query EXCEPT
         !.seen = {o.of : o \in {p \in utxo : Enough(size, p.height)}},
         !.pc = IF query.arg = 0 THEN "pending" ELSE "done"]))

\* What live transactions spend is taken out, what they pay is put in.
WithPending(outputs) == (outputs \ {FirstBlock}) \cup {Shared}
AddPending ==
  /\ Steps("pending") /\ LockFree
  /\ Becomes([query EXCEPT !.pc = "done",
                           !.seen = IF listed THEN WithPending(@) ELSE @])

Returns == Steps("done") /\ Becomes(NoQuery)

-----------------------------------------------------------------------------
Ask == /\ pc # "down"
       /\ \/ AskBlock \/ AskIndex \/ AskHeight \/ AskHash \/ AskTx \/ AskPages
          \/ AskAddress

Rpc == \/ Ask \/ Returns
       \/ FindBlock \/ LoadBlock \/ LoadLinks \/ ConvertLink \/ Converted \/ GetPage
       \/ Scan \/ NotPromised \/ AddLive \/ ConfirmOperation \/ Confirmed
       \/ CollectOutputs \/ AddPending

RpcNext ==
  \/ BlockWritten \/ Stops \/ LoopGoesOn
  \/ BlockProcessed \/ BlockLeaves \/ BlockRejoins \/ Commits
  \/ LiveListed \/ LiveCleared \/ Rpc

RpcSpec == RpcInit /\ [][RpcNext]_allVars

-----------------------------------------------------------------------------
\* Types; and what a handler has copied of a block leads it to the record of
\* that block, though LevelDB is read after the lock is given up
\* (CacherServer.cpp:517-531).
RpcTypeOK ==
  /\ Len(contents) = Len(file)
  /\ \A b \in 1..Len(contents) : contents[b] \in Contents \cup {{"own"}}
  /\ \A o \in utxo \cup batchUtxo : o.of \in Hash \cup {Shared} /\ o.height < MaxFile
  /\ missed \subseteq ToSet(dbChain) /\ ToSet(dbChain) \subseteq Hash
  /\ {listed, misled} \subseteq BOOLEAN
  /\ DOMAIN query = DOMAIN NoQuery
  /\ query.pc = "load" => dbBlocks[query.info.index + 1].hash = query.hashes[1]
  /\ Len(query.ops) <= MaxOps

Answered(kinds) == query.pc = "done" /\ query.kind \in kinds /\ ~query.disturbed

\* Unless a block left the main chain meanwhile or a size was read during a
\* change: an answer says of a block that it is on the main chain if and only
\* if it is, and the confirmations are at least one and those of a moment of
\* the query; and the same of a transaction whose blocks are looked up one by
\* one, for the chain of when it was loaded (CacherServer.cpp:144-163,
\* 388-412, 514-539).  All blocks have the same bits, see FlagsCoverChain.
ConfirmationsOfChain ==
  LET at(b) == Len(Path[b]) - 1
      ofMoment(b, c) == /\ c >= 1 /\ c >= Len(query.start) - at(b)
                        /\ c <= Len(currentChain) - at(b)
  IN Answered({"block", "tx", "address"}) /\ ~query.raced =>
       \A a \in query.answers :
         IF a.of # Shared
         THEN /\ a.main <=> OnChain(a.of)
              /\ a.main => ofMoment(a.of, a.confirmations)
         ELSE /\ a.main <=> query.was
              /\ a.main => \E b \in ToSet(currentChain) :
                             Has(b, "shared") /\ ofMoment(b, a.confirmations)

\* A client that reads page after page up to an empty one, while blocks are
\* added, has seen every block of the chain it began with: blocks move to later
\* pages only (CacherServer.cpp:246-268).
PagesCoverChain == Answered({"pages"}) => ToSet(query.start) \subseteq query.seen

Value(outputs) ==
  2 * Cardinality({o \in outputs : o.of # Shared})
    + Cardinality({o \in outputs : o.of = Shared})

\* A balance is the value of the unspent outputs of the chain of the beginning
\* with as many confirmations, and of live ones; of a page no operation shows
\* twice, and the amounts of each are those of that operation, also of the last
\* one, whose predecessor is not shown.  Totals are zero if there are only live
\* operations (CacherServer.cpp:272-325, 350-372, 435-437, 766-788).  A
\* transaction that is listed though the chain has it is counted twice.
BalanceOfUnspent ==
  LET path == IF query.kind = "address" THEN query.start
              ELSE ConfirmedPath(query.start, query.arg)
  IN Answered({"address", "balance"}) /\ ~(query.live /\ OnPath(path, "shared")) =>
    LET outputs == UnspentOn(path)
        value   == IF query.live THEN Value({o \in outputs : o.of # FirstBlock}) + 1
                   ELSE Value(outputs)
        total   == TotalsReturned
    IN /\ IF query.kind = "address" /\ query.fromChain = 0
          THEN total = NoOperation
          ELSE total.total_output - total.total_input = value
       /\ query.kind = "address" =>
            \A i \in 1..Len(query.ops) :
              LET o == query.ops[i] IN
              /\ \A j \in 1..(i - 1) : query.ops[j].of # o.of
              /\ o.input = (IF o.of = Shared THEN 2 ELSE 0)
              /\ o.output = (IF o.of = Shared THEN 1 ELSE 2)

\* address_unspent lists for k confirmations what address_balance counts for
\* k - 1, unless the chain changed meanwhile (CacherServer.cpp:871 against
\* AddressOperations.cpp:66), and with live transactions what these leave; of
\* outputs that a missed block of the chain makes or spends nothing is said.  From
\* the second restart on it may be wrong: the first block after a restart becomes
\* the tip even if it is not the heaviest (main.cpp:371), and the next restart
\* goes back to the heaviest chain, but leaves the unspent outputs.
UnspentAsBalance ==
  Answered({"unspent"}) /\ starts < 2 /\ ~query.raced /\ ~query.committed =>
    LET one      == IF query.arg = 0 THEN 0 ELSE query.arg - 1
        counted  == ToSet(ConfirmedPath(query.start, one))
        outputs  == {o.of : o \in {p \in UnspentOn(query.start) :
                                    query.start[p.height + 1] \in counted}}
        lost     == Touched(missed \cap ToSet(query.start))
    IN \/ query.seen \ lost = outputs \ lost
       \/ query.arg = 0 /\ query.seen \ lost = WithPending(outputs) \ lost
=============================================================================

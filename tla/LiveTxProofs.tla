----------------------------- MODULE LiveTxProofs -----------------------------
(***************************************************************************)
(* For any transactions, blocks, failures and restarts: the lists of live  *)
(* transactions agree, and no transaction is broadcast twice.              *)
(***************************************************************************)
EXTENDS LiveTx, FiniteSetTheorems, SequenceTheorems, WellFoundedInduction, TLAPS

\* Of the thread: what it polled are transactions, and the one it works on is
\* not listed before it is added.
ThreadOK ==
  /\ known \subseteq Txs /\ polled \subseteq Txs
  /\ pc \in {"fetch", "process", "save", "add", "send"} => tx \in Txs
  /\ pc \in {"fetch", "process", "save", "add"} => tx \notin Listed

\* What is broadcast is stored, and what is stored is not broadcast again.
SentOK ==
  /\ sent \in [Txs -> Nat]
  /\ \A t \in Txs : sent[t] <= 1 /\ (sent[t] = 1 => t \in stored)
  /\ pc \in {"add", "send"} => tx \in stored
  /\ pc \in {"process", "save", "add", "send"} /\ needBroadcast => sent[tx] = 0

ListsOK ==
  /\ pendingTransactions \in Seq(Txs)
  /\ IsFiniteSet(Listed)
  /\ ListsAgree

LiveInv == ThreadOK /\ SentOK /\ ListsOK

threadListVars == <<known, polled, pc, tx, needBroadcast, stored, sent,
                    pendingTransactionIndices, pendingTransactions,
                    pendingTransactionsByAddress>>

\* Of bitcoind and of the import loop: a block comes after its parent, and only
\* blocks that were found are imported.
Found == [parent : Nat, txs : SUBSET Txs, bits : Nat, total : Nat]
BlocksOK ==
  /\ found \in Seq(Found) /\ Len(found) \in 1..MaxBlocks
  /\ \A b \in 1..Len(found) : found[b].parent < b
  /\ theirTip \in 1..Len(found)
  /\ tip \in 0..Len(found) /\ pendingPreviousBlock \in 0..Len(found)
  /\ IsFiniteSet(DOMAIN tree)
  /\ importing => Imported < Len(found)

\* What was polled is not in the chain of the tip the thread looks at, unless
\* the poll was behind, and then neither is what it works on and what it lists.
InTip     == ConfirmedAt[tip]
Announced == ConfirmedAt[pendingPreviousBlock]
Working   == pc \in {"fetch", "process", "save", "add", "send"}
PollOK ==
  /\ pc = "tip" /\ ~behind => polled \cap InTip = {}
  /\ pc \in {"announce", "clear"} /\ ~behind => polled \cap Announced = {}
  /\ pc = "list" \/ Working => (~listsBehind => polled \cap Announced = {})
  /\ Working /\ ~listsBehind => tx \notin Announced
  /\ pc \notin {"announce", "clear"} /\ ~listsBehind => Listed \cap Announced = {}

-----------------------------------------------------------------------------
LEMMA NoListsOK == NoLists => ListsOK' /\ Listed' = {}
<1> SUFFICES ASSUME NoLists PROVE ListsOK' /\ Listed' = {}
  OBVIOUS
<1>1. /\ Listed' = {}
      /\ pendingTransactions' = <<>> /\ pendingTransactionsByAddress' = {}
  BY DEF NoLists, Listed
<1>2. IsFiniteSet({}) /\ Cardinality({}) = 0
  BY FS_EmptySet
<1> QED
  BY <1>1, <1>2 DEF ListsOK, ListsAgree

LEMMA InvInit == Init => LiveInv
<1> SUFFICES ASSUME Init PROVE LiveInv
  OBVIOUS
<1>1. /\ Listed = {}
      /\ pendingTransactions = <<>> /\ pendingTransactionsByAddress = {}
  BY DEF Init, Listed
<1>2. IsFiniteSet({}) /\ Cardinality({}) = 0
  BY FS_EmptySet
<1>3. ListsOK
  BY <1>1, <1>2 DEF ListsOK, ListsAgree
<1>4. ThreadOK /\ SentOK
  BY DEF Init, ThreadOK, SentOK
<1> QED
  BY <1>3, <1>4 DEF LiveInv

\* The transaction is put at the end of the list, under its place.
LEMMA AddOK == LiveInv /\ Add => ListsOK'
<1> SUFFICES ASSUME LiveInv, Add PROVE ListsOK'
  OBVIOUS
<1> DEFINE place == Len(pendingTransactions) + 1
<1>1. /\ pc = "add" /\ tx \in Txs /\ tx \notin Listed
      /\ pendingTransactions \in Seq(Txs) /\ place \in Nat \ {0}
  BY DEF LiveInv, ThreadOK, ListsOK, Add
<1>2. /\ Listed' = Listed \cup {tx}
      /\ pendingTransactionIndices'[tx] = place
      /\ \A t \in Listed : pendingTransactionIndices'[t] = pendingTransactionIndices[t]
  BY <1>1 DEF Add, Listed
<1>3. pendingTransactions' = Append(pendingTransactions, tx)
  BY DEF Add
<1>4. /\ pendingTransactions' \in Seq(Txs)
      /\ Len(pendingTransactions') = place
      /\ pendingTransactions'[place] = tx
      /\ \A i \in 1..Len(pendingTransactions) :
           pendingTransactions'[i] = pendingTransactions[i]
  BY <1>1, <1>3
<1>5. IsFiniteSet(Listed') /\ Cardinality(Listed') = place
  BY <1>1, <1>2, FS_AddElement DEF LiveInv, ListsOK, ListsAgree
<1>6. pendingTransactionsByAddress' \subseteq 1..place
  <2>1. pendingTransactionsByAddress \subseteq 1..Len(pendingTransactions)
    BY DEF LiveInv, ListsOK, ListsAgree
  <2>2. pendingTransactionsByAddress' = pendingTransactionsByAddress \cup {place}
    BY DEF Add
  <2>3. Len(pendingTransactions) \in Nat
    BY <1>1
  <2>4. 1..Len(pendingTransactions) \subseteq 1..place /\ place \in 1..place
    BY <2>3
  <2> HIDE DEF place
  <2> QED
    BY <2>1, <2>2, <2>4
<1>7. \A t \in Listed' : /\ pendingTransactionIndices'[t] \in 1..place
                         /\ pendingTransactions'[pendingTransactionIndices'[t]] = t
  <2> SUFFICES ASSUME NEW t \in Listed'
               PROVE  /\ pendingTransactionIndices'[t] \in 1..place
                      /\ pendingTransactions'[pendingTransactionIndices'[t]] = t
    OBVIOUS
  <2>1. CASE t = tx
    BY <1>1, <1>2, <1>4, <2>1
  <2>2. CASE t # tx
    <3>1. t \in Listed
      BY <1>2, <2>2
    <3>2. /\ pendingTransactionIndices[t] \in 1..Len(pendingTransactions)
          /\ pendingTransactions[pendingTransactionIndices[t]] = t
      BY <3>1 DEF LiveInv, ListsOK, ListsAgree
    <3> QED
      BY <1>1, <1>2, <1>4, <3>1, <3>2
  <2> QED
    BY <2>1, <2>2
<1> QED
  BY <1>4, <1>5, <1>6, <1>7 DEF ListsOK, ListsAgree

LEMMA InvNext == LiveInv /\ [Next]_vars => LiveInv'
<1> SUFFICES ASSUME LiveInv, [Next]_vars PROVE LiveInv'
  OBVIOUS
<1> USE DEF LiveInv
<1>0. ASSUME UNCHANGED <<pendingTransactionIndices, pendingTransactions,
                         pendingTransactionsByAddress>>
      PROVE  ListsOK' /\ Listed' = Listed
  BY <1>0 DEF ListsOK, ListsAgree, Listed
<1>1. CASE TxArrives \/ BlockFound \/ BeginImport \/ EndOfFiles
  <2>1. /\ UNCHANGED <<polled, pc, tx, needBroadcast, stored, sent, listVars>>
        /\ known' \subseteq Txs
    BY <1>1 DEF TxArrives, BlockFound, BeginImport, EndOfFiles, theirVars,
                threadVars, historyVars, ThreadOK
  <2>2. ListsOK' /\ Listed' = Listed
    BY <1>0, <2>1 DEF listVars
  <2> QED
    BY <2>1, <2>2 DEF ThreadOK, SentOK
<1>2. CASE CommitBlock
  <2>1. /\ UNCHANGED <<known, polled, pc, tx, needBroadcast, sent,
                       pendingTransactionIndices, pendingTransactions>>
        /\ stored \subseteq stored'
        /\ pendingTransactionsByAddress' = {}
    BY <1>2 DEF CommitBlock, theirVars, threadVars
  <2>2. ListsOK' /\ Listed' = Listed
    BY <2>1 DEF ListsOK, ListsAgree, Listed
  <2> QED
    BY <2>1, <2>2 DEF ThreadOK, SentOK
<1>3. CASE PollFails \/ Crash
  <2>1. /\ UNCHANGED <<known, stored, sent>>
        /\ NoLists /\ pc' = "sleep" /\ polled' = {}
    BY <1>3 DEF PollFails, Crash, theirVars
  <2> QED
    BY <2>1, NoListsOK DEF ThreadOK, SentOK
<1>4. CASE Poll \/ TakeTip \/ Announce \/ PollEnds
  <2>1. /\ UNCHANGED <<known, tx, needBroadcast, stored, sent, listVars>>
        /\ polled' \subseteq Txs
        /\ pc' \in {"sleep", "tip", "announce", "clear", "list"}
    BY <1>4 DEF Poll, TakeTip, Announce, PollEnds, theirVars, historyVars,
                MemoryPool, ThreadOK
  <2>2. ListsOK'
    BY <1>0, <2>1 DEF listVars
  <2> QED
    BY <2>1, <2>2 DEF ThreadOK, SentOK
<1>5. CASE ClearLists
  <2>1. /\ UNCHANGED <<known, polled, stored, sent>> /\ NoLists /\ pc' = "list"
    BY <1>5 DEF ClearLists, theirVars
  <2> QED
    BY <2>1, NoListsOK DEF ThreadOK, SentOK
<1>6. CASE NextTx
  <2>1. /\ UNCHANGED <<known, needBroadcast, stored, sent, listVars>>
        /\ polled' \subseteq Txs
        /\ \/ pc' = "list"
           \/ pc' = "fetch" /\ tx' \in Txs \ Listed
    BY <1>6 DEF NextTx, ListedAlready, theirVars, historyVars, ThreadOK
  <2>2. ListsOK' /\ Listed' = Listed
    BY <1>0, <2>1 DEF listVars
  <2> QED
    BY <2>1, <2>2 DEF ThreadOK, SentOK
<1>7. CASE Fetch
  <2>1. /\ UNCHANGED <<known, polled, tx, stored, sent, listVars>>
        /\ pc = "fetch"
        /\ \/ pc' = "add" /\ tx \in stored /\ needBroadcast' = FALSE
           \/ pc' = "process" /\ tx \notin stored
    BY <1>7 DEF Fetch, theirVars, historyVars
  <2>2. ListsOK' /\ Listed' = Listed
    BY <1>0, <2>1 DEF listVars
  <2>3. tx \notin stored => sent[tx] = 0
    BY <2>1 DEF ThreadOK, SentOK
  <2> QED
    BY <2>1, <2>2, <2>3 DEF ThreadOK, SentOK
<1>8. CASE Process
  <2>1. /\ UNCHANGED <<known, polled, stored, sent, listVars>>
        /\ pc = "process"
        /\ \/ pc' = "save" /\ UNCHANGED <<tx, needBroadcast>>
           \/ pc' = "list"
    BY <1>8 DEF Process, SkipTx, theirVars, historyVars
  <2>2. ListsOK' /\ Listed' = Listed
    BY <1>0, <2>1 DEF listVars
  <2> QED
    BY <2>1, <2>2 DEF ThreadOK, SentOK
<1>9. CASE Save
  <2>1. /\ UNCHANGED <<known, polled, tx, needBroadcast, sent, listVars>>
        /\ pc = "save" /\ pc' = "add" /\ stored' = stored \cup {tx}
    BY <1>9 DEF Save, WithTx, theirVars, historyVars
  <2>2. ListsOK' /\ Listed' = Listed
    BY <1>0, <2>1 DEF listVars
  <2> QED
    BY <2>1, <2>2 DEF ThreadOK, SentOK
<1>10. CASE Add
  <2>1. /\ UNCHANGED <<known, polled, tx, needBroadcast, stored, sent>>
        /\ pc = "add" /\ pc' = "send"
    BY <1>10 DEF Add, theirVars, historyVars
  <2> QED
    BY <1>10, <2>1, AddOK DEF ThreadOK, SentOK
<1>11. CASE Send
  <2>1. /\ UNCHANGED <<known, polled, stored, listVars>>
        /\ pc = "send" /\ pc' = "list"
        /\ sent' = IF needBroadcast THEN [sent EXCEPT ![tx] = @ + 1] ELSE sent
    BY <1>11 DEF Send, SkipTx, theirVars
  <2>2. ListsOK'
    BY <1>0, <2>1 DEF listVars
  <2>3. tx \in Txs /\ tx \in stored /\ (needBroadcast => sent[tx] = 0)
    BY <2>1 DEF ThreadOK, SentOK
  <2> QED
    BY <2>1, <2>2, <2>3 DEF ThreadOK, SentOK
<1>12. CASE UNCHANGED vars
  <2>1. UNCHANGED threadListVars
    BY <1>12 DEF vars, theirVars, listVars, threadVars, historyVars, threadListVars
  <2>2. ListsOK' /\ Listed' = Listed
    BY <1>0, <2>1 DEF threadListVars
  <2> QED
    BY <2>1, <2>2 DEF threadListVars, ThreadOK, SentOK
<1> QED
  BY <1>1, <1>2, <1>3, <1>4, <1>5, <1>6, <1>7, <1>8, <1>9, <1>10, <1>11, <1>12
  DEF Next, Import, Live

LEMMA InvAlways == Spec => []LiveInv
<1> QED
  BY InvInit, InvNext, PTL DEF Spec

-----------------------------------------------------------------------------
(* What is confirmed on a branch.                                          *)

LEMMA LeastElement ==
  ASSUME NEW S, S \subseteq Nat, S # {}
  PROVE  \E m \in S : \A k \in S : m <= k
<1>1. PICK R : R = OpToRel(<, Nat)
  OBVIOUS
<1>2. IsWellFoundedOn(R, Nat)
  BY <1>1, NatLessThanWellFounded
<1>3. PICK x \in S : \A y \in S : ~ (<<y, x>> \in R)
  BY <1>2, WFMin
<1>4. \A y, z \in Nat : <<y, z>> \in R <=> y < z
  BY <1>1 DEF OpToRel
<1>5. \A y \in S : x <= y
  <2> TAKE y \in S
  <2>1. x \in Nat /\ y \in Nat /\ ~(y < x)
    BY <1>3, <1>4
  <2> QED
    BY <2>1
<1> QED
  BY <1>5

\* The parent of a block is an earlier one or none.
LEMMA BlockFacts ==
  ASSUME BlocksOK
  PROVE  /\ MaxBlocks \in Nat /\ Len(found) \in Nat /\ Len(found) <= MaxBlocks
         /\ Block \cup {Null} = 0..MaxBlocks
         /\ \A b \in 1..Len(found) :
              /\ found[b] \in Found
              /\ found[b].parent \in Nat /\ found[b].parent < b
<1>1. MaxBlocks \in Nat \ {0}
  BY LiveAssumption
<1>2. Len(found) \in Nat /\ Len(found) <= MaxBlocks
  BY <1>1 DEF BlocksOK
<1>3. ASSUME NEW b \in 1..Len(found)
      PROVE  /\ found[b] \in Found
             /\ found[b].parent \in Nat /\ found[b].parent < b
  <2>1. found[b] \in Found
    BY ElementOfSeq DEF BlocksOK
  <2> QED
    BY <2>1 DEF Found, BlocksOK
<1>4. Block \cup {Null} = 0..MaxBlocks
  BY <1>1 DEF Block, Null
<1> QED
  BY <1>1, <1>2, <1>3, <1>4

\* What is confirmed up to a block is what it holds and what is confirmed up to
\* its parent.  A block leads to the tip if it is the tip or its parent does.
ConfirmedRecursion ==
  /\ ConfirmedAt[0] = {}
  /\ \A b \in 1..Len(found) :
       ConfirmedAt[b] = found[b].txs \cup ConfirmedAt[found[b].parent]
LeadsRecursion ==
  /\ Leads[0] = FALSE
  /\ \A b \in 1..Len(found) : Leads[b] = (b = tip \/ Leads[found[b].parent])

LEMMA ConfirmedSteps == BlocksOK => ConfirmedRecursion
<1> SUFFICES ASSUME BlocksOK PROVE ConfirmedRecursion
  OBVIOUS
<1> DEFINE After(f, b)       == IF b = 0 \/ b > Len(found) THEN {}
                                ELSE found[b].txs \cup f[found[b].parent]
           IsConfirmed(f, n) == f = [b \in 0..n |-> After(f, b)]
           Bad               == {n \in 0..MaxBlocks : ~ \E f : IsConfirmed(f, n)}
<1>1. /\ MaxBlocks \in Nat /\ Len(found) \in Nat /\ Len(found) <= MaxBlocks
      /\ \A b \in 1..Len(found) : found[b].parent \in Nat /\ found[b].parent < b
  BY BlockFacts
<1>2. Bad = {}
  <2> SUFFICES ASSUME Bad # {} PROVE FALSE
    OBVIOUS
  <2>1. PICK m \in Bad : \A k \in Bad : m <= k
    <3> HIDE DEF IsConfirmed
    <3>1. Bad \subseteq Nat
      BY <1>1
    <3> HIDE DEF Bad
    <3> QED
      BY <3>1, LeastElement
  <2>2. m \in 0..MaxBlocks /\ ~ \E f : IsConfirmed(f, m)
    BY <2>1
  <2>3. CASE m = 0
    <3> DEFINE f == [b \in 0..0 |-> {}]
    <3>1. IsConfirmed(f, 0)
      OBVIOUS
    <3> QED
      BY <2>2, <2>3, <3>1
  <2>4. CASE m # 0
    <3>1. m \in 1..MaxBlocks /\ m - 1 \in 0..MaxBlocks /\ ~(m <= m - 1)
      BY <1>1, <2>2, <2>4
    <3>2. m - 1 \notin Bad
      <4> HIDE DEF Bad
      <4> QED
        BY <2>1, <3>1
    <3>3. PICK f : IsConfirmed(f, m - 1)
      BY <3>1, <3>2
    <3> DEFINE g == [b \in 0..m |-> IF b = m THEN After(f, m) ELSE f[b]]
    <3>4. ASSUME NEW b \in 0..m PROVE g[b] = After(g, b)
      <4>1. CASE b \in 1..Len(found)
        <5>1. found[b].parent \in 0..m /\ found[b].parent # m
          BY <1>1, <3>1, <4>1, SMTT(30)
        <5>2. g[found[b].parent] = f[found[b].parent]
          BY <5>1
        <5>3. After(g, b) = After(f, b)
          BY <5>2
        <5>4. g[b] = After(f, b)
          <6>1. b = m \/ b \in 0..(m - 1)
            BY <3>1
          <6> QED
            BY <3>3, <6>1
        <5> QED
          BY <5>3, <5>4
      <4>2. CASE b \notin 1..Len(found)
        <5>1. b = 0 \/ b > Len(found)
          BY <1>1, <3>1, <4>2
        <5>2. b = m \/ b \in 0..(m - 1)
          BY <3>1
        <5>3. After(f, b) = {} /\ After(g, b) = {}
          BY <5>1
        <5> QED
          BY <3>3, <5>2, <5>3
      <4> QED
        BY <4>1, <4>2
    <3>5. IsConfirmed(g, m)
      BY <3>4
    <3> QED
      BY <2>2, <3>5
  <2> QED
    BY <2>3, <2>4
<1>3. PICK f : IsConfirmed(f, MaxBlocks)
  <2>1. MaxBlocks \in 0..MaxBlocks
    BY <1>1
  <2> HIDE DEF IsConfirmed
  <2> QED
    BY <1>2, <2>1
<1>4. ConfirmedAt = [b \in 0..MaxBlocks |-> After(ConfirmedAt, b)]
  <2>1. Block \cup {Null} = 0..MaxBlocks
    BY BlockFacts
  <2> QED
    BY <1>3, <2>1, Zenon DEF ConfirmedAt, Null
<1>5. \A b \in 0..MaxBlocks : ConfirmedAt[b] = After(ConfirmedAt, b)
  <2> DEFINE c == [b \in 0..MaxBlocks |-> After(ConfirmedAt, b)]
  <2>1. \A b \in 0..MaxBlocks : c[b] = After(ConfirmedAt, b)
    OBVIOUS
  <2>2. ConfirmedAt = c
    BY <1>4
  <2> HIDE DEF c
  <2> QED
    BY <2>1, <2>2, Zenon
<1>6. /\ 0 \in 0..MaxBlocks
      /\ \A b \in 1..Len(found) : b \in 0..MaxBlocks /\ b # 0 /\ ~(b > Len(found))
  BY <1>1
<1> QED
  BY <1>5, <1>6, Zenon DEF ConfirmedRecursion

LEMMA LeadsSteps == BlocksOK => LeadsRecursion
<1> SUFFICES ASSUME BlocksOK PROVE LeadsRecursion
  OBVIOUS
<1> DEFINE After(f, b)   == IF b = 0 \/ b > Len(found) THEN FALSE
                            ELSE b = tip \/ f[found[b].parent]
           IsLeads(f, n) == f = [b \in 0..n |-> After(f, b)]
           Bad           == {n \in 0..MaxBlocks : ~ \E f : IsLeads(f, n)}
<1>1. /\ MaxBlocks \in Nat /\ Len(found) \in Nat /\ Len(found) <= MaxBlocks
      /\ \A b \in 1..Len(found) : found[b].parent \in Nat /\ found[b].parent < b
  BY BlockFacts
<1>2. Bad = {}
  <2> SUFFICES ASSUME Bad # {} PROVE FALSE
    OBVIOUS
  <2>1. PICK m \in Bad : \A k \in Bad : m <= k
    <3> HIDE DEF IsLeads
    <3>1. Bad \subseteq Nat
      BY <1>1
    <3> HIDE DEF Bad
    <3> QED
      BY <3>1, LeastElement
  <2>2. m \in 0..MaxBlocks /\ ~ \E f : IsLeads(f, m)
    BY <2>1
  <2>3. CASE m = 0
    <3> DEFINE f == [b \in 0..0 |-> FALSE]
    <3>1. IsLeads(f, 0)
      OBVIOUS
    <3> QED
      BY <2>2, <2>3, <3>1
  <2>4. CASE m # 0
    <3>1. m \in 1..MaxBlocks /\ m - 1 \in 0..MaxBlocks /\ ~(m <= m - 1)
      BY <1>1, <2>2, <2>4
    <3>2. m - 1 \notin Bad
      <4> HIDE DEF Bad
      <4> QED
        BY <2>1, <3>1
    <3>3. PICK f : IsLeads(f, m - 1)
      BY <3>1, <3>2
    <3> DEFINE g == [b \in 0..m |-> IF b = m THEN After(f, m) ELSE f[b]]
    <3>4. ASSUME NEW b \in 0..m PROVE g[b] = After(g, b)
      <4>1. CASE b \in 1..Len(found)
        <5>1. found[b].parent \in 0..m /\ found[b].parent # m
          BY <1>1, <3>1, <4>1, SMTT(30)
        <5>2. g[found[b].parent] = f[found[b].parent]
          BY <5>1
        <5>3. After(g, b) = After(f, b)
          BY <5>2, Zenon
        <5>4. g[b] = After(f, b)
          <6>1. b = m \/ b \in 0..(m - 1)
            BY <3>1
          <6> QED
            BY <3>3, <6>1
        <5> QED
          BY <5>3, <5>4
      <4>2. CASE b \notin 1..Len(found)
        <5>1. b = 0 \/ b > Len(found)
          BY <1>1, <3>1, <4>2
        <5>2. b = m \/ b \in 0..(m - 1)
          BY <3>1
        <5>3. After(f, b) = FALSE /\ After(g, b) = FALSE
          BY <5>1
        <5> QED
          BY <3>3, <5>2, <5>3
      <4> QED
        BY <4>1, <4>2
    <3>5. IsLeads(g, m)
      BY <3>4
    <3> QED
      BY <2>2, <3>5
  <2> QED
    BY <2>3, <2>4
<1>3. PICK f : IsLeads(f, MaxBlocks)
  <2>1. MaxBlocks \in 0..MaxBlocks
    BY <1>1
  <2> HIDE DEF IsLeads
  <2> QED
    BY <1>2, <2>1
<1>4. Leads = [b \in 0..MaxBlocks |-> After(Leads, b)]
  <2>1. Block \cup {Null} = 0..MaxBlocks
    BY BlockFacts
  <2> QED
    BY <1>3, <2>1, Zenon DEF Leads, Null
<1>5. \A b \in 0..MaxBlocks : Leads[b] = After(Leads, b)
  <2> DEFINE c == [b \in 0..MaxBlocks |-> After(Leads, b)]
  <2>1. \A b \in 0..MaxBlocks : c[b] = After(Leads, b)
    OBVIOUS
  <2>2. Leads = c
    BY <1>4
  <2> HIDE DEF c
  <2> QED
    BY <2>1, <2>2, Zenon
<1>6. /\ 0 \in 0..MaxBlocks
      /\ \A b \in 1..Len(found) : b \in 0..MaxBlocks /\ b # 0 /\ ~(b > Len(found))
  BY <1>1
<1> QED
  BY <1>5, <1>6, Zenon DEF LeadsRecursion

\* A branch that leads to the tip confirms what the chain of the tip does.
LEMMA LeadsConfirms ==
  ASSUME BlocksOK, NEW b \in 1..Len(found), Leads[b]
  PROVE  InTip \subseteq ConfirmedAt[b]
<1> DEFINE Bad == {k \in 0..Len(found) : Leads[k] /\ ~(ConfirmedAt[tip] \subseteq ConfirmedAt[k])}
<1>1. Bad = {}
  <2> SUFFICES ASSUME Bad # {} PROVE FALSE
    OBVIOUS
  <2>1. PICK m \in Bad : \A k \in Bad : m <= k
    <3>1. Bad \subseteq Nat
      OBVIOUS
    <3> HIDE DEF Bad
    <3> QED
      BY <3>1, LeastElement
  <2>2. /\ m \in 1..Len(found) /\ Leads[m] /\ m # tip
        /\ ~(ConfirmedAt[tip] \subseteq ConfirmedAt[m])
    <3>1. m \in 0..Len(found) /\ Leads[m] /\ ~(ConfirmedAt[tip] \subseteq ConfirmedAt[m])
      BY <2>1
    <3>2. m # 0
      BY <3>1, LeadsSteps DEF LeadsRecursion
    <3> QED
      BY <3>1, <3>2, BlockFacts
  <2>3. PICK p : p = found[m].parent
    OBVIOUS
  <2>4. p \in 0..Len(found) /\ p < m /\ m \in Nat
    BY <2>2, <2>3, BlockFacts
  <2>5. Leads[p] /\ ConfirmedAt[p] \subseteq ConfirmedAt[m]
    <3>1. Leads[m] = (m = tip \/ Leads[p])
      BY <2>2, <2>3, LeadsSteps, Zenon DEF LeadsRecursion
    <3>2. ConfirmedAt[m] = found[m].txs \cup ConfirmedAt[p]
      BY <2>2, <2>3, ConfirmedSteps, Zenon DEF ConfirmedRecursion
    <3> QED
      BY <2>2, <3>1, <3>2
  <2>6. p \in Bad
    BY <2>2, <2>4, <2>5
  <2> HIDE DEF Bad
  <2> QED
    BY <2>1, <2>4, <2>6
<1>2. b \in 0..Len(found)
  BY BlockFacts
<1> QED
  BY <1>1, <1>2 DEF InTip

\* What is confirmed up to a block does not change when others are found.
LEMMA ConfirmedKept ==
  ASSUME BlocksOK, BlocksOK', Len(found) <= Len(found'),
         \A b \in 1..Len(found) : found'[b] = found[b]
  PROVE  \A b \in 0..Len(found) : ConfirmedAt'[b] = ConfirmedAt[b]
<1>1. PICK c : c = ConfirmedAt
  OBVIOUS
<1>2. PICK d : d = ConfirmedAt'
  OBVIOUS
<1>3. PICK n : n = Len(found)
  OBVIOUS
<1>4. /\ n \in Nat
      /\ \A b \in 1..n : found[b].parent \in Nat /\ found[b].parent < b
  BY <1>3, BlockFacts
<1>5. c[0] = {} /\ \A b \in 1..n : c[b] = found[b].txs \cup c[found[b].parent]
  BY <1>1, <1>3, ConfirmedSteps, Zenon DEF ConfirmedRecursion
<1>6. d[0] = {} /\ \A b \in 1..n : d[b] = found[b].txs \cup d[found[b].parent]
  <2>1. /\ ConfirmedAt'[0] = {}
        /\ \A b \in 1..Len(found') :
             ConfirmedAt'[b] = found'[b].txs \cup ConfirmedAt'[found'[b].parent]
    <3>1. BlocksOK' => ConfirmedRecursion'
      BY ConfirmedSteps, PTL
    <3> QED
      BY <3>1, Zenon DEF ConfirmedRecursion
  <2>2. \A b \in 1..n : b \in 1..Len(found') /\ found'[b] = found[b]
    BY <1>3, <1>4 DEF BlocksOK
  <2> QED
    BY <1>2, <2>1, <2>2, Zenon
<1> DEFINE Bad == {k \in 0..n : d[k] # c[k]}
<1>7. Bad = {}
  <2> SUFFICES ASSUME Bad # {} PROVE FALSE
    OBVIOUS
  <2>1. PICK m \in Bad : \A k \in Bad : m <= k
    <3>1. Bad \subseteq Nat
      BY <1>4
    <3> HIDE DEF Bad
    <3> QED
      BY <3>1, LeastElement
  <2>2. m \in 1..n /\ d[m] # c[m]
    <3>1. m \in 0..n /\ d[m] # c[m]
      BY <2>1
    <3>2. m # 0
      BY <1>5, <1>6, <3>1
    <3> QED
      BY <1>4, <3>1, <3>2
  <2>3. PICK p : p = found[m].parent
    OBVIOUS
  <2>4. p \in 0..n /\ p < m /\ m \in Nat
    BY <1>4, <2>2, <2>3
  <2>5. d[p] # c[p]
    BY <1>5, <1>6, <2>2, <2>3, Zenon
  <2>6. p \in Bad
    BY <2>4, <2>5
  <2> HIDE DEF Bad
  <2> QED
    BY <2>1, <2>4, <2>6
<1> QED
  BY <1>1, <1>2, <1>3, <1>7

-----------------------------------------------------------------------------
(* The blocks, the tip and the polls.                                      *)

LEMMA BlocksInit == Init => BlocksOK
<1> SUFFICES ASSUME Init PROVE BlocksOK
  OBVIOUS
<1>1. /\ found = <<[parent |-> 0, txs |-> {}, bits |-> 1, total |-> 1]>>
      /\ theirTip = 1 /\ tip = 0 /\ pendingPreviousBlock = 0 /\ importing = FALSE
      /\ tree = [b \in {} |-> [parent |-> Null, total |-> 0]]
  BY DEF Init, Chain!Init, Null
<1>2. found \in Seq(Found) /\ Len(found) = 1 /\ found[1].parent = 0
  <2>1. [parent |-> 0, txs |-> {}, bits |-> 1, total |-> 1] \in Found
    BY DEF Found
  <2> QED
    BY <1>1, <2>1
<1>3. IsFiniteSet(DOMAIN tree)
  <2>1. DOMAIN tree = {}
    BY <1>1
  <2> QED
    BY <2>1, FS_EmptySet
<1>4. MaxBlocks \in Nat \ {0}
  BY LiveAssumption
<1>5. \A b \in 1..Len(found) : found[b].parent < b
  BY <1>2
<1> QED
  BY <1>1, <1>2, <1>3, <1>4, <1>5 DEF BlocksOK

LEMMA BlocksFound ==
  ASSUME LiveInv, BlocksOK, BlockFound
  PROVE  /\ BlocksOK' /\ Len(found) <= Len(found')
         /\ \A b \in 1..Len(found) : found'[b] = found[b]
<1>1. PICK parent \in 1..Len(found), bits \in Bits, txs \in SUBSET known :
        LET new == [parent |-> parent, txs |-> txs, bits |-> bits,
                    total |-> found[parent].total + bits] IN
        /\ found' = Append(found, new)
        /\ theirTip' = IF new.total > found[theirTip].total THEN Len(found') ELSE theirTip
  BY DEF BlockFound
<1> DEFINE new == [parent |-> parent, txs |-> txs, bits |-> bits,
                   total |-> found[parent].total + bits]
<1>2. /\ Len(found) < MaxBlocks /\ MaxBlocks \in Nat
      /\ UNCHANGED <<tip, pendingPreviousBlock, tree, importing>>
  BY LiveAssumption DEF BlockFound, chainVars
<1>3. Len(found) \in Nat /\ found \in Seq(Found) /\ Len(found) > 0
  BY DEF BlocksOK
<1>4. new \in Found
  <2>1. found[parent].total \in Nat /\ bits \in Nat /\ parent \in Nat
    BY BlockFacts, LiveAssumption DEF Found
  <2>2. txs \in SUBSET Txs
    BY DEF LiveInv, ThreadOK
  <2> QED
    BY <2>1, <2>2 DEF Found
<1>5. found' = Append(found, new)
      /\ (theirTip' = Len(found') \/ theirTip' = theirTip)
  BY <1>1
<1> HIDE DEF new
<1>6. /\ found' \in Seq(Found) /\ Len(found') = Len(found) + 1
      /\ found'[Len(found) + 1] = new
      /\ \A b \in 1..Len(found) : found'[b] = found[b]
  BY <1>3, <1>4, <1>5
<1>7. \A b \in 1..Len(found') : found'[b].parent < b
  <2> SUFFICES ASSUME NEW b \in 1..Len(found') PROVE found'[b].parent < b
    OBVIOUS
  <2>1. CASE b = Len(found) + 1
    <3>1. new.parent = parent /\ parent \in Nat /\ parent <= Len(found)
      BY <1>3 DEF new
    <3> QED
      BY <1>3, <1>6, <2>1, <3>1
  <2>2. CASE b # Len(found) + 1
    <3>1. b \in 1..Len(found)
      BY <1>3, <1>6, <2>2
    <3> QED
      BY <1>6, <3>1 DEF BlocksOK
  <2> QED
    BY <2>1, <2>2
<1>8. /\ Len(found') \in 1..MaxBlocks
      /\ theirTip' \in 1..Len(found')
      /\ tip' \in 0..Len(found') /\ pendingPreviousBlock' \in 0..Len(found')
  BY <1>2, <1>3, <1>5, <1>6 DEF BlocksOK
<1>9. /\ IsFiniteSet(DOMAIN tree') /\ (importing' => Imported' < Len(found'))
  <2>1. IsFiniteSet(DOMAIN tree) /\ Imported \in Nat
    BY FS_CardinalityType DEF BlocksOK, Imported
  <2>2. Imported' = Imported /\ DOMAIN tree' = DOMAIN tree
    BY <1>2 DEF Imported
  <2>3. importing => Imported < Len(found)
    BY DEF BlocksOK
  <2> QED
    BY <1>2, <1>3, <1>6, <2>1, <2>2, <2>3
<1>10. BlocksOK'
  BY <1>6, <1>7, <1>8, <1>9 DEF BlocksOK
<1> QED
  BY <1>3, <1>6, <1>10

LEMMA BlocksCommit == BlocksOK /\ CommitBlock => BlocksOK'
<1> SUFFICES ASSUME BlocksOK, CommitBlock PROVE BlocksOK'
  OBVIOUS
<1>1. /\ UNCHANGED <<found, theirTip, pendingPreviousBlock>>
      /\ importing /\ importing' = FALSE
  BY DEF CommitBlock, theirVars
<1> DEFINE b == Imported + 1
<1>2. /\ DOMAIN tree' = DOMAIN tree \cup {b}
      /\ tip' = b \/ tip' = tip
  BY DEF CommitBlock, Chain!Learn
<1>3. Imported \in Nat /\ IsFiniteSet(DOMAIN tree) /\ Imported < Len(found)
  BY <1>1, FS_CardinalityType DEF BlocksOK, Imported
<1>4. b \in 0..Len(found)
  BY <1>3 DEF BlocksOK
<1> HIDE DEF b
<1>5. IsFiniteSet(DOMAIN tree')
  BY <1>2, <1>3, FS_AddElement
<1>6. tip' \in 0..Len(found)
  BY <1>2, <1>4 DEF BlocksOK
<1> QED
  BY <1>1, <1>5, <1>6 DEF BlocksOK

\* The steps that leave the blocks and the tips alone.
Steady == UNCHANGED <<found, theirTip, tip, pendingPreviousBlock, tree, importing>>

LEMMA BlocksSteady ==
  ASSUME BlocksOK, UNCHANGED <<found, theirTip, tip, tree>>,
         pendingPreviousBlock' \in {0, tip, pendingPreviousBlock},
         importing' => Imported < Len(found)
  PROVE  BlocksOK'
<1>1. Imported' = Imported
  BY DEF Imported
<1>2. pendingPreviousBlock' \in 0..Len(found)
  BY BlockFacts DEF BlocksOK
<1> QED
  BY <1>1, <1>2 DEF BlocksOK

LEMMA BlocksNext == LiveInv /\ BlocksOK /\ [Next]_vars => BlocksOK'
<1> SUFFICES ASSUME LiveInv, BlocksOK, [Next]_vars PROVE BlocksOK'
  OBVIOUS
<1>1. CASE BlockFound
  BY <1>1, BlocksFound
<1>2. CASE CommitBlock
  BY <1>2, BlocksCommit
<1>3. CASE BeginImport
  <2>1. /\ UNCHANGED <<found, theirTip, tip, tree, pendingPreviousBlock>>
        /\ Imported < Len(found)
    BY <1>3 DEF BeginImport, theirVars
  <2> QED
    BY <2>1, BlocksSteady
<1>4. CASE TakeTip
  <2>1. /\ UNCHANGED <<found, theirTip, tip, tree, importing>>
        /\ pendingPreviousBlock' = tip
    BY <1>4 DEF TakeTip, theirVars, chainVars
  <2> QED
    BY <2>1, BlocksSteady DEF BlocksOK
<1>5. CASE Crash
  <2>1. /\ UNCHANGED <<found, theirTip, tip, tree>>
        /\ pendingPreviousBlock' = 0 /\ importing' = FALSE
    BY <1>5 DEF Crash, theirVars, Null
  <2> QED
    BY <2>1, BlocksSteady
<1>6. ASSUME \/ TxArrives \/ EndOfFiles \/ PollFails \/ Poll \/ Announce \/ ClearLists
             \/ NextTx \/ PollEnds \/ Fetch \/ Process \/ Save \/ Add \/ Send
             \/ UNCHANGED vars
      PROVE  Steady
  BY <1>6 DEF TxArrives, EndOfFiles, PollFails, Poll, Announce, ClearLists, NextTx,
              PollEnds, Fetch, Process, Save, Add, Send, vars, theirVars, chainVars, Steady
<1>7. CASE Steady
  BY <1>7, BlocksSteady DEF Steady, BlocksOK
<1> QED
  BY <1>1, <1>2, <1>3, <1>4, <1>5, <1>6, <1>7 DEF Next, Import, Live

LEMMA ConfirmedSame == UNCHANGED found => ConfirmedAt' = ConfirmedAt
  BY DEF ConfirmedAt

LEMMA PollInit == Init => PollOK
<1> SUFFICES ASSUME Init PROVE PollOK
  OBVIOUS
<1>1. pc = "sleep" /\ Listed = {}
  BY DEF Init, Listed
<1> QED
  BY <1>1 DEF PollOK, Working

\* A step that touches neither the thread nor the lists nor what is confirmed.
LEMMA PollSame ==
  ASSUME PollOK, Listed' = Listed, Announced' = Announced,
         UNCHANGED <<pc, polled, tx, behind, listsBehind>>, pc = "tip" => InTip' = InTip
  PROVE  PollOK'
BY DEF PollOK, Working

\* A step of the thread that keeps the tips.
LEMMA TipsSame ==
  ASSUME UNCHANGED <<found, tip, pendingPreviousBlock>>
  PROVE  InTip' = InTip /\ Announced' = Announced
BY ConfirmedSame DEF InTip, Announced

LEMMA PollBlockFound == LiveInv /\ BlocksOK /\ PollOK /\ BlockFound => PollOK'
<1> SUFFICES ASSUME LiveInv, BlocksOK, PollOK, BlockFound PROVE PollOK'
  OBVIOUS
<1>1. UNCHANGED <<tip, pendingPreviousBlock, pendingTransactionIndices, pc, polled, tx,
                  behind, listsBehind>>
  BY DEF BlockFound, chainVars, listVars, threadVars, historyVars
<1>2. /\ BlocksOK' /\ Len(found) <= Len(found')
      /\ \A b \in 1..Len(found) : found'[b] = found[b]
  BY BlocksFound
<1>3. \A b \in 0..Len(found) : ConfirmedAt'[b] = ConfirmedAt[b]
  BY <1>2, ConfirmedKept
<1>4. InTip' = InTip /\ Announced' = Announced
  BY <1>1, <1>3 DEF InTip, Announced, BlocksOK
<1>5. Listed' = Listed
  BY <1>1 DEF Listed
<1> QED
  BY <1>1, <1>4, <1>5, PollSame

\* The tip may move while the thread is between the poll and its look at it.
LEMMA PollCommit == PollOK /\ CommitBlock => PollOK'
<1> SUFFICES ASSUME PollOK, CommitBlock PROVE PollOK'
  OBVIOUS
<1>1. /\ UNCHANGED <<found, pendingPreviousBlock, pendingTransactionIndices, pc, polled,
                     tx, listsBehind>>
      /\ behind' = (behind \/ (pc = "tip" /\ tip' # tip))
  BY DEF CommitBlock, theirVars, threadVars
<1>2. Listed' = Listed /\ Announced' = Announced /\ (tip' = tip => InTip' = InTip)
  BY <1>1, ConfirmedSame DEF Listed, Announced, InTip
<1>3. pc = "tip" /\ ~behind' => polled' \cap InTip' = {}
  BY <1>1, <1>2 DEF PollOK
<1> QED
  BY <1>1, <1>2, <1>3 DEF PollOK, Working

\* What is polled is not in the chain that bitcoind is on, nor, if that leads to
\* the tip, in the chain of the tip.
LEMMA PollPoll == BlocksOK /\ PollOK /\ Poll => PollOK'
<1> SUFFICES ASSUME BlocksOK, PollOK, Poll PROVE PollOK'
  OBVIOUS
<1>1. /\ UNCHANGED <<found, tip, pendingPreviousBlock, pendingTransactionIndices, listsBehind>>
      /\ pc = "sleep" /\ pc' = "tip"
      /\ polled' = known \ ConfirmedAt[theirTip] /\ behind' = ~Leads[theirTip]
  BY DEF Poll, theirVars, chainVars, listVars, MemoryPool
<1>2. Listed' = Listed /\ InTip' = InTip /\ Announced' = Announced
  BY <1>1, TipsSame DEF Listed
<1>3. ~behind' => InTip \subseteq ConfirmedAt[theirTip]
  BY <1>1, LeadsConfirms DEF BlocksOK
<1> QED
  BY <1>1, <1>2, <1>3 DEF PollOK, Working

LEMMA PollTakeTip == PollOK /\ TakeTip => PollOK'
<1> SUFFICES ASSUME PollOK, TakeTip PROVE PollOK'
  OBVIOUS
<1>1. /\ UNCHANGED <<found, tip, pendingTransactionIndices, polled, tx, behind>>
      /\ pendingPreviousBlock' = tip
      /\ listsBehind' = (listsBehind \/ behind)
      /\ pc = "tip"
      /\ pc' = "announce" \/ (pc' = "list" /\ pendingPreviousBlock = tip)
  BY DEF TakeTip, IsNew, theirVars, chainVars, listVars
<1>2. Listed' = Listed /\ Announced' = InTip
      /\ (pendingPreviousBlock = tip => Announced' = Announced)
  BY <1>1, ConfirmedSame DEF Listed, Announced, InTip
<1> QED
  BY <1>1, <1>2 DEF PollOK, Working

\* Every other step of the thread: it moves on with part of what it polled, or
\* forgets all it listed.
LEMMA PollNext == LiveInv /\ BlocksOK /\ PollOK /\ [Next]_vars => PollOK'
<1> SUFFICES ASSUME LiveInv, BlocksOK, PollOK, [Next]_vars PROVE PollOK'
  OBVIOUS
<1>1. CASE TxArrives \/ BeginImport \/ EndOfFiles \/ UNCHANGED vars
  <2>1. UNCHANGED <<found, tip, pendingPreviousBlock, pendingTransactionIndices, pc,
                    polled, tx, behind, listsBehind>>
    BY <1>1 DEF TxArrives, BeginImport, EndOfFiles, vars, theirVars, chainVars, listVars,
                threadVars, historyVars
  <2>2. Listed' = Listed
    BY <2>1 DEF Listed
  <2> QED
    BY <2>1, <2>2, TipsSame, PollSame
<1>2. CASE PollFails \/ Crash
  <2>1. NoLists /\ pc' = "sleep"
    BY <1>2 DEF PollFails, Crash
  <2>2. Listed' = {}
    BY <2>1, NoListsOK
  <2> QED
    BY <2>1, <2>2 DEF PollOK, Working
<1>3. CASE Announce
  <2>1. /\ UNCHANGED <<found, tip, pendingPreviousBlock, pendingTransactionIndices,
                       polled, tx, behind, listsBehind>>
        /\ pc = "announce" /\ pc' = "clear"
    BY <1>3 DEF Announce, theirVars, chainVars, listVars, historyVars
  <2>2. Announced' = Announced
    BY <2>1, TipsSame
  <2> QED
    BY <2>1, <2>2 DEF PollOK, Working
<1>4. CASE ClearLists
  <2>1. /\ UNCHANGED <<found, tip, pendingPreviousBlock, polled, tx, behind>>
        /\ pc = "clear" /\ pc' = "list" /\ NoLists /\ listsBehind' = behind
    BY <1>4 DEF ClearLists, theirVars, chainVars
  <2>2. Announced' = Announced /\ Listed' = {}
    BY <2>1, TipsSame, NoListsOK
  <2> QED
    BY <2>1, <2>2 DEF PollOK, Working
<1>5. CASE NextTx
  <2>1. /\ UNCHANGED <<found, tip, pendingPreviousBlock, pendingTransactionIndices,
                       behind, listsBehind>>
        /\ pc = "list" /\ polled' \subseteq polled
        /\ \/ pc' = "list"
           \/ pc' = "fetch" /\ tx' \in polled
    BY <1>5 DEF NextTx, theirVars, chainVars, listVars, historyVars
  <2>2. Announced' = Announced /\ Listed' = Listed
    BY <2>1, TipsSame DEF Listed
  <2> QED
    BY <2>1, <2>2 DEF PollOK, Working
<1>6. CASE PollEnds \/ Fetch \/ Process \/ Save \/ Send
  <2>1. /\ UNCHANGED <<found, tip, pendingPreviousBlock, pendingTransactionIndices,
                       polled, behind, listsBehind>>
        /\ pc \in {"list", "fetch", "process", "save", "send"}
        /\ \/ pc' \in {"sleep", "list"}
           \/ Working /\ pc' \in {"process", "save", "add"} /\ UNCHANGED tx
    BY <1>6 DEF PollEnds, Fetch, Process, SkipTx, Save, Send, Working, theirVars,
                chainVars, listVars, historyVars
  <2>2. Announced' = Announced /\ Listed' = Listed
    BY <2>1, TipsSame DEF Listed
  <2> QED
    BY <2>1, <2>2 DEF PollOK, Working
<1>7. CASE Add
  <2>1. /\ UNCHANGED <<found, tip, pendingPreviousBlock, polled, tx, behind, listsBehind>>
        /\ pc = "add" /\ pc' = "send"
        /\ Listed' = Listed \cup {tx}
    BY <1>7 DEF Add, Listed, theirVars, chainVars, historyVars
  <2>2. Announced' = Announced
    BY <2>1, TipsSame
  <2> QED
    BY <2>1, <2>2 DEF PollOK, Working
<1> QED
  BY <1>1, <1>2, <1>3, <1>4, <1>5, <1>6, <1>7, PollBlockFound, PollCommit, PollPoll,
     PollTakeTip
  DEF Next, Import, Live

LEMMA PollAlways == Spec => [](LiveInv /\ BlocksOK /\ PollOK)
<1> QED
  BY InvInit, BlocksInit, PollInit, InvNext, BlocksNext, PollNext, PTL DEF Spec

-----------------------------------------------------------------------------
\* Whatever blocks, failures and restarts come in between, RPC threads and
\* processTransaction find in the list what the index and the places by address
\* say, and each transaction once (BitcoinLiveTX.cpp:80-99 and 145-172).
THEOREM ListsAlwaysAgree == Spec => []ListsAgree
<1>1. LiveInv => ListsAgree
  BY DEF LiveInv, ListsOK
<1> QED
  BY <1>1, InvAlways, PTL

\* No transaction is broadcast twice, across any number of restarts
\* (BitcoinLiveTX.cpp:120-142 and 174-190).
THEOREM NeverSentTwice == Spec => []SentOnce
<1>1. LiveInv => SentOnce
  BY DEF LiveInv, SentOK, SentOnce
<1> QED
  BY <1>1, InvAlways, PTL

\* Whatever blocks, branches, failures and restarts come in between: once the
\* thread has looked at the tip no transaction of its chain is listed as live,
\* unless the poll was behind (BitcoinLiveTX.cpp:54-99).
THEOREM ListedAlwaysUnconfirmed == Spec => []LiveUnconfirmed
<1>1. PollOK => LiveUnconfirmed
  BY DEF PollOK, LiveUnconfirmed, Announced
<1> QED
  BY <1>1, PollAlways, PTL
=============================================================================

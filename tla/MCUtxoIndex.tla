----------------------------- MODULE MCUtxoIndex ------------------------------
EXTENDS UtxoIndex

\* The two values of a header's bits.
TwoBits == {1, 3}

Never == {}

\* Every output is spent by one transaction.
OneSpender == {0}

\* Up to four blocks of any shape, or these seven: payment p is in blocks 4 and
\* 5, on two branches; block 6 spends it, on top of block 5; and block 7 takes
\* the place of block 6, when the place of block 4 is beyond the end of the
\* main chain.
ForkedFile ==
  << [previous |-> 0, bits |-> 1], [previous |-> 1, bits |-> 1],
     [previous |-> 2, bits |-> 1], [previous |-> 3, bits |-> 1],
     [previous |-> 1, bits |-> 3], [previous |-> 5, bits |-> 1],
     [previous |-> 5, bits |-> 3] >>
ForkedTxs ==
  LET p == <<1, 0>>
  IN << << <<1>> >>, << <<2>> >>, << <<3>> >>, << <<4>>, p >>,
        << <<5>>, p >>, << <<6>>, Append(p, 0) >>, << <<7>> >> >>

ForkedBlock ==
  LET n == Len(file)
  IN /\ n \in 4..(Len(ForkedFile) - 1)
     /\ file = SubSeq(ForkedFile, 1, n) /\ txs = SubSeq(ForkedTxs, 1, n)
     /\ file' = SubSeq(ForkedFile, 1, n + 1) /\ txs' = SubSeq(ForkedTxs, 1, n + 1)

\* UtxoNext, with fewer blocks.
FewBlocksNext ==
  \/ Len(file) < 4 /\ ValidBlockArrives
  \/ ForkedBlock /\ ValidBlockArrives
  \/ CrashWithBatch
  \/ ReadTransactions \/ ProcessTransaction \/ CommitProcessed
  \/ UndoTransactions \/ RedoTransactions \/ WriteBatch
  \/ NoTransactions

FewBlocksSpec == UtxoInit /\ [][FewBlocksNext]_allVars
=============================================================================

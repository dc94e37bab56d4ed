------------------------------- MODULE MCLiveTx -------------------------------
EXTENDS LiveTx

CONSTANTS tx1, tx2

\* A transaction and one that spends of it.
Chained == [t \in {tx1, tx2} |-> IF t = tx2 THEN tx1 ELSE NoTx]

\* Blocks of two weights: with three blocks the last can switch the chain.
OneTwo == {1, 2}
=============================================================================

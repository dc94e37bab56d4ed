-------------------------------- MODULE MCTxIds --------------------------------
EXTENDS TxIds

CONSTANTS a, b, c

\* a is a reward, b spends its output, and c that of b.
ThreeTxs    == {a, b, c}
ChainOfTxs  == [h \in ThreeTxs |-> CASE h = a -> NoHash [] h = b -> a [] h = c -> b]

\* What the second half of an id can be: that of a larger one.
LargeId == {5}
=============================================================================

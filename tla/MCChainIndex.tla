---------------------------- MODULE MCChainIndex ------------------------------
EXTENDS ChainIndexProperties

\* The values of a header's bits: all alike, and two of them.
OneBits == {1}
TwoBits == {1, 3}

Never       == {}
SomeRescans == {0, 1, 2, 3}
=============================================================================

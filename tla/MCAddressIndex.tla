---------------------------- MODULE MCAddressIndex -----------------------------
EXTENDS AddressIndex

\* The values of a header's bits: all alike.
OneBits == {1}

Never == {}

\* A block touches the address in up to two transactions.
UpToTwo == 0..2

\* A page of operations with one more, and a balance.
Page     == [limit |-> 3, confirmations |-> 0]
Balance  == [limit |-> 1, confirmations |-> 2]

AllRequests == {Page, Balance}
=============================================================================

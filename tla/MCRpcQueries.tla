----------------------------- MODULE MCRpcQueries -----------------------------
EXTENDS RpcQueries

OneBits == {1}
Never   == {}

\* A block after the first pays to the address, has the shared transaction, or
\* has nothing of the address.
OneOfTwo == {{}, {"own"}, {"shared"}}
UpToThree == {0, 3}
=============================================================================

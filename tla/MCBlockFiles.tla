----------------------------- MODULE MCBlockFiles ------------------------------
EXTENDS BlockFiles

\* Files that grow with each write, and files allocated for two blocks.
NoneOrTwo == {0, 2 * Pieces}
=============================================================================

---------------------------- MODULE MCConnections ----------------------------
EXTENDS Connections

Threads == {Live, Push}
\* Two polls and one transaction passed on.
Few == [c \in Threads |-> IF c = Live THEN 2 ELSE 1]
CONSTANTS s1, s2
Clients == {s1, s2}
=============================================================================

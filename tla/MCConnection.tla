---------------------------- MODULE MCConnection ----------------------------
\* Small instances of Connection for TLC.
EXTENDS Connection

CONSTANTS p1, p2, p3, w1, w2

\* Packets longer than the free room of the kernel, written in parts.
Lens == [p \in Packet |-> 2]
Four == [p \in Packet |-> 4]

TwoWorkers == Permutations({w1, w2})
=============================================================================

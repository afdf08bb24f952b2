----------------------------- MODULE MCTstPool -----------------------------
EXTENDS TstPoolInv, TLC
CONSTANTS c1, c2, c3, f1, f2, listen, none
\* Connections and descriptors are interchangeable.
Sym == Permutations(Conns) \cup Permutations(Fds)
=============================================================================

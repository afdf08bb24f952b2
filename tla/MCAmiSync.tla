----------------------------- MODULE MCAmiSync -----------------------------
EXTENDS AmiSync, TLC
CONSTANTS p1, p2
\* The callers are interchangeable.
Sym == Permutations(Callers)
=============================================================================

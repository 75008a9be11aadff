----------------------------- MODULE MCWindows -----------------------------
EXTENDS Windows, TLC

CONSTANTS l, r, w1, d1, d2, d3

LeftRight == <<l, r>>
Symmetry == Permutations(Desks)
=============================================================================

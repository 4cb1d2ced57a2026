----------------------------- MODULE MCControl -----------------------------
EXTENDS Control, TLC

CONSTANTS c1, p1, p2

Symmetric == Permutations(Panes)
=============================================================================

------------------------------ MODULE MCLayout ------------------------------
EXTENDS Layout, TLC

CONSTANTS p1, p2, p3, p4
PaneSymmetry == Permutations(Panes)
Half == {-1}
ByOne == {-1, 1}
OneSize == {[sx |-> 2, sy |-> 1, xoff |-> 0, yoff |-> 0]}
=============================================================================

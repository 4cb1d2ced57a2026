----------------------------- MODULE MCSessions -----------------------------
(* Instances of Sessions for TLC.                                          *)
EXTENDS Sessions, TLC

CONSTANT MaxReferences   \* bound on the references to windows: winlinks and alerts

Symmetry == Permutations(Windows)
Bounded ==
  Cardinality(UNION {{s} \X Uses(s) : s \in Sessions}) + Cardinality(queued)
    <= MaxReferences
=============================================================================

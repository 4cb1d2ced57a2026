------------------------------ MODULE MCEvents ------------------------------
(* Instances of Events for TLC.                                            *)
EXTENDS Events, TLC

Symmetry == Permutations(Sinks) \cup Permutations(Names)
=============================================================================

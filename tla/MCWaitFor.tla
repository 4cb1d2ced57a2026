----------------------------- MODULE MCWaitFor -----------------------------
(* Instances of WaitFor for TLC.                                           *)
EXTENDS WaitFor
=============================================================================

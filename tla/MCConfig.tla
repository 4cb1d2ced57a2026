------------------------------ MODULE MCConfig ------------------------------
(* Instances of Config for TLC.                                            *)
EXTENDS Config
=============================================================================

----------------------------- MODULE MCChildren -----------------------------
(* Instances of Children for TLC.                                          *)
EXTENDS Children
=============================================================================

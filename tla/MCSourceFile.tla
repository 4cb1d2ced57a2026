---------------------------- MODULE MCSourceFile ----------------------------
(* Instances of SourceFile for TLC.                                        *)
EXTENDS SourceFile
=============================================================================

---------------------------- MODULE MCCmdQueue ----------------------------
(* Instances of CmdQueue for TLC.                                          *)
EXTENDS CmdQueue

AllHooks == {"after", "error", "event"}
===========================================================================

--------------------------- MODULE MCClientServer ---------------------------
(* One stream of each kind besides standard output. *)
EXTENDS ClientServer
=============================================================================

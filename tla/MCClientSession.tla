--------------------------- MODULE MCClientSession ---------------------------
(* Small instances of ClientSession: the model values of the configurations. *)
EXTENDS ClientSession

CONSTANTS t1, t2
==============================================================================

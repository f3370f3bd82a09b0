--------------------------- MODULE MCServerPublish ---------------------------
(* Small instances of ServerPublish: the model values of the configurations. *)
EXTENDS ServerPublish

CONSTANTS p1, p2, ns1, t1, t2, small, large
==============================================================================

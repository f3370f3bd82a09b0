---------------------------- MODULE MCOpcuaExport ----------------------------
(* Small instances of OpcuaExport: the model values of the configurations. *)
EXTENDS OpcuaExport

CONSTANTS w1, w2, ns1, t1, t2, small

TwoTopics == <<t1, t2>>
==============================================================================

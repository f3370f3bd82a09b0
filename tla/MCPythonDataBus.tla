---------------------------- MODULE MCPythonDataBus ----------------------------
(* Small instances of PythonDataBus: the model values of the configurations. *)
EXTENDS PythonDataBus

CONSTANTS s1, s2, s3
==============================================================================

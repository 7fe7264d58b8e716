--------------------------- MODULE MCPythonBridge ----------------------------
(* The Python stream bridge with a channel of one or two entries. *)
EXTENDS PythonBridge
=============================================================================

--------------------------- MODULE MCMcpInstances -------------------------
(* Small instances of McpInstances for TLC. *)
EXTENDS McpInstances

CONSTANT c1
=============================================================================

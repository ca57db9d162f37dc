------------------------- MODULE MCHostSingleton -------------------------
(* Small instances of HostSingleton for TLC. *)
EXTENDS HostSingleton

CONSTANTS d1, d2, d3, c1, c2

=============================================================================

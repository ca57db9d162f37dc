---------------------------- MODULE MCBusClient ----------------------------
(* BusClient with interchangeable calls.                                   *)
EXTENDS BusClient, TLC

CallSymmetry == Permutations(Calls)

=============================================================================

---------------------------- MODULE MCSpawnGuard ----------------------------
(* SpawnGuard with interchangeable processes.                              *)
EXTENDS SpawnGuard, TLC

ProcSymmetry == Permutations(Procs)

=============================================================================

-------------------------- MODULE MCAnalysisStore --------------------------
(* Small instances of AnalysisStore for TLC. *)
EXTENDS AnalysisStore, TLC

CONSTANTS p1, p2, i1, i2, i3

Symmetry == Permutations(Procs) \cup Permutations(Legacy) \cup Permutations(Ids \ Legacy)
=============================================================================

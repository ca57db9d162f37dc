----------------------- MODULE MCSupervisorRegistry -----------------------
(* Small instances of SupervisorRegistry for TLC. *)
EXTENDS SupervisorRegistry, TLC

CONSTANTS t1, t2, a1, a2, s1, s2, w1, w2

\* Interchangeable identifiers: the model never compares two of them.
Symmetry == Permutations(Threads) \cup Permutations(Agents) \cup Permutations(Sessions)
                \cup Permutations(Workspaces)
=============================================================================

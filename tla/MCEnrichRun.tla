---------------------------- MODULE MCEnrichRun ---------------------------
(* Small instances of EnrichRun for TLC. *)
EXTENDS EnrichRun

CONSTANTS e1, e2

Plan(k1, k2, n, x) ==
    [kind |-> [e \in Engines |-> IF e = e1 THEN k1 ELSE k2],
     limit |-> [e \in Engines |-> n], ext |-> x]
Success(m) == [mod |-> m, ok |-> TRUE]
Failure(m) == [mod |-> m, ok |-> FALSE]

\* Two engines on one module, a run and its retry, a run of two chunks, one
\* beside the orchestrator, and a retry of what the orchestrator has recorded:
\* a module it escalates, or two failures.
MCPlans ==
    {Plan("pending", "pending", 1, {}),
     Plan("pending", "retry", 1, {}),
     Plan("pending", "none", 3, {}),
     Plan("pending", "none", 1, {Success(1)}),
     Plan("retry", "none", 1, {Failure(1), Success(1)}),
     Plan("retry", "none", 1, {Failure(1), Failure(2)})}
=============================================================================

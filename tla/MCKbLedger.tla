----------------------------- MODULE MCKbLedger ----------------------------
(* Small instances of KbLedger for TLC. *)
EXTENDS KbLedger, TLC

CONSTANTS A, B, C, w1, w2, w3

MCShas == {"x", "y"}
MCOld == {"a1", "a2", "b1"}
MCHome == [i \in MCOld |-> IF i = "b1" THEN B ELSE A]
MCEpoch == [i \in MCOld |-> IF i = "a2" THEN 2 ELSE 1]
MCSha == [i \in MCOld |-> "x"]

Ingest(k, s, f) == [op |-> "ingest", kb |-> k, into |-> k, sha |-> s, force |-> f, keep |-> 0]
MergeInto(l, w) == [op |-> "merge", kb |-> l, into |-> w, sha |-> "x", force |-> FALSE, keep |-> 0]
Gc(n) == [op |-> "gc", kb |-> A, into |-> A, sha |-> "x", force |-> FALSE, keep |-> n]

MCJobs ==
    {Ingest(k, "y", FALSE) : k \in {A, B}}
        \cup {MergeInto(A, B), MergeInto(B, A), MergeInto(B, C), Ingest(C, "x", TRUE)}
        \cup {Gc(0), Gc(1)}

Symmetry == Permutations(Workers)
=============================================================================

----------------------------- MODULE MCHarConn ----------------------------
(* Small instances of HarConn for TLC. *)
EXTENDS HarConn

CONSTANTS a1, a2, b1, b2, n

\* The peer numbers its calls with strings and uses the first again, this
\* side counts: a1, a2 and b1 have the same key.
MCSide == [c \in Calls |-> IF c \in {b1, b2} THEN "out" ELSE "in"]
MCId ==
    [c \in Calls |-> CASE c \in {a1, a2} -> [type |-> "string", val |-> 1]
                       [] c = b1 -> [type |-> "int", val |-> 1]
                       [] c = b2 -> [type |-> "int", val |-> 2]
                       [] c = n -> NoCall]
=============================================================================

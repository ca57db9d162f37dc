---------------------------- MODULE ResultStore ----------------------------
(***************************************************************************)
(* What the store of analysis results promises while operations follow one *)
(* another: each of them takes effect on the list of entries at once or    *)
(* not at all, wherever it is interrupted.  An entry is listed after its   *)
(* data is stored; it loses its data or its place only after somebody has  *)
(* asked for its removal, and then it never comes back.                    *)
(***************************************************************************)
CONSTANT Ids

VARIABLES
    listed,   \* entries that can be found
    stored,   \* entries whose data is whole
    asked     \* entries a Delete or a Prune was to remove

Init ==
    /\ listed \in SUBSET Ids
    /\ stored \in SUBSET Ids
    /\ listed \subseteq stored
    /\ asked = {}

Store(i) ==
    /\ i \notin listed
    /\ stored' = stored \cup {i}
    /\ UNCHANGED <<listed, asked>>

List(i) ==
    /\ i \in stored \ (listed \cup asked)
    /\ listed' = listed \cup {i}
    /\ UNCHANGED <<stored, asked>>

Ask(gone) ==
    /\ gone \subseteq listed
    /\ asked' = asked \cup gone
    /\ UNCHANGED <<listed, stored>>

\* Of a removal and of the collection of what is not listed.
Discard(i) ==
    /\ i \notin listed \ asked
    /\ stored' = stored \ {i}
    /\ UNCHANGED <<listed, asked>>

Remove(gone) ==
    /\ gone \subseteq asked
    /\ listed' = listed \ gone
    /\ UNCHANGED <<stored, asked>>

Next ==
    \/ \E i \in Ids : Store(i) \/ List(i) \/ Discard(i)
    \/ \E gone \in SUBSET Ids : Ask(gone) \/ Remove(gone)

Spec == Init /\ [][Next]_<<listed, stored, asked>>

\* What nobody has asked to remove can be found with its data.
Whole == listed \ asked \subseteq stored

=============================================================================

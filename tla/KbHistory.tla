----------------------------- MODULE KbHistory -----------------------------
(***************************************************************************)
(* What the knowledge base promises about the captures of its apps: each   *)
(* kb_id has a lineage, its snapshots in an order; a capture comes after   *)
(* all of one lineage, a merge puts the loser's lineage after the winner's *)
(* and leaves the loser without any, a purge removes snapshots.  Nothing   *)
(* is ever reordered, doubled or inserted into the past.                   *)
(***************************************************************************)
CONSTANTS Kbs, Ids, None

VARIABLES
    home,    \* whose lineage a snapshot is in, None if in none
    before   \* the pairs of a snapshot and a later one of its lineage

Lineage(k) == {i \in Ids : home[i] = k}
Within(pairs, ids) == {p \in pairs : p[1] \in ids /\ p[2] \in ids}

\* The snapshots of a lineage are in a strict total order, others in none.
Ordered ==
    /\ before \subseteq Ids \X Ids
    /\ \A p \in before : home[p[1]] = home[p[2]] /\ home[p[1]] # None /\ p[1] # p[2]
    /\ \A p, q \in before : p[2] = q[1] => <<p[1], q[2]>> \in before
    /\ \A k \in Kbs : \A i, j \in Lineage(k) :
           i # j => <<i, j>> \in before \/ <<j, i>> \in before

Init == home \in [Ids -> Kbs \cup {None}] /\ Ordered

Capture(i, k) ==
    /\ home[i] = None
    /\ home' = [home EXCEPT ![i] = k]
    /\ before' = before \cup Lineage(k) \X {i}

\* What a merge cannot carry over is lost: see KbLedger.
Merge(loser, winner, kept) ==
    /\ loser # winner
    /\ kept \subseteq Lineage(loser)
    /\ home' = [i \in Ids |-> CASE i \in kept -> winner
                                [] i \in Lineage(loser) \ kept -> None
                                [] OTHER -> home[i]]
    /\ before' = Within(before, (Ids \ Lineage(loser)) \cup kept) \cup Lineage(winner) \X kept

Purge(gone) ==
    /\ home' = [i \in Ids |-> IF i \in gone THEN None ELSE home[i]]
    /\ before' = Within(before, Ids \ gone)

Next ==
    \/ \E i \in Ids, k \in Kbs : Capture(i, k)
    \/ \E loser, winner \in Kbs : \E kept \in SUBSET Ids : Merge(loser, winner, kept)
    \/ \E gone \in SUBSET Ids : Purge(gone)

Spec == Init /\ [][Next]_<<home, before>>

=============================================================================

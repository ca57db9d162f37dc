----------------------------- MODULE KbLedger ------------------------------
(***************************************************************************)
(* The ledger of captures in the knowledge base: kb_apps, kb_aliases and   *)
(* knowledge_sources, under the commands that write them concurrently,     *)
(* each from a process of its own: ingest.Run (kb ingest, build, capture), *)
(* identity.MergeIDs (kb merge) and kb gc.                                 *)
(*                                                                         *)
(* One action is one SQL statement of the source.  PostgreSQL, external,   *)
(* is modelled as those transactions use it, at READ COMMITTED: a          *)
(* statement sees what is committed when it begins; what a transaction     *)
(* writes is its own until it commits; row, key and advisory locks are     *)
(* held to the end of the transaction, and follow here from how far it has *)
(* come (Waits); a deadlock is broken, and a connection lost, by rolling   *)
(* one transaction back.  Modules, bodies, facts and diffs, which ingest   *)
(* writes in the same transaction, and scorecards are not modelled.        *)
(***************************************************************************)
EXTENDS Integers, FiniteSets

CONSTANTS
    Workers,    \* processes; a row is named after the one that inserts it
    Kbs,        \* kb_ids
    Shas,       \* digests of captured binaries
    None,
    Jobs,       \* what a worker may be started to do
    Old,        \* rows captured earlier
    OldHome, OldEpoch, OldSha

Ids == Old \cup Workers
Ops == {"ingest", "merge", "gc"}
JobType == [op : Ops, kb : Kbs, into : Kbs, sha : Shas, force : BOOLEAN, keep : Nat]

ASSUME LedgerAssumption ==
    /\ IsFiniteSet(Workers) /\ IsFiniteSet(Old)
    /\ Old \cap Workers = {}
    /\ None \notin Kbs
    /\ Jobs \subseteq JobType
    /\ \A j \in Jobs : j.op = "merge" => j.kb # j.into
    /\ OldHome \in [Old -> Kbs] /\ OldEpoch \in [Old -> Nat \ {0}] /\ OldSha \in [Old -> Shas]
    /\ \A i, j \in Old : OldHome[i] = OldHome[j] /\ OldEpoch[i] = OldEpoch[j] => i = j
    /\ \A i \in Old : OldEpoch[i] > 1 =>
           \E j \in Old : OldHome[j] = OldHome[i] /\ OldEpoch[j] = OldEpoch[i] - 1

VARIABLES
    apps,     \* kb_apps
    alias,    \* kb_aliases: canonical_kb_id by alias_kb_id
    home,     \* knowledge_sources.kb_id, None without a row
    epoch,    \* knowledge_sources.epoch
    job,      \* what each worker does
    pc,       \* the statement it executes next
    tgt,      \* ingest: the kb_id after alias resolution
    num,      \* the epoch it allocated, or the offset of its merge
    moved,    \* the rows its UPDATE rewrote, or its purge selected
    err,      \* how it ended
    exposed,  \* history: rows committed under a loser after its rows were rewritten
    lost      \* history: rows deleted by the cascade of a merge

tables == <<apps, alias, home, epoch>>
history == <<exposed, lost>>
vars == <<tables, job, pc, tgt, num, moved, err, history>>

IngestPc == {"resolve", "check", "upsert", "ilock", "imax", "insert", "prev", "icommit"}
MergePc == {"winner", "exist", "alias", "mlock", "moffset", "move", "drop", "mcommit"}
PurgePc == {"select", "purge"}

First(op) == CASE op = "ingest" -> "resolve" [] op = "merge" -> "winner" [] op = "gc" -> "select"
Sha(i) == IF i \in Old THEN OldSha[i] ELSE job[i].sha

TypeOK ==
    /\ apps \subseteq Kbs
    /\ alias \in [Kbs -> apps \cup {None}]
    /\ home \in [Ids -> apps \cup {None}]
    /\ epoch \in [Ids -> Nat]
    /\ job \in [Workers -> Jobs]
    /\ pc \in [Workers -> IngestPc \cup MergePc \cup PurgePc \cup {"done"}]
    /\ tgt \in [Workers -> Kbs]
    /\ num \in [Workers -> Nat]
    /\ moved \in [Workers -> SUBSET Ids]
    /\ err \in [Workers -> {"none", "skipped", "refused", "clash", "prev", "rolledBack"}]
    /\ exposed \subseteq Ids
    /\ lost \subseteq Ids

Init ==
    /\ apps = {OldHome[i] : i \in Old}
    /\ alias = [k \in Kbs |-> None]
    /\ home = [i \in Ids |-> IF i \in Old THEN OldHome[i] ELSE None]
    /\ epoch = [i \in Ids |-> IF i \in Old THEN OldEpoch[i] ELSE 0]
    /\ job \in [Workers -> Jobs]
    /\ pc = [w \in Workers |-> First(job[w].op)]
    /\ tgt = [w \in Workers |-> job[w].kb]
    /\ num = [w \in Workers |-> 0]
    /\ moved = [w \in Workers |-> {}]
    /\ err = [w \in Workers |-> "none"]
    /\ exposed = {}
    /\ lost = {}

----------------------------------------------------------------------------
(* Locks.                                                                  *)

Rows(k) == {i \in Ids : home[i] = k}
Epochs(k) == {epoch[i] : i \in Rows(k)}
\* COALESCE(MAX(epoch), 0), as a set of one.
MaxEpoch(k) == {n \in Epochs(k) \cup {0} : \A m \in Epochs(k) : m <= n}

\* The row of k in kb_apps, upserted by ingest: FOR NO KEY UPDATE.
Ingesting(w, k) == tgt[w] = k /\ pc[w] \in {"ilock", "imax", "insert", "prev", "icommit"}

\* The row of the winner, referenced by the new alias: FOR KEY SHARE.
Joining(w, k) == job[w].into = k /\ pc[w] \in {"mlock", "moffset", "move", "drop", "mcommit"}

\* The new row of the loser in kb_aliases.
Aliasing(w, k) == job[w].kb = k /\ pc[w] \in {"mlock", "moffset", "move", "drop", "mcommit"}

\* The row of the loser in kb_apps, deleted: FOR UPDATE.
Dropping(w, k) == job[w].kb = k /\ pc[w] = "mcommit"

\* Mutants: a merge that relies on its transaction alone, and one that locks
\* the lineage of the loser as well.
HasEpochLockIngest(w, k) == tgt[w] = k /\ pc[w] \in {"imax", "insert", "prev", "icommit"}
HasEpochLockBoth(w, k) ==
    \/ HasEpochLockIngest(w, k)
    \/ k \in {job[w].kb, job[w].into} /\ pc[w] \in {"moffset", "move", "drop", "mcommit"}

\* pg_advisory_xact_lock(hashtext('kb_epoch:' || k)).
HasEpochLock(w, k) ==
    \/ tgt[w] = k /\ pc[w] \in {"imax", "insert", "prev", "icommit"}
    \/ job[w].into = k /\ pc[w] \in {"moffset", "move", "drop", "mcommit"}

\* Entries of the unique index on (kb_id, epoch) that are not committed yet.
Pending(w) ==
    CASE pc[w] \in {"prev", "icommit"} -> {<<tgt[w], num[w]>>}
      [] pc[w] \in {"drop", "mcommit"} -> {<<job[w].into, epoch[i] + num[w]>> : i \in moved[w]}
      [] OTHER -> {}

\* The statement w executes next has to wait for the transaction of v.
Waits(w, v) ==
    /\ w # v
    /\ \/ pc[w] = "upsert" /\ (Ingesting(v, tgt[w]) \/ Dropping(v, tgt[w]))
       \/ pc[w] = "ilock" /\ HasEpochLock(v, tgt[w])
       \/ pc[w] = "insert" /\ <<tgt[w], num[w]>> \in Pending(v)
       \/ pc[w] = "alias" /\ (Dropping(v, job[w].into) \/ Aliasing(v, job[w].kb))
       \/ pc[w] = "mlock" /\ HasEpochLock(v, job[w].into)
       \/ /\ pc[w] = "move"
          /\ \E i \in Rows(job[w].kb) : <<job[w].into, epoch[i] + num[w]>> \in Pending(v)
       \/ pc[w] = "drop" /\ (Ingesting(v, job[w].kb) \/ Joining(v, job[w].kb))
       \/ pc[w] = "purge" /\ pc[v] \in {"drop", "mcommit"} /\ moved[w] \cap moved[v] # {}

At(w, s) == pc[w] = s /\ \A v \in Workers : ~Waits(w, v)
Goto(w, s) == pc' = [pc EXCEPT ![w] = s] /\ UNCHANGED <<job, err>>
End(w, e) ==
    /\ pc' = [pc EXCEPT ![w] = "done"]
    /\ err' = [err EXCEPT ![w] = e]
    /\ UNCHANGED <<tables, job, tgt, num, moved, history>>

----------------------------------------------------------------------------
(* ingest.Run.                                                             *)

Canonical(k) == IF alias[k] = None THEN k ELSE alias[k]

\* Options.ResolveAlias, set by every caller, before the transaction.
ResolveAlias(w) ==
    /\ At(w, "resolve")
    /\ tgt' = [tgt EXCEPT ![w] = Canonical(job[w].kb)]
    /\ Goto(w, "check")
    /\ UNCHANGED <<tables, num, moved, history>>

\* Also before the transaction: a snapshot of this binary ends the ingest.
CheckIdempotency(w) ==
    /\ At(w, "check")
    /\ IF ~job[w].force /\ \E i \in Rows(tgt[w]) : Sha(i) = job[w].sha
       THEN End(w, "skipped")
       ELSE Goto(w, "upsert") /\ UNCHANGED <<tables, tgt, num, moved, history>>

UpsertApp(w) ==
    /\ At(w, "upsert")
    /\ Goto(w, "ilock")
    /\ UNCHANGED <<tables, tgt, num, moved, history>>

\* AllocateEpoch: the lock, and only then a statement that reads MAX(epoch).
LockEpochs(w) ==
    /\ At(w, "ilock")
    /\ Goto(w, "imax")
    /\ UNCHANGED <<tables, tgt, num, moved, history>>

AllocateEpoch(w) ==
    /\ At(w, "imax")
    /\ \E n \in MaxEpoch(tgt[w]) : num' = [num EXCEPT ![w] = n + 1]
    /\ Goto(w, "insert")
    /\ UNCHANGED <<tables, tgt, moved, history>>

InsertSource(w) ==
    /\ At(w, "insert")
    /\ IF num[w] \in Epochs(tgt[w])
       THEN End(w, "clash")
       ELSE Goto(w, "prev") /\ UNCHANGED <<tables, tgt, num, moved, history>>

\* diff.ResolveSource of the epoch before, which the diffs are taken against.
ResolvePrev(w) ==
    /\ At(w, "prev")
    /\ IF num[w] > 1 /\ num[w] - 1 \notin Epochs(tgt[w])
       THEN End(w, "prev")
       ELSE Goto(w, "icommit") /\ UNCHANGED <<tables, tgt, num, moved, history>>

\* A merge that has rewritten the rows of k and has yet to delete its app.
Rewritten(k) == \E v \in Workers : pc[v] = "drop" /\ job[v].kb = k

CommitIngest(w) ==
    /\ At(w, "icommit")
    /\ apps' = apps \cup {tgt[w]}
    /\ home' = [home EXCEPT ![w] = tgt[w]]
    /\ epoch' = [epoch EXCEPT ![w] = num[w]]
    /\ exposed' = exposed \cup (IF Rewritten(tgt[w]) THEN {w} ELSE {})
    /\ Goto(w, "done")
    /\ UNCHANGED <<alias, tgt, num, moved, lost>>

----------------------------------------------------------------------------
(* identity.MergeIDs.                                                      *)

CheckWinner(w) ==
    /\ At(w, "winner")
    /\ IF alias[job[w].into] # None
       THEN End(w, "refused")
       ELSE Goto(w, "exist") /\ UNCHANGED <<tables, tgt, num, moved, history>>

\* mustExistKBApp of both; a statement each in the code.
CheckApps(w) ==
    /\ At(w, "exist")
    /\ IF {job[w].kb, job[w].into} \subseteq apps
       THEN Goto(w, "alias") /\ UNCHANGED <<tables, tgt, num, moved, history>>
       ELSE End(w, "refused")

\* Fails on the primary key (merged already) or the foreign key (winner gone).
InsertAlias(w) ==
    /\ At(w, "alias")
    /\ IF alias[job[w].kb] = None /\ job[w].into \in apps
       THEN Goto(w, "mlock") /\ UNCHANGED <<tables, tgt, num, moved, history>>
       ELSE End(w, "refused")

LockWinner(w) ==
    /\ At(w, "mlock")
    /\ Goto(w, "moffset")
    /\ UNCHANGED <<tables, tgt, num, moved, history>>

\* Mutant: the blind rewrite, which does not offset the epochs.
ReadNoOffset(w) ==
    /\ At(w, "moffset")
    /\ Goto(w, "move")
    /\ UNCHANGED <<tables, tgt, num, moved, history>>

ReadOffset(w) ==
    /\ At(w, "moffset")
    /\ \E n \in MaxEpoch(job[w].into) : num' = [num EXCEPT ![w] = n]
    /\ Goto(w, "move")
    /\ UNCHANGED <<tables, tgt, moved, history>>

\* Mutant: the rewrite misses all rows but the newest.
MoveNewest(w) ==
    /\ At(w, "move")
    /\ moved' = [moved EXCEPT ![w] =
           {i \in Rows(job[w].kb) : epoch[i] \in MaxEpoch(job[w].kb)}]
    /\ Goto(w, "drop")
    /\ UNCHANGED <<tables, tgt, num, history>>

MoveSources(w) ==
    /\ At(w, "move")
    /\ IF \E i \in Rows(job[w].kb) : epoch[i] + num[w] \in Epochs(job[w].into)
       THEN End(w, "clash")
       ELSE /\ moved' = [moved EXCEPT ![w] = Rows(job[w].kb)]
            /\ Goto(w, "drop")
            /\ UNCHANGED <<tables, tgt, num, history>>

DropLoser(w) ==
    /\ At(w, "drop")
    /\ Goto(w, "mcommit")
    /\ UNCHANGED <<tables, tgt, num, moved, history>>

\* With the loser's row in kb_apps go, by ON DELETE CASCADE, every alias of
\* the loser and every source that is still its own.
CommitMerge(w) ==
    LET loser == job[w].kb
        winner == job[w].into
        gone == Rows(loser) \ moved[w]
    IN  /\ At(w, "mcommit")
        /\ apps' = apps \ {loser}
        /\ alias' = [k \in Kbs |-> CASE k = loser -> winner
                                     [] k # loser /\ alias[k] = loser -> None
                                     [] OTHER -> alias[k]]
        /\ home' = [i \in Ids |-> CASE i \in moved[w] -> winner
                                    [] i \in gone -> None
                                    [] OTHER -> home[i]]
        /\ epoch' = [i \in Ids |-> IF i \in moved[w] THEN epoch[i] + num[w] ELSE epoch[i]]
        /\ lost' = lost \cup gone
        /\ exposed' = exposed \cup (IF Rewritten(winner) THEN moved[w] ELSE {})
        /\ Goto(w, "done")
        /\ UNCHANGED <<tgt, num, moved>>

----------------------------------------------------------------------------
(* kb gc: selects what is older than a cutoff (before or after this        *)
(* instance began) and below the newest `keep` epochs of its kb_id, asks,  *)
(* and deletes by row id.                                                  *)

Newer(i) == Cardinality({j \in Rows(home[i]) : epoch[j] >= epoch[i]})

SelectVictims(w) ==
    /\ At(w, "select")
    /\ \E cut \in {Old, Ids} :
          moved' = [moved EXCEPT ![w] = {i \in cut : home[i] # None /\ Newer(i) > job[w].keep}]
    /\ Goto(w, "purge")
    /\ UNCHANGED <<tables, tgt, num, history>>

PurgeSources(w) ==
    /\ At(w, "purge")
    /\ home' = [i \in Ids |-> IF i \in moved[w] THEN None ELSE home[i]]
    /\ Goto(w, "done")
    /\ UNCHANGED <<apps, alias, epoch, tgt, num, moved, history>>

----------------------------------------------------------------------------
\* The context ends, the connection is lost, or PostgreSQL picks the
\* transaction to break a deadlock: nothing of it remains.
RollBack(w) == pc[w] # "done" /\ End(w, "rolledBack")

IngestStep(w) ==
    \/ ResolveAlias(w) \/ CheckIdempotency(w) \/ UpsertApp(w) \/ LockEpochs(w)
    \/ AllocateEpoch(w) \/ InsertSource(w) \/ ResolvePrev(w) \/ CommitIngest(w)

MergeStep(w) ==
    \/ CheckWinner(w) \/ CheckApps(w) \/ InsertAlias(w) \/ LockWinner(w)
    \/ ReadOffset(w) \/ MoveSources(w) \/ DropLoser(w) \/ CommitMerge(w)

PurgeStep(w) == SelectVictims(w) \/ PurgeSources(w)

Next == \E w \in Workers : IngestStep(w) \/ MergeStep(w) \/ PurgeStep(w) \/ RollBack(w)

Spec == Init /\ [][Next]_vars

----------------------------------------------------------------------------
(* Properties.                                                             *)

\* Epochs are allocated under the advisory lock of the kb_id they belong to,
\* by ingests and by merges into it: neither ever meets an epoch that is
\* taken (AllocateEpoch, "serializing concurrent ingest writers").
NoEpochClash == \A w \in Workers : err[w] # "clash"

\* An ingest finds the epoch before its own, the base of its diffs, unless
\* a purge ran: merges never take a lineage away under an open ingest.
PrevFound ==
    \A w \in Workers :
        err[w] = "prev" => \E v \in Workers : job[v].op = "gc" /\ pc[v] = "done"

\* However ingests and merges race, the epochs of a kb_id follow one another.
EpochsSerial == NoEpochClash /\ PrevFound

\* A merge deletes no snapshot but those committed under the loser between
\* its UPDATE of the rows and its DELETE of the app.
LostOnlyInWindow == lost \subseteq exposed

\* Transactions wait for each other in a circle only when merges do: with no
\* circle of losers and winners among the open merges there is no deadlock.
Stuck(S) == S # {} /\ \A w \in S : \E v \in S : Waits(w, v)
Circle(S) == S # {} /\ \A w \in S : pc[w] \in MergePc /\ \E v \in S : job[v].into = job[w].kb
DeadlockOnlyInCircles ==
    \A S \in SUBSET Workers : Stuck(S) => \E T \in SUBSET S : Circle(T)

\* The captures of a kb_id follow one another in the order of their epochs.
Before ==
    {p \in Ids \X Ids : /\ home[p[1]] = home[p[2]] /\ home[p[1]] # None
                        /\ epoch[p[1]] < epoch[p[2]]}

\* Concurrent ingests, merges and purges have the effect of one at a time on
\* the lineages: captures are appended, a loser's lineage follows the
\* winner's in its own order, nothing is reordered or doubled.
History == INSTANCE KbHistory WITH before <- Before
HistoryRefined == History!Spec

\* "survives kb_apps row delete so `unravel kb merge` is non-destructive for
\* read paths" (migration 000004, of kb_aliases): a name that reads resolved
\* to an app goes on resolving to an app.
NamesResolve ==
    [][\A k \in Kbs : Canonical(k) \in apps => Canonical(k)' \in apps']_vars

\* "rewriting any knowledge_sources rows still pointing at the loser"
\* (merge.go): a merge deletes no snapshot.
NothingLost == lost = {}

=============================================================================

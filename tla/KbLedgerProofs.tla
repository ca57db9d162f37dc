-------------------------- MODULE KbLedgerProofs ---------------------------
(***************************************************************************)
(* Proofs about KbLedger, for any number of concurrent ingests, merges and *)
(* purges over any ledger captured earlier.                                *)
(***************************************************************************)
EXTENDS KbLedger, TLAPS

OpOK ==
    \A w \in Workers :
        /\ pc[w] \in IngestPc => job[w].op = "ingest"
        /\ pc[w] \in MergePc => job[w].op = "merge"
        /\ pc[w] \in PurgePc => job[w].op = "gc"

(* What the locks exclude: two holders of the epochs of one kb_id, two     *)
(* merges of one loser, and the deletion of an app under an ingest or a    *)
(* merge that refers to it.                                                *)
LocksExclude ==
    \A v, w \in Workers : \A k \in Kbs : v # w =>
        /\ ~(HasEpochLock(v, k) /\ HasEpochLock(w, k))
        /\ ~(Aliasing(v, k) /\ Aliasing(w, k))
        /\ ~(Dropping(v, k) /\ (Ingesting(w, k) \/ Joining(w, k)))

WinnerStays == \A w \in Workers : Joining(w, job[w].into) => job[w].into \in apps

LockInv == TypeOK /\ OpOK /\ LocksExclude /\ WinnerStays

LEMMA JobFacts ==
    ASSUME TypeOK, NEW w \in Workers
    PROVE  /\ job[w] \in JobType /\ job[w].kb \in Kbs /\ job[w].into \in Kbs
           /\ job[w].op = "merge" => job[w].kb # job[w].into
BY LedgerAssumption DEF LedgerAssumption, TypeOK, JobType

LEMMA InitLocks == Init => LockInv
<1>. SUFFICES ASSUME Init PROVE LockInv
  OBVIOUS
<1>1. TypeOK
  <2>1. job \in [Workers -> Jobs] /\ \A w \in Workers : job[w] \in JobType
    BY LedgerAssumption DEF Init, LedgerAssumption
  <2>2. \A w \in Workers : First(job[w].op) \in {"resolve", "winner", "select"} /\ job[w].kb \in Kbs
    BY <2>1 DEF JobType, Ops, First
  <2>. QED
    BY <2>1, <2>2, LedgerAssumption
    DEF Init, TypeOK, LedgerAssumption, Ids, IngestPc, MergePc, PurgePc
<1>2. \A w \in Workers :
        /\ job[w].op = "ingest" => pc[w] = "resolve"
        /\ job[w].op = "merge" => pc[w] = "winner"
        /\ job[w].op = "gc" => pc[w] = "select"
        /\ job[w].op \in Ops
  BY <1>1, JobFacts DEF Init, First, Ops, JobType
<1>. QED
  BY <1>1, <1>2 DEF LockInv, OpOK, LocksExclude, WinnerStays, HasEpochLock, Dropping,
     Aliasing, Ingesting, Joining, IngestPc, MergePc, PurgePc, Ops

(* Type correctness.                                                       *)
LEMMA TypeStep == LockInv /\ [Next]_vars => TypeOK'
<1>. SUFFICES ASSUME LockInv, [Next]_vars PROVE TypeOK'
  OBVIOUS
<1>. USE DEF LockInv, TypeOK, IngestPc, MergePc, PurgePc
<1>1. ASSUME NEW w \in Workers, ResolveAlias(w) PROVE TypeOK'
  <2>1. Canonical(job[w].kb) \in Kbs
    BY JobFacts DEF Canonical
  <2>. QED
    BY <1>1, <2>1 DEF ResolveAlias, At, Goto, tables, history
<1>2. ASSUME NEW w \in Workers, CheckIdempotency(w) PROVE TypeOK'
  BY <1>2 DEF CheckIdempotency, At, Goto, End, tables, history
<1>3. ASSUME NEW w \in Workers, UpsertApp(w) PROVE TypeOK'
  BY <1>3 DEF UpsertApp, At, Goto, End, tables, history
<1>4. ASSUME NEW w \in Workers, LockEpochs(w) PROVE TypeOK'
  BY <1>4 DEF LockEpochs, At, Goto, End, tables, history
<1>5. ASSUME NEW w \in Workers, AllocateEpoch(w) PROVE TypeOK'
  <2>1. MaxEpoch(tgt[w]) \subseteq Nat
    BY DEF MaxEpoch, Epochs, Rows
  <2>2. num' \in [Workers -> Nat]
    BY <1>5, <2>1 DEF AllocateEpoch
  <2>. QED
    BY <1>5, <2>2 DEF AllocateEpoch, At, Goto, tables, history
<1>6. ASSUME NEW w \in Workers, InsertSource(w) PROVE TypeOK'
  BY <1>6 DEF InsertSource, At, Goto, End, tables, history
<1>7. ASSUME NEW w \in Workers, ResolvePrev(w) PROVE TypeOK'
  BY <1>7 DEF ResolvePrev, At, Goto, End, tables, history
<1>8. ASSUME NEW w \in Workers, CommitIngest(w) PROVE TypeOK'
  <2>1. w \in Ids /\ tgt[w] \in Kbs
    BY DEF Ids
  <2>2. apps' \subseteq Kbs /\ apps \subseteq apps' /\ tgt[w] \in apps'
    BY <1>8, <2>1 DEF CommitIngest
  <2>3. home' \in [Ids -> apps' \cup {None}] /\ epoch' \in [Ids -> Nat]
    BY <1>8, <2>1, <2>2 DEF CommitIngest
  <2>. QED
    BY <1>8, <2>1, <2>2, <2>3 DEF CommitIngest, At, Goto
<1>9. ASSUME NEW w \in Workers, CheckWinner(w) PROVE TypeOK'
  BY <1>9 DEF CheckWinner, At, Goto, End, tables, history
<1>10. ASSUME NEW w \in Workers, CheckApps(w) PROVE TypeOK'
  BY <1>10 DEF CheckApps, At, Goto, End, tables, history
<1>11. ASSUME NEW w \in Workers, InsertAlias(w) PROVE TypeOK'
  BY <1>11 DEF InsertAlias, At, Goto, End, tables, history
<1>12. ASSUME NEW w \in Workers, LockWinner(w) PROVE TypeOK'
  BY <1>12 DEF LockWinner, At, Goto, End, tables, history
<1>13. ASSUME NEW w \in Workers, ReadOffset(w) PROVE TypeOK'
  <2>1. MaxEpoch(job[w].into) \subseteq Nat
    BY DEF MaxEpoch, Epochs, Rows
  <2>2. num' \in [Workers -> Nat]
    BY <1>13, <2>1 DEF ReadOffset
  <2>. QED
    BY <1>13, <2>2 DEF ReadOffset, At, Goto, tables, history
<1>14. ASSUME NEW w \in Workers, MoveSources(w) PROVE TypeOK'
  BY <1>14 DEF MoveSources, At, Goto, End, tables, history, Rows
<1>15. ASSUME NEW w \in Workers, DropLoser(w) PROVE TypeOK'
  BY <1>15 DEF DropLoser, At, Goto, End, tables, history
<1>16. ASSUME NEW w \in Workers, CommitMerge(w) PROVE TypeOK'
  <2>. DEFINE loser == job[w].kb
              winner == job[w].into
  <2>1. winner \in apps /\ winner # loser /\ loser \in Kbs
    BY <1>16, JobFacts DEF CommitMerge, At, WinnerStays, Joining, OpOK
  <2>2. apps' = apps \ {loser} /\ winner \in apps'
    BY <1>16, <2>1 DEF CommitMerge
  <2>3. alias' \in [Kbs -> apps' \cup {None}]
    BY <1>16, <2>2 DEF CommitMerge
  <2>4. home' \in [Ids -> apps' \cup {None}]
    BY <1>16, <2>2 DEF CommitMerge, Rows
  <2>5. epoch' \in [Ids -> Nat]
    BY <1>16 DEF CommitMerge
  <2>6. lost' \subseteq Ids /\ exposed' \subseteq Ids
    BY <1>16 DEF CommitMerge, Rows
  <2>. QED
    BY <1>16, <2>2, <2>3, <2>4, <2>5, <2>6 DEF CommitMerge, At, Goto
<1>17. ASSUME NEW w \in Workers, SelectVictims(w) PROVE TypeOK'
  BY <1>17 DEF SelectVictims, At, Goto, tables, history, Ids
<1>18. ASSUME NEW w \in Workers, PurgeSources(w) PROVE TypeOK'
  BY <1>18 DEF PurgeSources, At, Goto, End, tables, history
<1>19. ASSUME NEW w \in Workers, RollBack(w) PROVE TypeOK'
  BY <1>19 DEF RollBack, At, Goto, End, tables, history
<1>20. CASE UNCHANGED vars
  BY <1>20 DEF vars, tables, history
<1>. QED
  BY <1>1, <1>2, <1>3, <1>4, <1>5, <1>6, <1>7, <1>8, <1>9, <1>10, <1>11, <1>12, <1>13, <1>14, <1>15, <1>16, <1>17, <1>18, <1>19, <1>20
  DEF Next, IngestStep, MergeStep, PurgeStep

(* The locks keep what they exclude.                                       *)
LEMMA LockStep == LockInv /\ [Next]_vars => (OpOK /\ LocksExclude /\ WinnerStays)'
<1>. SUFFICES ASSUME LockInv, [Next]_vars PROVE (OpOK /\ LocksExclude /\ WinnerStays)'
  OBVIOUS
<1>. USE DEF LockInv, TypeOK, IngestPc, MergePc, PurgePc, OpOK, LocksExclude, WinnerStays,
             HasEpochLock, Aliasing, Dropping, Ingesting, Joining
<1>0. \A w \in Workers : tgt[w] \in Kbs /\ job[w].kb \in Kbs /\ job[w].into \in Kbs
  BY JobFacts
<1>1. ASSUME NEW w \in Workers, ResolveAlias(w) PROVE (OpOK /\ LocksExclude /\ WinnerStays)'
  BY <1>0, <1>1 DEF ResolveAlias, At, Goto, End, tables, history
<1>2. ASSUME NEW w \in Workers, CheckIdempotency(w) PROVE (OpOK /\ LocksExclude /\ WinnerStays)'
  <2>1. /\ apps' = apps /\ tgt' = tgt /\ job' = job
        /\ pc' = [pc EXCEPT ![w] = "upsert"] \/ pc' = [pc EXCEPT ![w] = "done"]
    BY <1>2 DEF CheckIdempotency, At, Goto, End, tables
  <2>2. pc[w] = "check"
    BY <1>2 DEF CheckIdempotency, At
  <2>3. OpOK' /\ WinnerStays'
    BY <2>1, <2>2
  <2>4. LocksExclude'
    <3>1. \A v \in Workers : v # w => pc'[v] = pc[v]
      BY <2>1
    <3>2. \A k \in Kbs : (Dropping(w, k) \/ Joining(w, k) \/ Aliasing(w, k))' => FALSE
      BY <2>1
    <3>3. \A k \in Kbs : (HasEpochLock(w, k)' => HasEpochLock(w, k))
                            /\ (Ingesting(w, k)' => Ingesting(w, k))
      BY <2>1, <2>2
    <3>. QED
      BY <2>1, <3>1, <3>2, <3>3
  <2>. QED
    BY <2>3, <2>4
<1>3. ASSUME NEW w \in Workers, UpsertApp(w) PROVE (OpOK /\ LocksExclude /\ WinnerStays)'
  BY <1>0, <1>3 DEF UpsertApp, At, Waits, Goto, End, tables, history
<1>4. ASSUME NEW w \in Workers, LockEpochs(w) PROVE (OpOK /\ LocksExclude /\ WinnerStays)'
  BY <1>0, <1>4 DEF LockEpochs, At, Waits, Goto, End, tables, history
<1>5. ASSUME NEW w \in Workers, AllocateEpoch(w) PROVE (OpOK /\ LocksExclude /\ WinnerStays)'
  BY <1>0, <1>5 DEF AllocateEpoch, At, Goto, End, tables, history
<1>6. ASSUME NEW w \in Workers, InsertSource(w) PROVE (OpOK /\ LocksExclude /\ WinnerStays)'
  BY <1>0, <1>6 DEF InsertSource, At, Goto, End, tables, history
<1>7. ASSUME NEW w \in Workers, ResolvePrev(w) PROVE (OpOK /\ LocksExclude /\ WinnerStays)'
  <2>1. /\ apps' = apps /\ tgt' = tgt /\ job' = job
        /\ pc' = [pc EXCEPT ![w] = "icommit"] \/ pc' = [pc EXCEPT ![w] = "done"]
    BY <1>7 DEF ResolvePrev, At, Goto, End, tables
  <2>2. pc[w] = "prev"
    BY <1>7 DEF ResolvePrev, At
  <2>3. OpOK' /\ WinnerStays'
    BY <2>1, <2>2
  <2>4. LocksExclude'
    <3>1. \A v \in Workers : v # w => pc'[v] = pc[v]
      BY <2>1
    <3>2. \A k \in Kbs : (Dropping(w, k) \/ Joining(w, k) \/ Aliasing(w, k))' => FALSE
      BY <2>1
    <3>3. \A k \in Kbs : (HasEpochLock(w, k)' => HasEpochLock(w, k))
                            /\ (Ingesting(w, k)' => Ingesting(w, k))
      BY <2>1, <2>2
    <3>. QED
      BY <2>1, <3>1, <3>2, <3>3
  <2>. QED
    BY <2>3, <2>4
<1>8. ASSUME NEW w \in Workers, CommitIngest(w) PROVE (OpOK /\ LocksExclude /\ WinnerStays)'
  BY <1>0, <1>8 DEF CommitIngest, At, Goto, End, tables, history
<1>9. ASSUME NEW w \in Workers, CheckWinner(w) PROVE (OpOK /\ LocksExclude /\ WinnerStays)'
  BY <1>0, <1>9 DEF CheckWinner, At, Goto, End, tables, history
<1>10. ASSUME NEW w \in Workers, CheckApps(w) PROVE (OpOK /\ LocksExclude /\ WinnerStays)'
  BY <1>0, <1>10 DEF CheckApps, At, Goto, End, tables, history
<1>11. ASSUME NEW w \in Workers, InsertAlias(w) PROVE (OpOK /\ LocksExclude /\ WinnerStays)'
  BY <1>0, <1>11 DEF InsertAlias, At, Waits, Goto, End, tables, history
<1>12. ASSUME NEW w \in Workers, LockWinner(w) PROVE (OpOK /\ LocksExclude /\ WinnerStays)'
  BY <1>0, <1>12 DEF LockWinner, At, Waits, Goto, End, tables, history
<1>13. ASSUME NEW w \in Workers, ReadOffset(w) PROVE (OpOK /\ LocksExclude /\ WinnerStays)'
  BY <1>0, <1>13 DEF ReadOffset, At, Goto, End, tables, history
<1>14. ASSUME NEW w \in Workers, MoveSources(w) PROVE (OpOK /\ LocksExclude /\ WinnerStays)'
  BY <1>0, <1>14 DEF MoveSources, At, Goto, End, tables, history
<1>15. ASSUME NEW w \in Workers, DropLoser(w) PROVE (OpOK /\ LocksExclude /\ WinnerStays)'
  BY <1>0, <1>15 DEF DropLoser, At, Waits, Goto, End, tables, history
<1>16. ASSUME NEW w \in Workers, CommitMerge(w) PROVE (OpOK /\ LocksExclude /\ WinnerStays)'
  BY <1>0, <1>16 DEF CommitMerge, At, Goto
<1>17. ASSUME NEW w \in Workers, SelectVictims(w) PROVE (OpOK /\ LocksExclude /\ WinnerStays)'
  BY <1>0, <1>17 DEF SelectVictims, At, Goto, End, tables, history
<1>18. ASSUME NEW w \in Workers, PurgeSources(w) PROVE (OpOK /\ LocksExclude /\ WinnerStays)'
  BY <1>0, <1>18 DEF PurgeSources, At, Goto, End, tables, history
<1>19. ASSUME NEW w \in Workers, RollBack(w) PROVE (OpOK /\ LocksExclude /\ WinnerStays)'
  BY <1>0, <1>19 DEF RollBack, At, Goto, End, tables, history
<1>20. CASE UNCHANGED vars
  BY <1>20 DEF vars, tables, history
<1>. QED
  BY <1>1, <1>2, <1>3, <1>4, <1>5, <1>6, <1>7, <1>8, <1>9, <1>10, <1>11, <1>12, <1>13, <1>14, <1>15, <1>16, <1>17, <1>18, <1>19, <1>20
  DEF Next, IngestStep, MergeStep, PurgeStep

\* The tables and the workers' variables stay well typed: a merge leaves no
\* alias and no source that points at an app that is gone.
THEOREM TypeCorrect == Spec => []TypeOK
<1>1. LockInv /\ [Next]_vars => LockInv'
  BY TypeStep, LockStep DEF LockInv
<1>. QED
  BY <1>1, InitLocks, PTL DEF Spec, LockInv

LEMMA LocksHold == Spec => []LockInv
<1>1. LockInv /\ [Next]_vars => LockInv'
  BY TypeStep, LockStep DEF LockInv
<1>. QED
  BY <1>1, InitLocks, PTL DEF Spec

-----------------------------------------------------------------------------
(* The ledger: what a transaction has computed from it stays true of it.   *)

Positive ==
    /\ \A i \in Ids : home[i] # None => epoch[i] >= 1
    /\ \A w \in Workers :
         /\ pc[w] \in {"insert", "prev", "icommit"} => num[w] >= 1
         /\ pc[w] \in {"drop", "mcommit"} => \A i \in moved[w] : epoch[i] >= 1

MovedOwn ==
    /\ \A w \in Workers : pc[w] \in IngestPc => home[w] = None
    /\ \A w \in Workers :
         pc[w] \in {"drop", "mcommit"} => \A i \in moved[w] : home[i] = job[w].kb

EpochsBelow ==
    \A w \in Workers : \A i \in Ids :
        /\ pc[w] \in {"insert", "prev", "icommit"} /\ home[i] = tgt[w] => epoch[i] < num[w]
        /\ pc[w] \in {"move", "drop", "mcommit"} /\ home[i] = job[w].into => epoch[i] <= num[w]

Purged == \E v \in Workers : job[v].op = "gc" /\ pc[v] = "done"
PrevThere ==
    \A w \in Workers :
        pc[w] \in {"insert", "prev"} /\ num[w] > 1 =>
            \/ Purged
            \/ \E i \in Ids : home[i] = tgt[w] /\ epoch[i] = num[w] - 1

LeftIsExposed ==
    \A w \in Workers : \A i \in Ids :
        pc[w] \in {"drop", "mcommit"} /\ home[i] = job[w].kb => i \in moved[w] \/ i \in exposed

(* Epochs start at one.                                                    *)
LEMMA PositiveStep == LockInv /\ Positive /\ [Next]_vars => (Positive)'
<1>. SUFFICES ASSUME LockInv /\ Positive, [Next]_vars PROVE (Positive)'
  OBVIOUS
<1>. USE DEF LockInv, TypeOK, OpOK, IngestPc, MergePc, PurgePc, Positive
<1>0. \A w \in Workers :
        /\ tgt[w] \in Kbs /\ job[w].kb \in Kbs /\ job[w].into \in Kbs
        /\ pc[w] \in MergePc => job[w].kb # job[w].into
  BY JobFacts
<1>1. ASSUME NEW w \in Workers, ResolveAlias(w) PROVE (Positive)'
  BY <1>0, <1>1 DEF ResolveAlias, At, Goto, End, tables, history
<1>2. ASSUME NEW w \in Workers, CheckIdempotency(w) PROVE (Positive)'
  BY <1>0, <1>2 DEF CheckIdempotency, At, Goto, End, tables, history
<1>3. ASSUME NEW w \in Workers, UpsertApp(w) PROVE (Positive)'
  BY <1>0, <1>3 DEF UpsertApp, At, Goto, End, tables, history
<1>4. ASSUME NEW w \in Workers, LockEpochs(w) PROVE (Positive)'
  BY <1>0, <1>4 DEF LockEpochs, At, Goto, End, tables, history
<1>5. ASSUME NEW w \in Workers, AllocateEpoch(w) PROVE (Positive)'
  <2>1. PICK n \in MaxEpoch(tgt[w]) : num' = [num EXCEPT ![w] = n + 1]
    BY <1>5 DEF AllocateEpoch
  <2>2. n \in Nat
    BY <2>1 DEF MaxEpoch, Epochs, Rows
  <2>. QED
    BY <1>5, <2>1, <2>2 DEF AllocateEpoch, At, Goto, tables, history
<1>6. ASSUME NEW w \in Workers, InsertSource(w) PROVE (Positive)'
  BY <1>0, <1>6 DEF InsertSource, At, Goto, End, tables, history
<1>7. ASSUME NEW w \in Workers, ResolvePrev(w) PROVE (Positive)'
  BY <1>0, <1>7 DEF ResolvePrev, At, Goto, End, tables, history
<1>8. ASSUME NEW w \in Workers, CommitIngest(w) PROVE (Positive)'
  BY <1>0, <1>8, LedgerAssumption DEF CommitIngest, At, Goto, LedgerAssumption, Ids
<1>9. ASSUME NEW w \in Workers, CheckWinner(w) PROVE (Positive)'
  BY <1>0, <1>9 DEF CheckWinner, At, Goto, End, tables, history
<1>10. ASSUME NEW w \in Workers, CheckApps(w) PROVE (Positive)'
  BY <1>0, <1>10 DEF CheckApps, At, Goto, End, tables, history
<1>11. ASSUME NEW w \in Workers, InsertAlias(w) PROVE (Positive)'
  BY <1>0, <1>11 DEF InsertAlias, At, Goto, End, tables, history
<1>12. ASSUME NEW w \in Workers, LockWinner(w) PROVE (Positive)'
  BY <1>0, <1>12 DEF LockWinner, At, Goto, End, tables, history
<1>13. ASSUME NEW w \in Workers, ReadOffset(w) PROVE (Positive)'
  BY <1>0, <1>13 DEF ReadOffset, At, Goto, End, tables, history
<1>14. ASSUME NEW w \in Workers, MoveSources(w) PROVE (Positive)'
  <2>1. None \notin Kbs
    BY LedgerAssumption DEF LedgerAssumption
  <2>. QED
    BY <1>0, <1>14, <2>1 DEF MoveSources, At, Goto, End, tables, history, Rows
<1>15. ASSUME NEW w \in Workers, DropLoser(w) PROVE (Positive)'
  BY <1>0, <1>15 DEF DropLoser, At, Goto, End, tables, history
<1>16. ASSUME NEW w \in Workers, CommitMerge(w) PROVE (Positive)'
  <2>1. \A i \in Ids : epoch'[i] >= epoch[i] /\ epoch'[i] \in Nat
    BY <1>16 DEF CommitMerge
  <2>2. \A i \in Ids : home'[i] # None => home[i] # None \/ i \in moved[w]
    BY <1>16 DEF CommitMerge
  <2>. QED
    BY <1>16, <2>1, <2>2 DEF CommitMerge, At, Goto
<1>17. ASSUME NEW w \in Workers, SelectVictims(w) PROVE (Positive)'
  BY <1>0, <1>17 DEF SelectVictims, At, Goto, End, tables, history
<1>18. ASSUME NEW w \in Workers, PurgeSources(w) PROVE (Positive)'
  BY <1>0, <1>18 DEF PurgeSources, At, Goto, End, tables, history
<1>19. ASSUME NEW w \in Workers, RollBack(w) PROVE (Positive)'
  BY <1>0, <1>19 DEF RollBack, At, Goto, End, tables, history
<1>20. CASE UNCHANGED vars
  BY <1>20 DEF vars, tables, history
<1>. QED
  BY <1>1, <1>2, <1>3, <1>4, <1>5, <1>6, <1>7, <1>8, <1>9, <1>10, <1>11, <1>12, <1>13, <1>14, <1>15, <1>16, <1>17, <1>18, <1>19, <1>20
  DEF Next, IngestStep, MergeStep, PurgeStep

(* The rows a merge has rewritten are the loser's until it commits.        *)
LEMMA MovedStep == LockInv /\ MovedOwn /\ [Next]_vars => (MovedOwn)'
<1>. SUFFICES ASSUME LockInv /\ MovedOwn, [Next]_vars PROVE (MovedOwn)'
  OBVIOUS
<1>. USE DEF LockInv, TypeOK, OpOK, IngestPc, MergePc, PurgePc, MovedOwn
<1>0. \A w \in Workers :
        /\ tgt[w] \in Kbs /\ job[w].kb \in Kbs /\ job[w].into \in Kbs
        /\ pc[w] \in MergePc => job[w].kb # job[w].into
  BY JobFacts
<1>1. ASSUME NEW w \in Workers, ResolveAlias(w) PROVE (MovedOwn)'
  BY <1>0, <1>1 DEF ResolveAlias, At, Goto, End, tables, history
<1>2. ASSUME NEW w \in Workers, CheckIdempotency(w) PROVE (MovedOwn)'
  BY <1>0, <1>2 DEF CheckIdempotency, At, Goto, End, tables, history
<1>3. ASSUME NEW w \in Workers, UpsertApp(w) PROVE (MovedOwn)'
  BY <1>0, <1>3 DEF UpsertApp, At, Goto, End, tables, history
<1>4. ASSUME NEW w \in Workers, LockEpochs(w) PROVE (MovedOwn)'
  BY <1>0, <1>4 DEF LockEpochs, At, Goto, End, tables, history
<1>5. ASSUME NEW w \in Workers, AllocateEpoch(w) PROVE (MovedOwn)'
  BY <1>0, <1>5 DEF AllocateEpoch, At, Goto, End, tables, history
<1>6. ASSUME NEW w \in Workers, InsertSource(w) PROVE (MovedOwn)'
  BY <1>0, <1>6 DEF InsertSource, At, Goto, End, tables, history
<1>7. ASSUME NEW w \in Workers, ResolvePrev(w) PROVE (MovedOwn)'
  BY <1>0, <1>7 DEF ResolvePrev, At, Goto, End, tables, history
<1>8. ASSUME NEW w \in Workers, CommitIngest(w) PROVE (MovedOwn)'
  <2>1. w \in Ids /\ tgt[w] # None
    BY <1>0, LedgerAssumption DEF Ids, LedgerAssumption
  <2>2. \A v \in Workers : pc[v] \in {"drop", "mcommit"} => w \notin moved[v]
    BY <1>0, <1>8, LedgerAssumption DEF CommitIngest, At, LedgerAssumption
  <2>. QED
    BY <1>8, <2>1, <2>2 DEF CommitIngest, At, Goto, Ids
<1>9. ASSUME NEW w \in Workers, CheckWinner(w) PROVE (MovedOwn)'
  BY <1>0, <1>9 DEF CheckWinner, At, Goto, End, tables, history
<1>10. ASSUME NEW w \in Workers, CheckApps(w) PROVE (MovedOwn)'
  BY <1>0, <1>10 DEF CheckApps, At, Goto, End, tables, history
<1>11. ASSUME NEW w \in Workers, InsertAlias(w) PROVE (MovedOwn)'
  BY <1>0, <1>11 DEF InsertAlias, At, Goto, End, tables, history
<1>12. ASSUME NEW w \in Workers, LockWinner(w) PROVE (MovedOwn)'
  BY <1>0, <1>12 DEF LockWinner, At, Goto, End, tables, history
<1>13. ASSUME NEW w \in Workers, ReadOffset(w) PROVE (MovedOwn)'
  BY <1>0, <1>13 DEF ReadOffset, At, Goto, End, tables, history
<1>14. ASSUME NEW w \in Workers, MoveSources(w) PROVE (MovedOwn)'
  BY <1>0, <1>14 DEF MoveSources, At, Goto, End, tables, history, Rows
<1>15. ASSUME NEW w \in Workers, DropLoser(w) PROVE (MovedOwn)'
  BY <1>0, <1>15 DEF DropLoser, At, Goto, End, tables, history
<1>16. ASSUME NEW w \in Workers, CommitMerge(w) PROVE (MovedOwn)'
  <2>1. \A v \in Workers : v # w /\ pc[v] \in {"drop", "mcommit"} => job[v].kb # job[w].kb
    BY <1>0, <1>16 DEF CommitMerge, At, LocksExclude, Aliasing
  <2>2. \A v \in Workers : \A i \in moved[v] :
            v # w /\ pc[v] \in {"drop", "mcommit"} => i \notin moved[w] /\ home'[i] = home[i]
    BY <1>0, <1>16, <2>1 DEF CommitMerge, At, Rows
  <2>3. \A v \in Workers : pc[v] \in IngestPc => home'[v] = None
    BY <1>0, <1>16, LedgerAssumption DEF CommitMerge, At, Rows, Ids, LedgerAssumption
  <2>. QED
    BY <1>16, <2>2, <2>3 DEF CommitMerge, At, Goto
<1>17. ASSUME NEW w \in Workers, SelectVictims(w) PROVE (MovedOwn)'
  BY <1>0, <1>17 DEF SelectVictims, At, Goto, End, tables, history
<1>18. ASSUME NEW w \in Workers, PurgeSources(w) PROVE (MovedOwn)'
  BY <1>0, <1>18 DEF PurgeSources, At, Waits, Goto, Ids
<1>19. ASSUME NEW w \in Workers, RollBack(w) PROVE (MovedOwn)'
  BY <1>0, <1>19 DEF RollBack, At, Goto, End, tables, history
<1>20. CASE UNCHANGED vars
  BY <1>20 DEF vars, tables, history
<1>. QED
  BY <1>1, <1>2, <1>3, <1>4, <1>5, <1>6, <1>7, <1>8, <1>9, <1>10, <1>11, <1>12, <1>13, <1>14, <1>15, <1>16, <1>17, <1>18, <1>19, <1>20
  DEF Next, IngestStep, MergeStep, PurgeStep

(* No epoch a transaction counts on is taken while it holds the lock.      *)
LEMMA BelowStep == LockInv /\ Positive /\ EpochsBelow /\ [Next]_vars => (EpochsBelow)'
<1>. SUFFICES ASSUME LockInv /\ Positive /\ EpochsBelow, [Next]_vars PROVE (EpochsBelow)'
  OBVIOUS
<1>. USE DEF LockInv, TypeOK, OpOK, IngestPc, MergePc, PurgePc, EpochsBelow
<1>0. \A w \in Workers :
        /\ tgt[w] \in Kbs /\ job[w].kb \in Kbs /\ job[w].into \in Kbs
        /\ pc[w] \in MergePc => job[w].kb # job[w].into
  BY JobFacts
<1>1. ASSUME NEW w \in Workers, ResolveAlias(w) PROVE (EpochsBelow)'
  BY <1>0, <1>1 DEF ResolveAlias, At, Goto, tables, history
<1>2. ASSUME NEW w \in Workers, CheckIdempotency(w) PROVE (EpochsBelow)'
  BY <1>0, <1>2 DEF CheckIdempotency, At, Goto, End, tables, history
<1>3. ASSUME NEW w \in Workers, UpsertApp(w) PROVE (EpochsBelow)'
  BY <1>0, <1>3 DEF UpsertApp, At, Goto, End, tables, history
<1>4. ASSUME NEW w \in Workers, LockEpochs(w) PROVE (EpochsBelow)'
  BY <1>0, <1>4 DEF LockEpochs, At, Goto, End, tables, history
<1>5. ASSUME NEW w \in Workers, AllocateEpoch(w) PROVE (EpochsBelow)'
  <2>1. PICK n \in MaxEpoch(tgt[w]) : num' = [num EXCEPT ![w] = n + 1]
    BY <1>5 DEF AllocateEpoch
  <2>2. n \in Nat /\ \A i \in Ids : home[i] = tgt[w] => epoch[i] <= n
    BY <2>1 DEF MaxEpoch, Epochs, Rows
  <2>. QED
    BY <1>0, <1>5, <2>1, <2>2 DEF AllocateEpoch, At, Goto, tables, history
<1>6. ASSUME NEW w \in Workers, InsertSource(w) PROVE (EpochsBelow)'
  BY <1>0, <1>6 DEF InsertSource, At, Goto, End, tables, history
<1>7. ASSUME NEW w \in Workers, ResolvePrev(w) PROVE (EpochsBelow)'
  BY <1>0, <1>7 DEF ResolvePrev, At, Goto, End, tables, history
<1>8. ASSUME NEW w \in Workers, CommitIngest(w) PROVE (EpochsBelow)'
  <2>1. ASSUME NEW v \in Workers, v # w
        PROVE  /\ pc[v] \in {"insert", "prev", "icommit"} => tgt[v] # tgt[w]
               /\ pc[v] \in {"move", "drop", "mcommit"} => job[v].into # tgt[w]
    BY <1>0, <1>8, <2>1 DEF CommitIngest, At, LocksExclude, HasEpochLock
  <2>. QED
    BY <1>8, <2>1 DEF CommitIngest, At, Goto
<1>9. ASSUME NEW w \in Workers, CheckWinner(w) PROVE (EpochsBelow)'
  BY <1>0, <1>9 DEF CheckWinner, At, Goto, End, tables, history
<1>10. ASSUME NEW w \in Workers, CheckApps(w) PROVE (EpochsBelow)'
  BY <1>0, <1>10 DEF CheckApps, At, Goto, End, tables, history
<1>11. ASSUME NEW w \in Workers, InsertAlias(w) PROVE (EpochsBelow)'
  BY <1>0, <1>11 DEF InsertAlias, At, Goto, End, tables, history
<1>12. ASSUME NEW w \in Workers, LockWinner(w) PROVE (EpochsBelow)'
  BY <1>0, <1>12 DEF LockWinner, At, Goto, End, tables, history
<1>13. ASSUME NEW w \in Workers, ReadOffset(w) PROVE (EpochsBelow)'
  <2>1. PICK n \in MaxEpoch(job[w].into) : num' = [num EXCEPT ![w] = n]
    BY <1>13 DEF ReadOffset
  <2>2. n \in Nat /\ \A i \in Ids : home[i] = job[w].into => epoch[i] <= n
    BY <2>1 DEF MaxEpoch, Epochs, Rows
  <2>. QED
    BY <1>0, <1>13, <2>1, <2>2 DEF ReadOffset, At, Goto, tables, history
<1>14. ASSUME NEW w \in Workers, MoveSources(w) PROVE (EpochsBelow)'
  BY <1>0, <1>14 DEF MoveSources, At, Goto, End, tables, history
<1>15. ASSUME NEW w \in Workers, DropLoser(w) PROVE (EpochsBelow)'
  BY <1>0, <1>15 DEF DropLoser, At, Goto, End, tables, history
<1>16. ASSUME NEW w \in Workers, CommitMerge(w) PROVE (EpochsBelow)'
  <2>1. ASSUME NEW v \in Workers, v # w
        PROVE  /\ pc[v] \in {"insert", "prev", "icommit"} => tgt[v] # job[w].into
               /\ pc[v] \in {"move", "drop", "mcommit"} => job[v].into # job[w].into
    BY <1>0, <1>16, <2>1 DEF CommitMerge, At, LocksExclude, HasEpochLock
  <2>2. \A i \in Ids : \A k \in Kbs : home'[i] = k /\ k # job[w].into =>
            home[i] = k /\ epoch'[i] = epoch[i]
    BY <1>0, <1>16, LedgerAssumption DEF CommitMerge, LedgerAssumption
  <2>. QED
    BY <1>0, <1>16, <2>1, <2>2 DEF CommitMerge, At, Goto
<1>17. ASSUME NEW w \in Workers, SelectVictims(w) PROVE (EpochsBelow)'
  BY <1>0, <1>17 DEF SelectVictims, At, Goto, End, tables, history
<1>18. ASSUME NEW w \in Workers, PurgeSources(w) PROVE (EpochsBelow)'
  BY <1>0, <1>18, LedgerAssumption DEF PurgeSources, At, Goto, LedgerAssumption
<1>19. ASSUME NEW w \in Workers, RollBack(w) PROVE (EpochsBelow)'
  BY <1>0, <1>19 DEF RollBack, At, Goto, End, tables, history
<1>20. CASE UNCHANGED vars
  BY <1>20 DEF vars, tables, history
<1>. QED
  BY <1>1, <1>2, <1>3, <1>4, <1>5, <1>6, <1>7, <1>8, <1>9, <1>10, <1>11, <1>12, <1>13, <1>14, <1>15, <1>16, <1>17, <1>18, <1>19, <1>20
  DEF Next, IngestStep, MergeStep, PurgeStep

(* So nothing clashes.                                                     *)
LEMMA ClashStep == LockInv /\ Positive /\ EpochsBelow /\ NoEpochClash /\ [Next]_vars => (NoEpochClash)'
<1>. SUFFICES ASSUME LockInv /\ Positive /\ EpochsBelow /\ NoEpochClash, [Next]_vars PROVE (NoEpochClash)'
  OBVIOUS
<1>. USE DEF LockInv, TypeOK, OpOK, IngestPc, MergePc, PurgePc, NoEpochClash
<1>0. \A w \in Workers :
        /\ tgt[w] \in Kbs /\ job[w].kb \in Kbs /\ job[w].into \in Kbs
        /\ pc[w] \in MergePc => job[w].kb # job[w].into
  BY JobFacts
<1>1. ASSUME NEW w \in Workers, ResolveAlias(w) PROVE (NoEpochClash)'
  BY <1>0, <1>1 DEF ResolveAlias, At, Goto, End, tables, history
<1>2. ASSUME NEW w \in Workers, CheckIdempotency(w) PROVE (NoEpochClash)'
  BY <1>0, <1>2 DEF CheckIdempotency, At, Goto, End, tables, history
<1>3. ASSUME NEW w \in Workers, UpsertApp(w) PROVE (NoEpochClash)'
  BY <1>0, <1>3 DEF UpsertApp, At, Goto, End, tables, history
<1>4. ASSUME NEW w \in Workers, LockEpochs(w) PROVE (NoEpochClash)'
  BY <1>0, <1>4 DEF LockEpochs, At, Goto, End, tables, history
<1>5. ASSUME NEW w \in Workers, AllocateEpoch(w) PROVE (NoEpochClash)'
  BY <1>0, <1>5 DEF AllocateEpoch, At, Goto, End, tables, history
<1>6. ASSUME NEW w \in Workers, InsertSource(w) PROVE (NoEpochClash)'
  <2>1. num[w] \notin Epochs(tgt[w])
    BY <1>6 DEF InsertSource, At, EpochsBelow, Epochs, Rows
  <2>. QED
    BY <1>6, <2>1 DEF InsertSource, Goto
<1>7. ASSUME NEW w \in Workers, ResolvePrev(w) PROVE (NoEpochClash)'
  BY <1>0, <1>7 DEF ResolvePrev, At, Goto, End, tables, history
<1>8. ASSUME NEW w \in Workers, CommitIngest(w) PROVE (NoEpochClash)'
  BY <1>0, <1>8 DEF CommitIngest, At, Goto, End, tables, history
<1>9. ASSUME NEW w \in Workers, CheckWinner(w) PROVE (NoEpochClash)'
  BY <1>0, <1>9 DEF CheckWinner, At, Goto, End, tables, history
<1>10. ASSUME NEW w \in Workers, CheckApps(w) PROVE (NoEpochClash)'
  BY <1>0, <1>10 DEF CheckApps, At, Goto, End, tables, history
<1>11. ASSUME NEW w \in Workers, InsertAlias(w) PROVE (NoEpochClash)'
  BY <1>0, <1>11 DEF InsertAlias, At, Goto, End, tables, history
<1>12. ASSUME NEW w \in Workers, LockWinner(w) PROVE (NoEpochClash)'
  BY <1>0, <1>12 DEF LockWinner, At, Goto, End, tables, history
<1>13. ASSUME NEW w \in Workers, ReadOffset(w) PROVE (NoEpochClash)'
  BY <1>0, <1>13 DEF ReadOffset, At, Goto, End, tables, history
<1>14. ASSUME NEW w \in Workers, MoveSources(w) PROVE (NoEpochClash)'
  <2>1. ASSUME NEW i \in Rows(job[w].kb) PROVE epoch[i] + num[w] \notin Epochs(job[w].into)
    <3>1. i \in Ids /\ epoch[i] >= 1 /\ epoch[i] \in Nat /\ num[w] \in Nat
      BY <1>0, LedgerAssumption DEF Rows, Positive, LedgerAssumption
    <3>2. \A j \in Rows(job[w].into) : epoch[j] \in Nat /\ epoch[j] <= num[w]
      BY <1>14 DEF MoveSources, At, EpochsBelow, Rows
    <3>. QED
      BY <3>1, <3>2 DEF Epochs
  <2>. QED
    BY <1>14, <2>1 DEF MoveSources, Goto
<1>15. ASSUME NEW w \in Workers, DropLoser(w) PROVE (NoEpochClash)'
  BY <1>0, <1>15 DEF DropLoser, At, Goto, End, tables, history
<1>16. ASSUME NEW w \in Workers, CommitMerge(w) PROVE (NoEpochClash)'
  BY <1>0, <1>16 DEF CommitMerge, At, Goto, End, tables, history
<1>17. ASSUME NEW w \in Workers, SelectVictims(w) PROVE (NoEpochClash)'
  BY <1>0, <1>17 DEF SelectVictims, At, Goto, End, tables, history
<1>18. ASSUME NEW w \in Workers, PurgeSources(w) PROVE (NoEpochClash)'
  BY <1>0, <1>18 DEF PurgeSources, At, Goto, End, tables, history
<1>19. ASSUME NEW w \in Workers, RollBack(w) PROVE (NoEpochClash)'
  BY <1>0, <1>19 DEF RollBack, At, Goto, End, tables, history
<1>20. CASE UNCHANGED vars
  BY <1>20 DEF vars, tables, history
<1>. QED
  BY <1>1, <1>2, <1>3, <1>4, <1>5, <1>6, <1>7, <1>8, <1>9, <1>10, <1>11, <1>12, <1>13, <1>14, <1>15, <1>16, <1>17, <1>18, <1>19, <1>20
  DEF Next, IngestStep, MergeStep, PurgeStep

(* The base of a diff stays while its ingest is open.                      *)
LEMMA PrevStep == LockInv /\ MovedOwn /\ PrevThere /\ PrevFound /\ [Next]_vars => (PrevThere /\ PrevFound)'
<1>. SUFFICES ASSUME LockInv /\ MovedOwn /\ PrevThere /\ PrevFound, [Next]_vars PROVE (PrevThere /\ PrevFound)'
  OBVIOUS
<1>. USE DEF LockInv, TypeOK, OpOK, IngestPc, MergePc, PurgePc, PrevThere, PrevFound, Purged
<1>0. \A w \in Workers :
        /\ tgt[w] \in Kbs /\ job[w].kb \in Kbs /\ job[w].into \in Kbs
        /\ pc[w] \in MergePc => job[w].kb # job[w].into
  BY JobFacts
<1>1. ASSUME NEW w \in Workers, ResolveAlias(w) PROVE (PrevThere /\ PrevFound)'
  BY <1>0, <1>1 DEF ResolveAlias, At, Goto, End, tables, history
<1>2. ASSUME NEW w \in Workers, CheckIdempotency(w) PROVE (PrevThere /\ PrevFound)'
  BY <1>0, <1>2 DEF CheckIdempotency, At, Goto, End, tables, history
<1>3. ASSUME NEW w \in Workers, UpsertApp(w) PROVE (PrevThere /\ PrevFound)'
  BY <1>0, <1>3 DEF UpsertApp, At, Goto, End, tables, history
<1>4. ASSUME NEW w \in Workers, LockEpochs(w) PROVE (PrevThere /\ PrevFound)'
  BY <1>0, <1>4 DEF LockEpochs, At, Goto, End, tables, history
<1>5. ASSUME NEW w \in Workers, AllocateEpoch(w) PROVE (PrevThere /\ PrevFound)'
  <2>1. PICK n \in MaxEpoch(tgt[w]) : num' = [num EXCEPT ![w] = n + 1]
    BY <1>5 DEF AllocateEpoch
  <2>2. n \in Nat /\ (n = 0 \/ \E i \in Ids : home[i] = tgt[w] /\ epoch[i] = n)
    BY <2>1 DEF MaxEpoch, Epochs, Rows
  <2>3. num'[w] > 1 => \E i \in Ids : home[i] = tgt[w] /\ epoch[i] = num'[w] - 1
    BY <2>1, <2>2
  <2>4. /\ home' = home /\ epoch' = epoch /\ tgt' = tgt /\ job' = job /\ err' = err
        /\ pc' = [pc EXCEPT ![w] = "insert"]
        /\ \A v \in Workers : v # w => num'[v] = num[v]
    BY <1>5, <2>1 DEF AllocateEpoch, Goto, tables
  <2>5. Purged => Purged'
    BY <1>5, <2>4 DEF AllocateEpoch, At
  <2>6. ASSUME NEW v \in Workers, pc'[v] \in {"insert", "prev"}, num'[v] > 1
        PROVE  Purged' \/ \E i \in Ids : home'[i] = tgt'[v] /\ epoch'[i] = num'[v] - 1
    <3>1. CASE v = w
      BY <2>3, <2>4, <2>6, <3>1
    <3>2. CASE v # w
      <4>1. pc[v] \in {"insert", "prev"} /\ num[v] > 1
        BY <2>4, <2>6, <3>2
      <4>. QED
        BY <2>4, <2>5, <3>2, <4>1 DEF PrevThere
    <3>. QED
      BY <3>1, <3>2
  <2>7. PrevFound'
    BY <1>5, <2>4, <2>5 DEF PrevFound, Purged
  <2>. QED
    BY <2>6, <2>7 DEF PrevThere
<1>6. ASSUME NEW w \in Workers, InsertSource(w) PROVE (PrevThere /\ PrevFound)'
  BY <1>0, <1>6 DEF InsertSource, At, Goto, End, tables, history
<1>7. ASSUME NEW w \in Workers, ResolvePrev(w) PROVE (PrevThere /\ PrevFound)'
  <2>1. num[w] > 1 => Purged \/ num[w] - 1 \in Epochs(tgt[w])
    BY <1>7 DEF ResolvePrev, At, Epochs, Rows
  <2>2. /\ home' = home /\ epoch' = epoch /\ tgt' = tgt /\ job' = job /\ num' = num
        /\ \/ pc' = [pc EXCEPT ![w] = "icommit"] /\ err' = err
           \/ /\ pc' = [pc EXCEPT ![w] = "done"] /\ err' = [err EXCEPT ![w] = "prev"]
              /\ num[w] > 1 /\ num[w] - 1 \notin Epochs(tgt[w])
    BY <1>7 DEF ResolvePrev, Goto, End, tables
  <2>3. Purged => Purged'
    BY <1>7, <2>2 DEF ResolvePrev, At
  <2>4. PrevFound'
    BY <2>1, <2>2, <2>3 DEF PrevFound, Purged
  <2>5. PrevThere'
    BY <2>2, <2>3 DEF PrevThere
  <2>. QED
    BY <2>4, <2>5
<1>8. ASSUME NEW w \in Workers, CommitIngest(w) PROVE (PrevThere /\ PrevFound)'
  <2>1. /\ \A i \in Ids : home[i] # None => home'[i] = home[i] /\ epoch'[i] = epoch[i]
        /\ tgt' = tgt /\ job' = job /\ num' = num /\ err' = err /\ home[w] = None
        /\ pc[w] = "icommit" /\ pc' = [pc EXCEPT ![w] = "done"]
    BY <1>0, <1>8 DEF CommitIngest, At, Goto, MovedOwn
  <2>2. Purged => Purged'
    BY <2>1
  <2>3. None \notin Kbs
    BY LedgerAssumption DEF LedgerAssumption
  <2>4. PrevThere'
    BY <1>0, <2>1, <2>2, <2>3 DEF PrevThere
  <2>5. PrevFound'
    BY <2>1, <2>2 DEF PrevFound, Purged
  <2>. QED
    BY <2>4, <2>5
<1>9. ASSUME NEW w \in Workers, CheckWinner(w) PROVE (PrevThere /\ PrevFound)'
  BY <1>0, <1>9 DEF CheckWinner, At, Goto, End, tables, history
<1>10. ASSUME NEW w \in Workers, CheckApps(w) PROVE (PrevThere /\ PrevFound)'
  BY <1>0, <1>10 DEF CheckApps, At, Goto, End, tables, history
<1>11. ASSUME NEW w \in Workers, InsertAlias(w) PROVE (PrevThere /\ PrevFound)'
  BY <1>0, <1>11 DEF InsertAlias, At, Goto, End, tables, history
<1>12. ASSUME NEW w \in Workers, LockWinner(w) PROVE (PrevThere /\ PrevFound)'
  BY <1>0, <1>12 DEF LockWinner, At, Goto, End, tables, history
<1>13. ASSUME NEW w \in Workers, ReadOffset(w) PROVE (PrevThere /\ PrevFound)'
  BY <1>0, <1>13 DEF ReadOffset, At, Goto, End, tables, history
<1>14. ASSUME NEW w \in Workers, MoveSources(w) PROVE (PrevThere /\ PrevFound)'
  BY <1>0, <1>14 DEF MoveSources, At, Goto, End, tables, history
<1>15. ASSUME NEW w \in Workers, DropLoser(w) PROVE (PrevThere /\ PrevFound)'
  BY <1>0, <1>15 DEF DropLoser, At, Goto, End, tables, history
<1>16. ASSUME NEW w \in Workers, CommitMerge(w) PROVE (PrevThere /\ PrevFound)'
  <2>1. ASSUME NEW v \in Workers, pc[v] \in {"insert", "prev"}, NEW i \in Ids, home[i] = tgt[v]
        PROVE  home'[i] = home[i] /\ epoch'[i] = epoch[i]
    <3>1. v # w /\ tgt[v] # job[w].kb /\ tgt[v] # job[w].into
      BY <1>0, <1>16, <2>1 DEF CommitMerge, At, LocksExclude, Dropping, Ingesting, HasEpochLock
    <3>2. i \notin moved[w]
      BY <1>0, <1>16, <2>1, <3>1 DEF MovedOwn, CommitMerge, At
    <3>. QED
      BY <1>0, <1>16, <2>1, <3>1, <3>2 DEF CommitMerge, Rows
  <2>. QED
    BY <1>16, <2>1 DEF CommitMerge, At, Goto
<1>17. ASSUME NEW w \in Workers, SelectVictims(w) PROVE (PrevThere /\ PrevFound)'
  BY <1>0, <1>17 DEF SelectVictims, At, Goto, End, tables, history
<1>18. ASSUME NEW w \in Workers, PurgeSources(w) PROVE (PrevThere /\ PrevFound)'
  BY <1>18 DEF PurgeSources, At, Goto
<1>19. ASSUME NEW w \in Workers, RollBack(w) PROVE (PrevThere /\ PrevFound)'
  BY <1>0, <1>19 DEF RollBack, At, Goto, End, tables, history
<1>20. CASE UNCHANGED vars
  BY <1>20 DEF vars, tables, history
<1>. QED
  BY <1>1, <1>2, <1>3, <1>4, <1>5, <1>6, <1>7, <1>8, <1>9, <1>10, <1>11, <1>12, <1>13, <1>14, <1>15, <1>16, <1>17, <1>18, <1>19, <1>20
  DEF Next, IngestStep, MergeStep, PurgeStep

(* What is left of a rewritten loser came after the rewrite.               *)
LEMMA WindowStep == LockInv /\ LeftIsExposed /\ LostOnlyInWindow /\ [Next]_vars => (LeftIsExposed /\ LostOnlyInWindow)'
<1>. SUFFICES ASSUME LockInv /\ LeftIsExposed /\ LostOnlyInWindow, [Next]_vars PROVE (LeftIsExposed /\ LostOnlyInWindow)'
  OBVIOUS
<1>. USE DEF LockInv, TypeOK, OpOK, IngestPc, MergePc, PurgePc, LeftIsExposed, LostOnlyInWindow
<1>0. \A w \in Workers :
        /\ tgt[w] \in Kbs /\ job[w].kb \in Kbs /\ job[w].into \in Kbs
        /\ pc[w] \in MergePc => job[w].kb # job[w].into
  BY JobFacts
<1>1. ASSUME NEW w \in Workers, ResolveAlias(w) PROVE (LeftIsExposed /\ LostOnlyInWindow)'
  BY <1>0, <1>1 DEF ResolveAlias, At, Goto, End, tables, history
<1>2. ASSUME NEW w \in Workers, CheckIdempotency(w) PROVE (LeftIsExposed /\ LostOnlyInWindow)'
  BY <1>0, <1>2 DEF CheckIdempotency, At, Goto, End, tables, history
<1>3. ASSUME NEW w \in Workers, UpsertApp(w) PROVE (LeftIsExposed /\ LostOnlyInWindow)'
  BY <1>0, <1>3 DEF UpsertApp, At, Goto, End, tables, history
<1>4. ASSUME NEW w \in Workers, LockEpochs(w) PROVE (LeftIsExposed /\ LostOnlyInWindow)'
  BY <1>0, <1>4 DEF LockEpochs, At, Goto, End, tables, history
<1>5. ASSUME NEW w \in Workers, AllocateEpoch(w) PROVE (LeftIsExposed /\ LostOnlyInWindow)'
  BY <1>0, <1>5 DEF AllocateEpoch, At, Goto, End, tables, history
<1>6. ASSUME NEW w \in Workers, InsertSource(w) PROVE (LeftIsExposed /\ LostOnlyInWindow)'
  BY <1>0, <1>6 DEF InsertSource, At, Goto, End, tables, history
<1>7. ASSUME NEW w \in Workers, ResolvePrev(w) PROVE (LeftIsExposed /\ LostOnlyInWindow)'
  BY <1>0, <1>7 DEF ResolvePrev, At, Goto, End, tables, history
<1>8. ASSUME NEW w \in Workers, CommitIngest(w) PROVE (LeftIsExposed /\ LostOnlyInWindow)'
  <2>1. ASSUME NEW v \in Workers, pc[v] \in {"drop", "mcommit"}, job[v].kb = tgt[w]
        PROVE  Rewritten(tgt[w])
    BY <1>0, <1>8, <2>1 DEF CommitIngest, At, LocksExclude, Dropping, Ingesting, Rewritten
  <2>. QED
    BY <1>8, <2>1 DEF CommitIngest, At, Goto
<1>9. ASSUME NEW w \in Workers, CheckWinner(w) PROVE (LeftIsExposed /\ LostOnlyInWindow)'
  BY <1>0, <1>9 DEF CheckWinner, At, Goto, End, tables, history
<1>10. ASSUME NEW w \in Workers, CheckApps(w) PROVE (LeftIsExposed /\ LostOnlyInWindow)'
  BY <1>0, <1>10 DEF CheckApps, At, Goto, End, tables, history
<1>11. ASSUME NEW w \in Workers, InsertAlias(w) PROVE (LeftIsExposed /\ LostOnlyInWindow)'
  BY <1>0, <1>11 DEF InsertAlias, At, Goto, End, tables, history
<1>12. ASSUME NEW w \in Workers, LockWinner(w) PROVE (LeftIsExposed /\ LostOnlyInWindow)'
  BY <1>0, <1>12 DEF LockWinner, At, Goto, End, tables, history
<1>13. ASSUME NEW w \in Workers, ReadOffset(w) PROVE (LeftIsExposed /\ LostOnlyInWindow)'
  BY <1>0, <1>13 DEF ReadOffset, At, Goto, End, tables, history
<1>14. ASSUME NEW w \in Workers, MoveSources(w) PROVE (LeftIsExposed /\ LostOnlyInWindow)'
  BY <1>0, <1>14 DEF MoveSources, At, Goto, End, tables, history, Rows
<1>15. ASSUME NEW w \in Workers, DropLoser(w) PROVE (LeftIsExposed /\ LostOnlyInWindow)'
  BY <1>0, <1>15 DEF DropLoser, At, Goto, End, tables, history
<1>16. ASSUME NEW w \in Workers, CommitMerge(w) PROVE (LeftIsExposed /\ LostOnlyInWindow)'
  <2>1. ASSUME NEW v \in Workers, pc[v] \in {"drop", "mcommit"}, job[v].kb = job[w].into
        PROVE  Rewritten(job[w].into)
    BY <1>0, <1>16, <2>1 DEF CommitMerge, At, LocksExclude, Dropping, Joining, Rewritten
  <2>2. lost' \subseteq exposed'
    BY <1>16 DEF CommitMerge, At, Rows
  <2>3. \A i \in Ids : \A k \in Kbs : home'[i] = k =>
            home[i] = k \/ (k = job[w].into /\ i \in moved[w])
    BY <1>0, <1>16, LedgerAssumption DEF CommitMerge, LedgerAssumption
  <2>4. exposed \subseteq exposed' /\ (Rewritten(job[w].into) => moved[w] \subseteq exposed')
    BY <1>16 DEF CommitMerge
  <2>. QED
    BY <1>0, <1>16, <2>1, <2>2, <2>3, <2>4 DEF CommitMerge, At, Goto
<1>17. ASSUME NEW w \in Workers, SelectVictims(w) PROVE (LeftIsExposed /\ LostOnlyInWindow)'
  BY <1>0, <1>17 DEF SelectVictims, At, Goto, End, tables, history
<1>18. ASSUME NEW w \in Workers, PurgeSources(w) PROVE (LeftIsExposed /\ LostOnlyInWindow)'
  <2>1. \A i \in Ids : \A k \in Kbs : home'[i] = k => home[i] = k
    BY <1>18, LedgerAssumption DEF PurgeSources, LedgerAssumption
  <2>. QED
    BY <1>0, <1>18, <2>1 DEF PurgeSources, At, Goto, history
<1>19. ASSUME NEW w \in Workers, RollBack(w) PROVE (LeftIsExposed /\ LostOnlyInWindow)'
  BY <1>0, <1>19 DEF RollBack, At, Goto, End, tables, history
<1>20. CASE UNCHANGED vars
  BY <1>20 DEF vars, tables, history
<1>. QED
  BY <1>1, <1>2, <1>3, <1>4, <1>5, <1>6, <1>7, <1>8, <1>9, <1>10, <1>11, <1>12, <1>13, <1>14, <1>15, <1>16, <1>17, <1>18, <1>19, <1>20
  DEF Next, IngestStep, MergeStep, PurgeStep

LedgerInv ==
    /\ LockInv /\ Positive /\ MovedOwn /\ EpochsBelow /\ PrevThere /\ LeftIsExposed
    /\ NoEpochClash /\ PrevFound /\ LostOnlyInWindow

LEMMA LedgerHolds == Spec => []LedgerInv
<1>1. Init => LedgerInv
  <2>. SUFFICES ASSUME Init PROVE LedgerInv
    OBVIOUS
  <2>1. LockInv
    BY InitLocks
  <2>2. \A w \in Workers : pc[w] \in {"resolve", "winner", "select"}
    BY <2>1, JobFacts DEF Init, First, JobType, Ops, LockInv, TypeOK
  <2>3. \A i \in Ids : home[i] # None => i \in Old /\ epoch[i] >= 1
    BY LedgerAssumption DEF Init, LedgerAssumption
  <2>4. /\ lost = {} /\ \A w \in Workers : err[w] = "none" /\ home[w] = None
    BY <2>3, LedgerAssumption DEF Init, LedgerAssumption, Ids
  <2>. QED
    BY <2>1, <2>2, <2>3, <2>4 DEF LedgerInv, Positive, MovedOwn, EpochsBelow,
       PrevThere, LeftIsExposed, NoEpochClash, PrevFound, LostOnlyInWindow
<1>2. LedgerInv /\ [Next]_vars => LedgerInv'
  BY TypeStep, LockStep, PositiveStep, MovedStep, BelowStep, ClashStep, PrevStep, WindowStep
  DEF LedgerInv, LockInv
<1>. QED
  BY <1>1, <1>2, PTL DEF Spec

\* The advisory lock and the order "lock, then read MAX" suffice: no ingest
\* and no merge ever meets an epoch that is taken.
THEOREM EpochsNeverClash == Spec => []NoEpochClash
<1>1. LedgerInv => NoEpochClash
  BY DEF LedgerInv
<1>. QED
  BY <1>1, LedgerHolds, PTL

\* An ingest finds the epoch before its own unless a purge has ended.
THEOREM BaseIsFound == Spec => []PrevFound
<1>1. LedgerInv => PrevFound
  BY DEF LedgerInv
<1>. QED
  BY <1>1, LedgerHolds, PTL

\* Both: however ingests and merges race, epochs follow one another.
THEOREM EpochsStaySerial == Spec => []EpochsSerial
  BY EpochsNeverClash, BaseIsFound, PTL DEF EpochsSerial

\* Merges lose only what was committed between their UPDATE and their DELETE.
THEOREM LostInWindow == Spec => []LostOnlyInWindow
<1>1. LedgerInv => LostOnlyInWindow
  BY DEF LedgerInv
<1>. QED
  BY <1>1, LedgerHolds, PTL

(* Who waits in a stuck set.  The key of an INSERT or of an UPDATE of      *)
(* sources is pending only in the hands of one who holds the advisory lock *)
(* of its kb_id, as the waiting one does too.                              *)
LEMMA NoKeyWait ==
    ASSUME LockInv, NEW w \in Workers, NEW v \in Workers, Waits(w, v)
    PROVE  pc[w] \in {"upsert", "ilock", "alias", "mlock", "drop", "purge"}
<1>. USE DEF LockInv, TypeOK, LocksExclude, HasEpochLock
<1>1. /\ v # w /\ tgt[w] \in Kbs /\ tgt[v] \in Kbs /\ job[w].into \in Kbs /\ job[v].into \in Kbs
  BY JobFacts DEF Waits
<1>2. \A k \in Kbs : \A n : <<k, n>> \in Pending(v) => HasEpochLock(v, k)
  BY <1>1 DEF Pending
<1>3. pc[w] # "insert"
  BY <1>1, <1>2 DEF Waits
<1>4. pc[w] # "move"
  BY <1>1, <1>2 DEF Waits
<1>. QED
  BY <1>3, <1>4 DEF Waits

\* Whoever waits for the advisory lock of k in a stuck set waits for a merge
\* into k that is about to drop its loser.
LEMMA LockWaitsForDrop ==
    ASSUME LockInv, NEW S \in SUBSET Workers, Stuck(S), NEW v \in S, NEW k,
           HasEpochLock(v, k)
    PROVE  pc[v] = "drop" /\ job[v].into = k
<1>1. PICK u \in S : Waits(v, u)
  BY DEF Stuck
<1>2. pc[v] \in {"upsert", "ilock", "alias", "mlock", "drop", "purge"}
  BY <1>1, NoKeyWait
<1>. QED
  BY <1>2 DEF HasEpochLock

\* Transactions deadlock only around merges that form a circle.
THEOREM DeadlocksAreCircles == Spec => []DeadlockOnlyInCircles
<1>1. ASSUME LockInv, NEW S \in SUBSET Workers, Stuck(S)
      PROVE  \E T \in SUBSET S : Circle(T)
  <2>. DEFINE T == {w \in S : pc[w] = "drop"}
  <2>0. \A w \in S : /\ \E v \in S : Waits(w, v)
                     /\ pc[w] \in {"upsert", "ilock", "alias", "mlock", "drop", "purge"}
    BY <1>1, NoKeyWait DEF Stuck
  <2>1. ASSUME NEW w \in S, pc[w] = "ilock"
        PROVE  \E u \in T : job[u].into = tgt[w]
    BY <1>1, <2>0, <2>1, LockWaitsForDrop DEF Waits
  <2>2. ASSUME NEW w \in S, pc[w] = "mlock"
        PROVE  \E u \in T : job[u].into = job[w].into
    BY <1>1, <2>0, <2>2, LockWaitsForDrop DEF Waits
  <2>3. \A w \in S : pc[w] = "drop" => \E u \in T : job[u].into = job[w].kb
    <3>. SUFFICES ASSUME NEW w \in S, pc[w] = "drop" PROVE \E u \in T : job[u].into = job[w].kb
      OBVIOUS
    <3>1. PICK v \in S : Ingesting(v, job[w].kb) \/ Joining(v, job[w].kb)
      BY <2>0 DEF Waits
    <3>2. \/ pc[v] = "ilock" /\ tgt[v] = job[w].kb
          \/ pc[v] \in {"mlock", "drop"} /\ job[v].into = job[w].kb
      BY <2>0, <3>1 DEF Ingesting, Joining
    <3>. QED
      BY <2>1, <2>2, <3>2
  <2>4. T # {}
    <3>1. PICK w \in S : TRUE
      BY <1>1 DEF Stuck
    <3>2. PICK v \in S : Waits(w, v)
      BY <2>0
    <3>3. pc[w] = "upsert" => pc[v] = "ilock"
      BY <2>0, <3>2 DEF Waits, Ingesting, Dropping
    <3>4. pc[w] = "alias" => pc[v] \in {"mlock", "drop"}
      BY <2>0, <3>2 DEF Waits, Aliasing, Dropping
    <3>5. pc[w] = "purge" => pc[v] = "drop"
      BY <2>0, <3>2 DEF Waits
    <3>. QED
      BY <2>0, <2>1, <2>2, <3>3, <3>4, <3>5
  <2>5. Circle(T)
    BY <2>3, <2>4 DEF Circle, MergePc
  <2>. QED
    BY <2>5
<1>2. LockInv => DeadlockOnlyInCircles
  BY <1>1 DEF DeadlockOnlyInCircles
<1>. QED
  BY <1>2, LocksHold, PTL

----------------------------------------------------------------------------
(* The histories.                                                          *)

\* What KbHistory's Init asks of an order, it keeps.
THEOREM HistoriesAreOrders == History!Spec => []History!Ordered
<1>. DEFINE HistInv == home \in [Ids -> Kbs \cup {None}] /\ History!Ordered
<1>0. None \notin Kbs
  BY LedgerAssumption DEF LedgerAssumption
<1>1. History!Init => HistInv
  BY DEF History!Init
<1>2. HistInv /\ [History!Next]_<<home, Before>> => HistInv'
  <2>. SUFFICES ASSUME HistInv, [History!Next]_<<home, Before>> PROVE HistInv'
    OBVIOUS
  <2>. HIDE DEF Before
  <2>. USE DEF History!Ordered, History!Lineage, History!Within
  <2>1. ASSUME NEW i \in Ids, NEW k \in Kbs, History!Capture(i, k) PROVE HistInv'
    BY <1>0, <2>1 DEF History!Capture
  <2>2. ASSUME NEW loser \in Kbs, NEW winner \in Kbs, NEW kept \in SUBSET Ids,
               History!Merge(loser, winner, kept)
        PROVE  HistInv'
    BY <1>0, <2>2 DEF History!Merge
  <2>3. ASSUME NEW gone \in SUBSET Ids, History!Purge(gone) PROVE HistInv'
    BY <1>0, <2>3 DEF History!Purge
  <2>4. CASE UNCHANGED <<home, Before>>
    BY <2>4
  <2>. QED
    BY <2>1, <2>2, <2>3, <2>4 DEF History!Next
<1>3. HistInv => History!Ordered
  OBVIOUS
<1>. QED
  BY <1>1, <1>2, <1>3, PTL DEF History!Spec

LEMMA OrderedInit == Init => History!Init
<1>. SUFFICES ASSUME Init PROVE History!Init
  OBVIOUS
<1>1. home \in [Ids -> Kbs \cup {None}]
  BY LedgerAssumption DEF Init, LedgerAssumption
<1>2. \A i \in Ids : home[i] # None => i \in Old /\ home[i] = OldHome[i] /\ epoch[i] = OldEpoch[i]
  BY LedgerAssumption DEF Init, LedgerAssumption
<1>3. \A i \in Ids : home[i] # None => epoch[i] \in Nat
  BY <1>2, LedgerAssumption DEF LedgerAssumption
<1>4. \A i, j \in Ids :
        home[i] # None /\ home[i] = home[j] /\ i # j => epoch[i] < epoch[j] \/ epoch[j] < epoch[i]
  BY <1>2, <1>3, LedgerAssumption DEF LedgerAssumption
<1>5. \A k \in Kbs : k # None
  BY LedgerAssumption DEF LedgerAssumption
<1>. QED
  BY <1>1, <1>3, <1>4, <1>5 DEF History!Init, History!Ordered, History!Lineage, Before

\* A capture comes after all of its lineage: AllocateEpoch's number is still
\* above every other when the ingest commits.
LEMMA CommitAppends ==
    ASSUME LedgerInv, NEW w \in Workers, CommitIngest(w)
    PROVE  History!Capture(w, tgt[w])
<1>. USE DEF LedgerInv, LockInv, TypeOK
<1>1. /\ w \in Ids /\ tgt[w] \in Kbs /\ home[w] = None /\ None \notin Kbs
      /\ \A i \in Ids : home[i] = tgt[w] => epoch[i] < num[w]
  BY LedgerAssumption DEF LedgerAssumption, Ids, CommitIngest, At, MovedOwn, EpochsBelow, IngestPc
<1>2. /\ home' = [home EXCEPT ![w] = tgt[w]]
      /\ epoch' = [epoch EXCEPT ![w] = num[w]]
  BY DEF CommitIngest
<1>3. Before' = Before \cup History!Lineage(tgt[w]) \X {w}
  BY <1>1, <1>2 DEF Before, History!Lineage
<1>. QED
  BY <1>1, <1>2, <1>3 DEF History!Capture

\* A merge puts what it carries over after all of the winner's lineage, in
\* the order it had.
LEMMA CommitJoins ==
    ASSUME LedgerInv, NEW w \in Workers, CommitMerge(w)
    PROVE  History!Merge(job[w].kb, job[w].into, moved[w])
<1>. DEFINE loser == job[w].kb
            winner == job[w].into
            kept == moved[w]
<1>. USE DEF LedgerInv, LockInv, TypeOK
<1>1. /\ loser \in Kbs /\ winner \in Kbs /\ loser # winner /\ None \notin Kbs
      /\ kept \subseteq Ids /\ num[w] \in Nat
      /\ \A i \in kept : home[i] = loser /\ epoch[i] >= 1
      /\ \A i \in Ids : home[i] = winner => epoch[i] <= num[w]
  BY LedgerAssumption, JobFacts
  DEF LedgerAssumption, CommitMerge, At, MovedOwn, EpochsBelow, Positive, OpOK, MergePc
<1>2. /\ home' = [i \in Ids |-> CASE i \in kept -> winner
                                  [] i \in Rows(loser) \ kept -> None
                                  [] OTHER -> home[i]]
      /\ epoch' = [i \in Ids |-> IF i \in kept THEN epoch[i] + num[w] ELSE epoch[i]]
  BY DEF CommitMerge
<1>3. Before' = History!Within(Before, (Ids \ History!Lineage(loser)) \cup kept)
                  \cup History!Lineage(winner) \X kept
  <2>1. \A i \in Ids : home'[i] # None => i \in (Ids \ History!Lineage(loser)) \cup kept
    BY <1>1, <1>2 DEF Rows, History!Lineage
  <2>2. \A i \in Ids : /\ i \in kept => home'[i] = winner /\ epoch'[i] = epoch[i] + num[w]
                       /\ i \notin History!Lineage(loser) =>
                              home'[i] = home[i] /\ epoch'[i] = epoch[i]
    BY <1>1, <1>2 DEF Rows, History!Lineage
  <2>. QED
    BY <1>1, <2>1, <2>2 DEF Before, History!Within, History!Lineage
<1>. QED
  BY <1>1, <1>2, <1>3 DEF History!Merge, History!Lineage, Rows

LEMMA PurgeRemoves ==
    ASSUME LedgerInv, NEW w \in Workers, PurgeSources(w)
    PROVE  History!Purge(moved[w])
BY DEF LedgerInv, LockInv, TypeOK, PurgeSources, History!Purge, History!Within, Before

\* Nothing else touches a lineage.
LEMMA OthersKeepHistory ==
    ASSUME NEW w \in Workers, IngestStep(w) \/ MergeStep(w) \/ PurgeStep(w) \/ RollBack(w),
           ~CommitIngest(w), ~CommitMerge(w), ~PurgeSources(w)
    PROVE  UNCHANGED <<home, epoch>>
BY DEF IngestStep, MergeStep, PurgeStep, RollBack, ResolveAlias, CheckIdempotency, UpsertApp,
   LockEpochs, AllocateEpoch, InsertSource, ResolvePrev, CheckWinner, CheckApps, InsertAlias,
   LockWinner, ReadOffset, MoveSources, DropLoser, SelectVictims, Goto, End, tables

\* The ledger implements the histories: concurrent ingests, merges and purges
\* have the effect of one at a time on every lineage.
THEOREM LedgerKeepsHistory == Spec => HistoryRefined
<1>1. LedgerInv /\ [Next]_vars => [History!Next]_<<home, Before>>
  <2>. SUFFICES ASSUME LedgerInv, [Next]_vars PROVE [History!Next]_<<home, Before>>
    OBVIOUS
  <2>1. ASSUME NEW w \in Workers, CommitIngest(w) PROVE History!Next
    <3>1. w \in Ids /\ tgt[w] \in Kbs
      BY DEF Ids, LedgerInv, LockInv, TypeOK
    <3>. QED
      BY <2>1, <3>1, CommitAppends DEF History!Next
  <2>2. ASSUME NEW w \in Workers, CommitMerge(w) PROVE History!Next
    <3>1. job[w].kb \in Kbs /\ job[w].into \in Kbs /\ moved[w] \in SUBSET Ids
      BY JobFacts DEF LedgerInv, LockInv, TypeOK
    <3>. QED
      BY <2>2, <3>1, CommitJoins DEF History!Next
  <2>3. ASSUME NEW w \in Workers, PurgeSources(w) PROVE History!Next
    <3>1. moved[w] \in SUBSET Ids
      BY DEF LedgerInv, LockInv, TypeOK
    <3>. QED
      BY <2>3, <3>1, PurgeRemoves DEF History!Next
  <2>4. UNCHANGED <<home, epoch>> => UNCHANGED <<home, Before>>
    BY DEF Before
  <2>5. CASE UNCHANGED vars
    BY <2>4, <2>5 DEF vars, tables
  <2>. QED
    BY <2>1, <2>2, <2>3, <2>4, <2>5, OthersKeepHistory DEF Next
<1>. QED
  BY <1>1, OrderedInit, LedgerHolds, PTL DEF Spec, HistoryRefined, History!Spec

=============================================================================

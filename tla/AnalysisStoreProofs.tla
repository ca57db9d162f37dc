------------------------ MODULE AnalysisStoreProofs ------------------------
(***************************************************************************)
(* Proofs about AnalysisStore, for any number of processes, ids and times. *)
(***************************************************************************)
EXTENDS AnalysisStore, TLAPS, FiniteSetTheorems

(* What writing over a file makes of it is a text again.                   *)
LEMMA FinitePlaces == IsFiniteSet(Places) /\ \A s \in SUBSET Places : Cardinality(s) \in Nat
<1>1. IsFiniteSet({"flat", "shard"})
  <2>1. IsFiniteSet({}) /\ {"flat", "shard"} = ({} \cup {"flat"}) \cup {"shard"}
    BY FS_EmptySet
  <2>2. QED
    BY <2>1, FS_AddElement
<1>2. IsFiniteSet(Places)
  BY <1>1, FS_Product, StoreAssumption DEF Places
<1>3. ASSUME NEW s \in SUBSET Places PROVE Cardinality(s) \in Nat
  BY <1>2, FS_Subset, FS_CardinalityType
<1>4. QED
  BY <1>2, <1>3

LEMMA OverwrittenTexts ==
  ASSUME NEW old \in Texts, NEW entries \in SUBSET Places,
         NEW text \in Overwritten(old, entries)
  PROVE  /\ text \in Texts
         /\ text.entries = entries \/ text.entries = {}
         /\ old.size = 0 => text.readable /\ text.entries = entries
<1>1. Cardinality(entries) \in Nat
  BY FinitePlaces
<1>2. old.size \in Nat
  BY DEF Texts
<1> DEFINE n == Cardinality(entries)
<1>3. text = [entries |-> entries, readable |-> TRUE, size |-> n]
         \/ (text = [entries |-> {}, readable |-> FALSE, size |-> old.size] /\ old.size # 0)
  BY DEF Overwritten
<1>4. CASE text = [entries |-> entries, readable |-> TRUE, size |-> n]
  <2>1. text \in Texts /\ text.entries = entries /\ text.readable
    BY <1>1, <1>4 DEF Texts
  <2>2. QED
    BY <2>1
<1>5. CASE text = [entries |-> {}, readable |-> FALSE, size |-> old.size] /\ old.size # 0
  <2>1. text \in Texts /\ text.entries = {}
    BY <1>2, <1>5 DEF Texts
  <2>2. QED
    BY <1>5, <2>1
<1>6. QED
  BY <1>3, <1>4, <1>5

----------------------------------------------------------------------------
(* Types.                                                                  *)

(* A Put has an id; a file that is open as cache.json.tmp exists.          *)
PutInv ==
    /\ \A p \in Procs : job[p] = "put" => own[p] \in issued
    /\ \A p \in Procs : pc[p] \in {"data", "read"} => job[p] = "put"
    /\ \A p \in Procs : fd[p] = "tmp" => tmp \in Texts

TypeInv == TypeOK /\ PutInv

LEMMA TypeInit == Init => TypeInv
<1> SUFFICES ASSUME Init PROVE TypeInv
  OBVIOUS
<1>1. committed \in SUBSET Ids /\ committed \X {"flat"} \in SUBSET Places
  BY StoreAssumption DEF Init, Places
<1>2. Cardinality(committed) \in Nat
  BY <1>1, StoreAssumption, FS_Subset, FS_CardinalityType
<1>3. index \in Texts
  BY <1>1, <1>2 DEF Init, Texts
<1>4. dir \in [Places -> {"none", "part", "full", "cut"}]
  BY DEF Init
<1>5. QED
  BY <1>1, <1>3, <1>4, StoreAssumption DEF Init, TypeInv, TypeOK, PutInv, Steps, Jobs

LEMMA TypeStep == TypeInv /\ [Next]_vars => TypeInv'
<1> SUFFICES ASSUME TypeInv, [Next]_vars PROVE TypeInv'
  OBVIOUS
<1> USE StoreAssumption DEF TypeInv, TypeOK, PutInv, Steps, Jobs, Goto, Holds, Visits, Opens,
        disk, clock, history
<1>0. Truncated \in Texts
  BY DEF Truncated, Texts
<1>1. ASSUME NEW p \in Procs, NEW i \in Ids, Put(p, i) PROVE TypeInv'
  BY <1>1 DEF Put, Starts
<1>2. ASSUME NEW p \in Procs, NEW gone, gone \subseteq index.entries, RemoveEntries(p, gone)
      PROVE  TypeInv'
  <2>1. index.entries \subseteq Places /\ {e[1] : e \in gone} \subseteq Ids
    BY <1>2 DEF Texts, Places
  <2>2. QED
    BY <1>2, <2>1 DEF RemoveEntries, Starts
<1>3. ASSUME NEW p \in Procs, NEW i \in Ids, Delete(p, i) PROVE TypeInv'
  BY <1>2, <1>3 DEF Delete
<1>4. ASSUME NEW p \in Procs, NEW cutoff \in 1 .. MaxTime, Prune(p, cutoff) PROVE TypeInv'
  BY <1>2, <1>4 DEF Prune
<1>5. ASSUME NEW p \in Procs, WriteData(p) PROVE TypeInv'
  BY <1>5 DEF WriteData
<1>6. ASSUME NEW p \in Procs, AddEntry(p) PROVE TypeInv'
  <2>1. index.entries \cup {<<own[p], "shard">>} \subseteq Places
    BY <1>6 DEF AddEntry, Texts, Places
  <2>2. QED
    BY <1>6, <2>1 DEF AddEntry
<1>7. ASSUME NEW p \in Procs, Refuse(p) PROVE TypeInv'
  BY <1>7 DEF Refuse, Returns
<1>8. ASSUME NEW p \in Procs, Reconcile(p) PROVE TypeInv'
  BY <1>8 DEF Reconcile, Starts, Texts
<1>9. ASSUME NEW p \in Procs, Collect(p) PROVE TypeInv'
  BY <1>9 DEF Collect
<1>10. ASSUME NEW p \in Procs, RemoveEnds(p) \/ CollectEnds(p) \/ MigrateEnds(p) PROVE TypeInv'
  BY <1>10 DEF RemoveEnds, CollectEnds, MigrateEnds
<1>11. ASSUME NEW p \in Procs, NEW e \in Places, RemoveDir(p, e) PROVE TypeInv'
  BY <1>11 DEF RemoveDir
<1>12. ASSUME NEW p \in Procs, NEW e \in Places, Migrate(p, e) PROVE TypeInv'
  <2>1. Sharded(e) \in Places
    BY DEF Sharded, Places
  <2>2. QED
    BY <1>12, <2>1 DEF Migrate, Relocated
<1>13. ASSUME NEW p \in Procs, NEW e \in Places, MigrateFails(p, e) PROVE TypeInv'
  BY <1>13 DEF MigrateFails
<1>14. ASSUME NEW p \in Procs, OpenTmp(p) PROVE TypeInv'
  BY <1>0, <1>14 DEF OpenTmp
<1>15. ASSUME NEW p \in Procs, Write(p) PROVE TypeInv'
  <2>1. index' \in Texts /\ tmp' \in Texts \cup {None}
        /\ (tmp \in Texts => tmp' \in Texts)
    <3>1. CASE fd[p] = "tmp"
      BY <1>15, <3>1, OverwrittenTexts DEF Write
    <3>2. CASE fd[p] = "index"
      BY <1>15, <3>2, OverwrittenTexts DEF Write
    <3>3. CASE fd[p] \notin {"tmp", "index"}
      BY <1>15, <3>3 DEF Write
    <3>4. QED
      BY <3>1, <3>2, <3>3
  <2>2. CASE job[p] # "patch"
    BY <1>15, <2>1, <2>2 DEF Write
  <2>3. CASE job[p] = "patch"
    BY <1>15, <2>1, <2>3 DEF Write, Returns
  <2>4. QED
    BY <2>2, <2>3
<1>16. ASSUME NEW p \in Procs, Rename(p) PROVE TypeInv'
  <2>1. fd' \in [Procs -> {"none", "tmp", "index", "gone"}] /\ \A q \in Procs : fd'[q] # "tmp"
    BY <1>16 DEF Rename, Reopened
  <2>2. index' \in Texts /\ tmp' = None /\ committed' \subseteq Ids
    BY <1>16 DEF Rename
  <2>3. CASE Returns(p)
    BY <1>16, <2>1, <2>2, <2>3 DEF Rename, Returns
  <2>4. CASE ~Returns(p)
    BY <1>16, <2>1, <2>2, <2>4 DEF Rename
  <2>5. QED
    BY <2>3, <2>4
<1>17. ASSUME NEW p \in Procs, RenameFails(p) PROVE TypeInv'
  BY <1>17 DEF RenameFails
<1>18. ASSUME NEW p \in Procs, RemoveTmp(p) PROVE TypeInv'
  <2>1. fd' \in [Procs -> {"none", "tmp", "index", "gone"}] /\ \A q \in Procs : fd'[q] # "tmp"
    BY <1>18 DEF RemoveTmp, Reopened
  <2>2. QED
    BY <1>18, <2>1 DEF RemoveTmp, Returns
<1>19. ASSUME NEW p \in Procs, List(p) PROVE TypeInv'
  BY <1>19 DEF List, Texts
<1>20. ASSUME NEW p \in Procs, ListFails(p) PROVE TypeInv'
  BY <1>20 DEF ListFails, Returns
<1>21. ASSUME NEW p \in Procs, PatchIndex(p) PROVE TypeInv'
  BY <1>0, <1>21 DEF PatchIndex
<1>22. ASSUME NEW p \in Procs, Abandon(p) PROVE TypeInv'
  BY <1>22 DEF Abandon, Returns
<1>23. ASSUME Tick PROVE TypeInv'
  BY <1>23 DEF Tick, procVars
<1>24. ASSUME UNCHANGED vars PROVE TypeInv'
  BY <1>24 DEF vars, procVars
<1>25. QED
  BY <1>1, <1>3, <1>4, <1>5, <1>6, <1>7, <1>8, <1>9, <1>10, <1>11, <1>12, <1>13, <1>14, <1>15,
     <1>16, <1>17, <1>18, <1>19, <1>20, <1>21, <1>22, <1>23, <1>24 DEF Next

\* Every variable of the store keeps its type, however operations of several
\* processes overlap, fail or die (store.go, sweep.go, reconcile.go, cache.go).
THEOREM TypeCorrect == Spec => []TypeOK
<1>1. TypeInv => TypeOK
  BY DEF TypeInv
<1>2. QED
  BY <1>1, TypeInit, TypeStep, PTL DEF Spec

----------------------------------------------------------------------------
(* No half-written directory is listed.                                    *)

(* Whatever lists an entry, or is about to, lists one whose directory is   *)
(* not being written any more.                                             *)
Written == {e \in Places : /\ e[1] \in issued
                           /\ dir[<<e[1], "flat">>] # "part"
                           /\ dir[<<e[1], "shard">>] # "part"}

WrittenInv ==
    /\ index.entries \subseteq Written
    /\ tmp # None => tmp.entries \subseteq Written
    /\ \A p \in Procs : mem[p] \subseteq Written
    /\ \A p \in Procs : pc[p] = "read" => <<own[p], "shard">> \in Written
    /\ \A i \in Ids : dir[<<i, "flat">>] # "part"
    /\ \A p \in Procs : pc[p] = "migrate" => todo[p] \subseteq {e \in mem[p] : e[2] = "flat"}

LEMMA WrittenInit == Init => WrittenInv
<1> SUFFICES ASSUME Init PROVE WrittenInv
  OBVIOUS
<1>1. index.entries \subseteq Written
  BY StoreAssumption DEF Init, Written, Places
<1>2. \A i \in Ids : dir[<<i, "flat">>] # "part"
  BY DEF Init, Places
<1>3. QED
  BY <1>1, <1>2 DEF Init, WrittenInv

(* What is written stays so: only a Put has a directory that is not, and   *)
(* its id is new.                                                          *)
LEMMA WrittenStays ==
  ASSUME TypeInv, WrittenInv, Next
  PROVE  Written \subseteq Written' /\ \A i \in Ids : dir'[<<i, "flat">>] # "part"
<1> DEFINE Goal == Written \subseteq Written' /\ \A i \in Ids : dir'[<<i, "flat">>] # "part"
<1> USE DEF TypeInv, TypeOK, WrittenInv, Places
<1>1. ASSUME NEW p \in Procs, NEW j \in Ids, Put(p, j) PROVE Goal
  BY <1>1 DEF Put, Written
<1>2. ASSUME NEW p \in Procs, WriteData(p) PROVE Goal
  BY <1>2 DEF WriteData, clock, Written
<1>3. ASSUME NEW p \in Procs, NEW e \in Places, RemoveDir(p, e) PROVE Goal
  BY <1>3 DEF RemoveDir, clock, Written
<1>4. ASSUME NEW p \in Procs, NEW e \in Places, Migrate(p, e) PROVE Goal
  <2>1. e[2] = "flat" /\ e = <<e[1], "flat">> /\ e[1] \in Ids
    BY <1>4 DEF Migrate
  <2>2. dir[e] # "part"
    BY <2>1
  <2>3. \A f \in Places : dir[f] # "part" => dir'[f] # "part"
    BY <1>4, <2>2 DEF Migrate, Sharded
  <2>4. issued' = issued
    BY <1>4 DEF Migrate, clock
  <2>5. QED
    BY <2>3, <2>4 DEF Written
<1>5. ASSUME UNCHANGED <<dir, issued>> PROVE Goal
  BY <1>5 DEF Written
<1> HIDE DEF Goal
<1>6. ASSUME NEW p \in Procs, NEW j \in Ids, Delete(p, j) PROVE Goal
  BY <1>5, <1>6 DEF Delete, RemoveEntries, disk, clock
<1>7. ASSUME NEW p \in Procs, NEW cutoff \in 1 .. MaxTime, Prune(p, cutoff) PROVE Goal
  BY <1>5, <1>7 DEF Prune, RemoveEntries, disk, clock
<1>8. ASSUME NEW p \in Procs, AddEntry(p) \/ Refuse(p) \/ Reconcile(p) \/ Collect(p) PROVE Goal
  BY <1>5, <1>8 DEF AddEntry, Refuse, Reconcile, Collect, disk, clock
<1>9. ASSUME NEW p \in Procs, RemoveEnds(p) \/ CollectEnds(p) \/ MigrateEnds(p) PROVE Goal
  BY <1>5, <1>9 DEF RemoveEnds, CollectEnds, MigrateEnds, disk, clock
<1>10. ASSUME NEW p \in Procs, NEW e \in Places, MigrateFails(p, e) PROVE Goal
  BY <1>5, <1>10 DEF MigrateFails, disk, clock
<1>11. ASSUME NEW p \in Procs, OpenTmp(p) \/ Write(p) \/ Rename(p) \/ RenameFails(p) \/ RemoveTmp(p)
       PROVE  Goal
  BY <1>5, <1>11 DEF OpenTmp, Write, Rename, RenameFails, RemoveTmp, disk, clock
<1>12. ASSUME NEW p \in Procs, List(p) \/ ListFails(p) \/ PatchIndex(p) \/ Abandon(p) PROVE Goal
  BY <1>5, <1>12 DEF List, ListFails, PatchIndex, Abandon, disk, clock
<1>13. ASSUME Tick PROVE Goal
  BY <1>5, <1>13 DEF Tick, disk
<1>14. Goal
  BY <1>1, <1>2, <1>3, <1>4, <1>6, <1>7, <1>8, <1>9, <1>10, <1>11, <1>12, <1>13 DEF Next
<1>15. QED
  BY <1>14 DEF Goal

LEMMA WrittenStep == TypeInv /\ WrittenInv /\ [Next]_vars => WrittenInv'
<1> SUFFICES ASSUME TypeInv, WrittenInv, [Next]_vars PROVE WrittenInv'
  OBVIOUS
<1> USE DEF TypeInv, TypeOK, WrittenInv, Goto, Holds, Visits, Opens, disk, clock
<1>1. CASE UNCHANGED vars
  BY <1>1 DEF Written, vars, procVars
<1>2. CASE Next
  <2>0. Written \subseteq Written' /\ \A i \in Ids : dir'[<<i, "flat">>] # "part"
    BY <1>2, WrittenStays
  <2>1. ASSUME NEW p \in Procs, NEW i \in Ids, Put(p, i) PROVE WrittenInv'
    BY <2>0, <2>1 DEF Put, Starts
  <2>2. ASSUME NEW p \in Procs, NEW gone, RemoveEntries(p, gone) PROVE WrittenInv'
    BY <2>0, <2>2 DEF RemoveEntries, Starts
  <2>3. ASSUME NEW p \in Procs, NEW i \in Ids, Delete(p, i) PROVE WrittenInv'
    BY <2>2, <2>3 DEF Delete
  <2>4. ASSUME NEW p \in Procs, NEW cutoff \in 1 .. MaxTime, Prune(p, cutoff) PROVE WrittenInv'
    BY <2>2, <2>4 DEF Prune
  <2>5. ASSUME NEW p \in Procs, WriteData(p) PROVE WrittenInv'
    <3>1. own[p] \in issued /\ own[p] \in Ids
      BY <2>5 DEF WriteData, PutInv
    <3>2. <<own[p], "shard">> \in Written'
      BY <2>0, <2>5, <3>1 DEF WriteData, Written, Places
    <3>3. QED
      BY <2>0, <2>5, <3>2 DEF WriteData
  <2>6. ASSUME NEW p \in Procs, AddEntry(p) PROVE WrittenInv'
    BY <2>0, <2>6 DEF AddEntry
  <2>7. ASSUME NEW p \in Procs, Refuse(p) \/ ListFails(p) \/ Abandon(p) PROVE WrittenInv'
    BY <2>0, <2>7 DEF Refuse, ListFails, Abandon, Returns
  <2>8. ASSUME NEW p \in Procs, Reconcile(p) \/ Collect(p) PROVE WrittenInv'
    BY <2>0, <2>8 DEF Reconcile, Collect, Starts
  <2>9. ASSUME NEW p \in Procs, RemoveEnds(p) \/ CollectEnds(p) \/ MigrateEnds(p) PROVE WrittenInv'
    BY <2>0, <2>9 DEF RemoveEnds, CollectEnds, MigrateEnds
  <2>10. ASSUME NEW p \in Procs, NEW e \in Places, RemoveDir(p, e) PROVE WrittenInv'
    BY <2>0, <2>10 DEF RemoveDir
  <2>11. ASSUME NEW p \in Procs, NEW e \in Places, Migrate(p, e) PROVE WrittenInv'
    <3>1. e \in mem[p] /\ e[2] = "flat"
      BY <2>11 DEF Migrate
    <3>2. e \in Written'
      BY <2>0, <3>1
    <3>3. Sharded(e) \in Written'
      BY <3>2 DEF Sharded, Written, Places
    <3>4. mem'[p] = mem[p] \/ mem'[p] = (mem[p] \ {e}) \cup {Sharded(e)}
      BY <2>11 DEF Migrate, Relocated
    <3>5. \A q \in Procs \ {p} : mem'[q] = mem[q] /\ todo'[q] = todo[q]
      BY <2>11 DEF Migrate
    <3>6. todo'[p] = todo[p] \ {e}
      BY <2>11 DEF Migrate
    <3>7. UNCHANGED <<index, tmp, pc, own>>
      BY <2>11 DEF Migrate
    <3>8. \A q \in Procs : mem'[q] \subseteq Written'
      BY <2>0, <3>3, <3>4, <3>5
    <3>9. \A q \in Procs : pc'[q] = "migrate" => todo'[q] \subseteq {f \in mem'[q] : f[2] = "flat"}
      BY <3>4, <3>5, <3>6, <3>7
    <3>10. QED
      BY <2>0, <3>7, <3>8, <3>9
  <2>12. ASSUME NEW p \in Procs, NEW e \in Places, MigrateFails(p, e) PROVE WrittenInv'
    BY <2>0, <2>12 DEF MigrateFails
  <2>13. ASSUME NEW p \in Procs, OpenTmp(p) \/ PatchIndex(p) PROVE WrittenInv'
    BY <2>0, <2>13 DEF OpenTmp, PatchIndex, Truncated
  <2>14. ASSUME NEW p \in Procs, Write(p) PROVE WrittenInv'
    <3>1. index'.entries \in {index.entries, mem[p], {}}
          /\ (tmp' # None => tmp' = tmp \/ tmp'.entries \in {mem[p], {}})
      <4>1. CASE fd[p] = "tmp"
        BY <2>14, <4>1, OverwrittenTexts DEF Write, PutInv
      <4>2. CASE fd[p] = "index"
        BY <2>14, <4>2, OverwrittenTexts DEF Write
      <4>3. CASE fd[p] \notin {"tmp", "index"}
        BY <2>14, <4>3 DEF Write
      <4>4. QED
        BY <4>1, <4>2, <4>3
    <3>2. index'.entries \subseteq Written' /\ (tmp' # None => tmp'.entries \subseteq Written')
      BY <2>0, <3>1
    <3>3. CASE job[p] # "patch"
      BY <2>0, <2>14, <3>2, <3>3 DEF Write
    <3>4. CASE job[p] = "patch"
      BY <2>0, <2>14, <3>2, <3>4 DEF Write, Returns
    <3>5. QED
      BY <3>3, <3>4
  <2>15. ASSUME NEW p \in Procs, Rename(p) PROVE WrittenInv'
    <3>1. CASE Returns(p)
      BY <2>0, <2>15, <3>1 DEF Rename, Returns
    <3>2. CASE ~Returns(p)
      BY <2>0, <2>15, <3>2 DEF Rename
    <3>3. QED
      BY <3>1, <3>2
  <2>16. ASSUME NEW p \in Procs, RenameFails(p) PROVE WrittenInv'
    BY <2>0, <2>16 DEF RenameFails
  <2>17. ASSUME NEW p \in Procs, RemoveTmp(p) PROVE WrittenInv'
    BY <2>0, <2>17 DEF RemoveTmp, Returns
  <2>18. ASSUME NEW p \in Procs, List(p) PROVE WrittenInv'
    BY <2>0, <2>18 DEF List
  <2>19. ASSUME Tick PROVE WrittenInv'
    BY <2>0, <2>19 DEF Tick, procVars
  <2> HIDE DEF WrittenInv
  <2>20. QED
    BY <1>2, <2>1, <2>3, <2>4, <2>5, <2>6, <2>7, <2>8, <2>9, <2>10, <2>11, <2>12, <2>13, <2>14,
       <2>15, <2>16, <2>17, <2>18, <2>19 DEF Next
<1>3. QED
  BY <1>1, <1>2

\* However operations of several processes overlap, fail or die, the index
\* never lists an entry whose directory is still being written (store.go,
\* Put; reconcile.go).
THEOREM ListsWholeEntries == Spec => []NoHalfEntries
<1>1. TypeInv /\ WrittenInv => NoHalfEntries
  <2> SUFFICES ASSUME TypeInv, WrittenInv, NEW e \in index.entries, NEW f \in Places, e[1] = f[1]
               PROVE  dir[f] # "part"
    BY DEF NoHalfEntries
  <2>1. e \in Written
    BY DEF WrittenInv
  <2>2. f = <<e[1], "flat">> \/ f = <<e[1], "shard">>
    BY DEF Places
  <2>3. QED
    BY <2>1, <2>2 DEF Written
<1>2. QED
  BY <1>1, TypeInit, TypeStep, WrittenInit, WrittenStep, PTL DEF Spec

----------------------------------------------------------------------------
(* Garbage collection spares a Put that is under way.                      *)

(* A Put is younger than the grace period and what is to be collected is   *)
(* older; what is to be removed has been dropped.                          *)
GraceInv ==
    /\ \A p \in Procs : Putting(p) => now < born[own[p]] + Grace
    /\ \A p \in Procs : Putting(p) /\ own[p] \notin dropped => dir[<<own[p], "shard">>] # "none"
    /\ \A p \in Procs : pc[p] \in {"remove", "collect", "gc", "migrate", "list", "patch"} =>
           job[p] # "put"
    /\ \A p \in Procs : pc[p] = "remove" => \A e \in todo[p] : e[1] \in dropped
    /\ \A p \in Procs : pc[p] = "gc" =>
           \A e \in todo[p] : e[1] \in issued /\ born[e[1]] + Grace <= now
    /\ \A e \in Places : dir[e] # "none" => e[1] \in issued

GraceTypes == TypeInv /\ WrittenInv /\ GraceInv

LEMMA GraceInit == Init => GraceInv
  BY StoreAssumption DEF Init, GraceInv, Putting, Places

(* What a step does to the directory of a Put.                             *)
LEMMA StepSparesPuts ==
  ASSUME GraceTypes, Next, NEW q \in Procs, Putting(q), own[q] \notin dropped
  PROVE  dir'[<<own[q], "shard">>] # "none"
<1> DEFINE place == <<own[q], "shard">>
           Goal == dir'[place] # "none"
<1> USE StoreAssumption DEF GraceTypes, TypeInv, TypeOK
<1>0. own[q] \in Ids /\ place \in Places /\ dir[place] # "none"
  BY DEF GraceInv, PutInv, Putting, Places
<1>1. ASSUME NEW p \in Procs, NEW i \in Ids, Put(p, i) PROVE Goal
  BY <1>0, <1>1 DEF Put
<1>2. ASSUME NEW p \in Procs, WriteData(p) PROVE Goal
  BY <1>0, <1>2 DEF WriteData
<1>3. ASSUME NEW p \in Procs, NEW e \in Places, RemoveDir(p, e) PROVE Goal
  <2>1. pc[p] \in {"remove", "gc"} /\ e \in todo[p]
    BY <1>3 DEF RemoveDir
  <2>2. now < born[own[q]] + Grace
    BY DEF GraceInv
  <2>3. CASE pc[p] = "remove"
    BY <1>0, <1>3, <2>1, <2>3 DEF RemoveDir, GraceInv
  <2>4. CASE pc[p] = "gc"
    <3>1. e # place
      BY <1>0, <2>1, <2>2, <2>4 DEF GraceInv, Places
    <3>2. QED
      BY <1>0, <1>3, <3>1 DEF RemoveDir
  <2>5. QED
    BY <2>1, <2>3, <2>4
<1>4. ASSUME NEW p \in Procs, NEW e \in Places, Migrate(p, e) PROVE Goal
  <2>1. e[2] = "flat"
    BY <1>4 DEF Migrate, WrittenInv
  <2>2. e # place
    BY <2>1
  <2>3. QED
    BY <1>0, <1>4, <2>2 DEF Migrate, Sharded
<1>5. ASSUME UNCHANGED dir PROVE Goal
  BY <1>0, <1>5
<1> HIDE DEF Goal
<1>6. ASSUME NEW p \in Procs, NEW j \in Ids, Delete(p, j) PROVE Goal
  BY <1>5, <1>6 DEF Delete, RemoveEntries, disk
<1>7. ASSUME NEW p \in Procs, NEW cutoff \in 1 .. MaxTime, Prune(p, cutoff) PROVE Goal
  BY <1>5, <1>7 DEF Prune, RemoveEntries, disk
<1>8. ASSUME NEW p \in Procs, AddEntry(p) \/ Refuse(p) \/ Reconcile(p) \/ Collect(p) PROVE Goal
  BY <1>5, <1>8 DEF AddEntry, Refuse, Reconcile, Collect, disk
<1>9. ASSUME NEW p \in Procs, RemoveEnds(p) \/ CollectEnds(p) \/ MigrateEnds(p) PROVE Goal
  BY <1>5, <1>9 DEF RemoveEnds, CollectEnds, MigrateEnds, disk
<1>10. ASSUME NEW p \in Procs, NEW e \in Places, MigrateFails(p, e) PROVE Goal
  BY <1>5, <1>10 DEF MigrateFails, disk
<1>11. ASSUME NEW p \in Procs, OpenTmp(p) \/ Write(p) \/ Rename(p) \/ RenameFails(p) \/ RemoveTmp(p)
       PROVE  Goal
  BY <1>5, <1>11 DEF OpenTmp, Write, Rename, RenameFails, RemoveTmp, disk
<1>12. ASSUME NEW p \in Procs, List(p) \/ ListFails(p) \/ PatchIndex(p) \/ Abandon(p) PROVE Goal
  BY <1>5, <1>12 DEF List, ListFails, PatchIndex, Abandon, disk
<1>13. ASSUME Tick PROVE Goal
  BY <1>5, <1>13 DEF Tick, disk
<1>14. Goal
  BY <1>1, <1>2, <1>3, <1>4, <1>6, <1>7, <1>8, <1>9, <1>10, <1>11, <1>12, <1>13 DEF Next
<1>15. QED
  BY <1>14 DEF Goal

LEMMA GraceStep == GraceTypes /\ [Next]_vars => GraceInv'
<1> SUFFICES ASSUME GraceTypes, [Next]_vars PROVE GraceInv'
  OBVIOUS
<1> USE StoreAssumption DEF GraceTypes, TypeInv, TypeOK, PutInv, GraceInv, Putting, PutSteps,
        Goto, Holds, Visits, Opens, disk, clock, history
<1>a. ASSUME Next, NEW q \in Procs, Putting(q), own[q] \notin dropped
      PROVE  dir'[<<own[q], "shard">>] # "none"
  BY <1>a, StepSparesPuts
<1>1. ASSUME NEW p \in Procs, NEW i \in Ids, Put(p, i) PROVE GraceInv'
  BY <1>1 DEF Put, Starts, Places
<1>2. ASSUME NEW p \in Procs, NEW gone, RemoveEntries(p, gone) PROVE GraceInv'
  BY <1>2 DEF RemoveEntries, Starts
<1>3. ASSUME NEW p \in Procs, NEW i \in Ids, Delete(p, i) PROVE GraceInv'
  BY <1>2, <1>3 DEF Delete
<1>4. ASSUME NEW p \in Procs, NEW cutoff \in 1 .. MaxTime, Prune(p, cutoff) PROVE GraceInv'
  BY <1>2, <1>4 DEF Prune
<1>5. ASSUME NEW p \in Procs, WriteData(p) PROVE GraceInv'
  BY <1>5 DEF WriteData, Places
<1>6. ASSUME NEW p \in Procs, AddEntry(p) PROVE GraceInv'
  BY <1>6 DEF AddEntry
<1>7. ASSUME NEW p \in Procs, Refuse(p) \/ ListFails(p) \/ Abandon(p) PROVE GraceInv'
  BY <1>7 DEF Refuse, ListFails, Abandon, Returns
<1>8. ASSUME NEW p \in Procs, Reconcile(p) PROVE GraceInv'
  BY <1>8 DEF Reconcile, Starts
<1>9. ASSUME NEW p \in Procs, Collect(p) PROVE GraceInv'
  BY <1>9 DEF Collect
<1>10. ASSUME NEW p \in Procs, RemoveEnds(p) \/ CollectEnds(p) \/ MigrateEnds(p) PROVE GraceInv'
  BY <1>10 DEF RemoveEnds, CollectEnds, MigrateEnds
<1>11. ASSUME NEW p \in Procs, NEW e \in Places, RemoveDir(p, e) PROVE GraceInv'
  <2>2. Next
    BY <1>11 DEF Next
  <2>3. \A f \in Places : f # e => dir'[f] = dir[f]
    BY <1>11 DEF RemoveDir
  <2>4. dir'[e] # "none" => dir[e] # "none"
    BY <1>11 DEF RemoveDir
  <2>5. UNCHANGED <<issued, born, now, pc, job, own, dropped>>
    BY <1>11 DEF RemoveDir
  <2>6. \A q \in Procs : todo'[q] \subseteq todo[q]
    BY <1>11 DEF RemoveDir
  <2>7. ASSUME NEW q \in Procs, Putting(q), own[q] \notin dropped
        PROVE  dir'[<<own[q], "shard">>] # "none"
    BY <1>a, <2>2, <2>7
  <2>8. \A f \in Places : dir'[f] # "none" => f[1] \in issued
    BY <2>3, <2>4
  <2>9. QED
    BY <2>5, <2>6, <2>7, <2>8
<1>12. ASSUME NEW p \in Procs, NEW e \in Places, Migrate(p, e) PROVE GraceInv'
  <2>2. Next
    BY <1>12 DEF Next
  <2>3. \A f \in Places : dir'[f] # "none" => dir[f] # "none" \/ (f = Sharded(e) /\ dir[e] # "none")
    BY <1>12 DEF Migrate
  <2>4. UNCHANGED <<issued, born, now, pc, job, own, dropped>>
    BY <1>12 DEF Migrate
  <2>5. \A q \in Procs : todo'[q] \subseteq todo[q]
    BY <1>12 DEF Migrate
  <2>6. \A f \in Places : dir'[f] # "none" => f[1] \in issued
    BY <2>3 DEF Sharded, Places
  <2>7. ASSUME NEW q \in Procs, Putting(q), own[q] \notin dropped
        PROVE  dir'[<<own[q], "shard">>] # "none"
    BY <1>a, <2>2, <2>7
  <2>8. QED
    BY <2>4, <2>5, <2>6, <2>7
<1>13. ASSUME NEW p \in Procs, NEW e \in Places, MigrateFails(p, e) PROVE GraceInv'
  BY <1>13 DEF MigrateFails
<1>14. ASSUME NEW p \in Procs, OpenTmp(p) \/ PatchIndex(p) PROVE GraceInv'
  <2>1. CASE OpenTmp(p)
    BY <2>1 DEF OpenTmp
  <2>2. CASE PatchIndex(p)
    BY <2>2 DEF PatchIndex
  <2>3. QED
    BY <1>14, <2>1, <2>2
<1>15. ASSUME NEW p \in Procs, Write(p) PROVE GraceInv'
  BY <1>15 DEF Write, Returns
<1>16. ASSUME NEW p \in Procs, Rename(p) PROVE GraceInv'
  BY <1>16 DEF Rename, Returns
<1>17. ASSUME NEW p \in Procs, RenameFails(p) PROVE GraceInv'
  BY <1>17 DEF RenameFails
<1>18. ASSUME NEW p \in Procs, RemoveTmp(p) PROVE GraceInv'
  BY <1>18 DEF RemoveTmp, Returns
<1>19. ASSUME NEW p \in Procs, List(p) PROVE GraceInv'
  BY <1>19 DEF List
<1>20. ASSUME Tick PROVE GraceInv'
  BY <1>20 DEF Tick, procVars
<1>21. ASSUME UNCHANGED vars PROVE GraceInv'
  BY <1>21 DEF vars, procVars
<1> HIDE DEF GraceInv
<1>22. QED
  BY <1>1, <1>3, <1>4, <1>5, <1>6, <1>7, <1>8, <1>9, <1>10, <1>11, <1>12, <1>13, <1>14,
     <1>15, <1>16, <1>17, <1>18, <1>19, <1>20, <1>21 DEF Next

\* A step that takes a directory away takes none of a Put that is under way:
\* a Delete or Prune names its entry, a migration moves to its place, and a
\* collection finds it too young (sweep.go, gcOrphansLocked).
THEOREM CollectsOnlyOrphans == Spec => GraceProtects
<1>1. GraceTypes /\ [Next]_vars => GraceTypes'
  BY TypeStep, WrittenStep, GraceStep DEF GraceTypes
<1>2. Init => GraceTypes
  BY TypeInit, WrittenInit, GraceInit DEF GraceTypes
<1>3. GraceTypes /\ GraceTypes' /\ [Next]_vars =>
        [\A p \in Procs :
           Putting(p) /\ own[p] \notin dropped => dir'[<<own[p], "shard">>] # "none"]_vars
  <2> SUFFICES ASSUME GraceTypes, [Next]_vars, NEW p \in Procs, Putting(p), own[p] \notin dropped
               PROVE  dir'[<<own[p], "shard">>] # "none"
    OBVIOUS
  <2>1. CASE Next
    BY <2>1, StepSparesPuts
  <2>2. CASE UNCHANGED vars
    BY <2>2 DEF GraceTypes, GraceInv, vars, disk
  <2>3. QED
    BY <2>1, <2>2
<1>4. QED
  BY <1>1, <1>2, <1>3, PTL DEF Spec, GraceProtects

----------------------------------------------------------------------------
(* Operations that follow one another keep what has been stored.           *)

Kept == committed \ dropped

Holding == {"remove", "collect", "gc", "migrate", "open", "write", "rename"}

(* One process at a time writes, to cache.json.tmp only, ...               *)
OneWriter ==
    /\ \A p, q \in Procs : pc[p] # "idle" /\ pc[q] # "idle" => p = q
    /\ \A p \in Procs : pc[p] \notin {"list", "patch"} /\ job[p] # "patch"
    /\ \A p \in Procs : fd[p] = IF pc[p] = "write" THEN "tmp" ELSE "none"
    /\ \A p \in Procs : pc[p] = "write" => tmp = Truncated
    /\ \A p \in Procs : pc[p] = "rename" => tmp.readable /\ tmp.entries = mem[p]
    /\ index.readable

(* ... what is to be kept is listed and stored, ...                        *)
KeptOnDisk ==
    /\ Kept \subseteq Lists(index.entries)
    /\ Kept \subseteq Stored
    /\ \A i \in Ids : dir[<<i, "flat">>] = "none" \/ dir[<<i, "shard">>] = "none"
    /\ committed \subseteq issued

(* ... and no process is about to write an index that does not list it.    *)
KeptBy(p) ==
    /\ pc[p] \in Holding => Kept \subseteq Lists(mem[p])
    /\ job[p] = "put" /\ pc[p] \in {"open", "write", "rename"} => own[p] \in Lists(mem[p])
    /\ job[p] = "put" /\ pc[p] \in {"read", "open", "write", "rename"} => own[p] \in Stored
    /\ pc[p] = "data" => dir[<<own[p], "flat">>] = "none"
    /\ pc[p] = "remove" => Lists(todo[p]) \subseteq dropped
    /\ pc[p] = "gc" => Lists(todo[p]) \cap Lists(index.entries) = {}

KeptInv == KeptOnDisk /\ \A p \in Procs : KeptBy(p)

LEMMA OneWriterInit == Init => OneWriter
  BY DEF Init, OneWriter

LEMMA OneWriterStep ==
  ASSUME Sequential, ~Patches, TypeInv, OneWriter, [Next]_vars
  PROVE  OneWriter'
<1> USE DEF TypeInv, TypeOK, OneWriter, Goto, Holds, Visits, Opens, disk, clock, history
<1>1. ASSUME NEW p \in Procs, NEW i \in Ids, Put(p, i) PROVE OneWriter'
  BY <1>1 DEF Put, Starts
<1>2. ASSUME NEW p \in Procs, NEW gone, RemoveEntries(p, gone) PROVE OneWriter'
  BY <1>2 DEF RemoveEntries, Starts
<1>3. ASSUME NEW p \in Procs, NEW i \in Ids, Delete(p, i) PROVE OneWriter'
  BY <1>2, <1>3 DEF Delete
<1>4. ASSUME NEW p \in Procs, NEW cutoff \in 1 .. MaxTime, Prune(p, cutoff) PROVE OneWriter'
  BY <1>2, <1>4 DEF Prune
<1>5. ASSUME NEW p \in Procs, WriteData(p) \/ AddEntry(p) PROVE OneWriter'
  BY <1>5 DEF WriteData, AddEntry
<1>6. ASSUME NEW p \in Procs, Reconcile(p) \/ Collect(p) PROVE OneWriter'
  BY <1>6 DEF Reconcile, Collect, Starts
<1>7. ASSUME NEW p \in Procs, Refuse(p) \/ List(p) \/ ListFails(p) \/ PatchIndex(p) PROVE FALSE
  BY <1>7 DEF Refuse, List, ListFails, PatchIndex
<1>8. ASSUME NEW p \in Procs, RemoveEnds(p) \/ CollectEnds(p) \/ MigrateEnds(p) PROVE OneWriter'
  BY <1>8 DEF RemoveEnds, CollectEnds, MigrateEnds
<1>9. ASSUME NEW p \in Procs, NEW e \in Places, RemoveDir(p, e) \/ Migrate(p, e) \/ MigrateFails(p, e)
      PROVE  OneWriter'
  BY <1>9 DEF RemoveDir, Migrate, MigrateFails
<1>10. ASSUME NEW p \in Procs, OpenTmp(p) PROVE OneWriter'
  BY <1>10 DEF OpenTmp
<1>11. ASSUME NEW p \in Procs, Write(p) PROVE OneWriter'
  <2>1. job[p] # "patch" /\ pc[p] = "write" /\ fd[p] = "tmp" /\ tmp = Truncated
    BY <1>11 DEF Write
  <2>2. tmp' \in Overwritten(tmp, mem[p]) /\ UNCHANGED index /\ pc' = [pc EXCEPT ![p] = "rename"]
        /\ fd' = [fd EXCEPT ![p] = "none"] /\ UNCHANGED <<job, own, mem, todo>>
    BY <1>11, <2>1 DEF Write
  <2>3. Truncated \in Texts /\ Truncated.size = 0
    BY DEF Truncated, Texts
  <2>4. tmp'.readable /\ tmp'.entries = mem[p]
    BY <2>1, <2>2, <2>3, OverwrittenTexts
  <2>5. QED
    BY <2>1, <2>2, <2>4
<1>12. ASSUME NEW p \in Procs, Rename(p) PROVE OneWriter'
  <2>1. \A q \in Procs : fd'[q] = "none"
    BY <1>12 DEF Rename, Reopened
  <2>2. QED
    BY <1>12, <2>1 DEF Rename, Returns
<1>13. ASSUME NEW p \in Procs, RenameFails(p) PROVE OneWriter'
  BY <1>13 DEF RenameFails
<1>14. ASSUME NEW p \in Procs, RemoveTmp(p) PROVE OneWriter'
  <2>1. \A q \in Procs : fd'[q] = "none"
    BY <1>14 DEF RemoveTmp, Reopened
  <2>2. QED
    BY <1>14, <2>1 DEF RemoveTmp, Returns
<1>15. ASSUME NEW p \in Procs, Abandon(p) PROVE OneWriter'
  BY <1>15 DEF Abandon, Returns
<1>16. ASSUME Tick \/ UNCHANGED vars PROVE OneWriter'
  BY <1>16 DEF Tick, vars, procVars
<1> HIDE DEF OneWriter
<1>17. QED
  BY <1>1, <1>3, <1>4, <1>5, <1>6, <1>7, <1>8, <1>9, <1>10, <1>11, <1>12, <1>13, <1>14, <1>15,
     <1>16 DEF Next

LEMMA KeptInit == Init => KeptInv
<1> SUFFICES ASSUME Init PROVE KeptInv
  OBVIOUS
<1>1. ASSUME NEW i \in Kept PROVE i \in Lists(index.entries)
  <2>1. <<i, "flat">> \in index.entries /\ <<i, "flat">>[1] = i
    BY <1>1 DEF Init, Kept
  <2>2. QED
    BY <2>1 DEF Lists
<1>2. Kept \subseteq Stored
  BY StoreAssumption DEF Init, Kept, Stored, Places
<1>3. \A i \in Ids : dir[<<i, "shard">>] = "none"
  BY DEF Init, Places
<1>4. KeptOnDisk
  BY <1>1, <1>2, <1>3 DEF Init, KeptOnDisk
<1>5. \A p \in Procs : KeptBy(p)
  BY DEF Init, KeptBy, Holding
<1>6. QED
  BY <1>4, <1>5 DEF KeptInv

LEMMA KeptStep ==
  ASSUME Sequential, ~Patches, GraceTypes, OneWriter, KeptInv, [Next]_vars
  PROVE  KeptInv'
<1> USE DEF GraceTypes, TypeInv, TypeOK, KeptInv, Goto, Holds, Visits, Opens,
        disk, clock, history
<1> DEFINE Others(p) == \A q \in Procs \ {p} : pc'[q] = "idle"
           Step(p) == KeptOnDisk' /\ KeptBy(p)'
           Alone(p) == \A q \in Procs \ {p} : pc[q] = "idle"
<1>0. ASSUME UNCHANGED dir PROVE Stored' = Stored
  BY <1>0 DEF Stored
<1>a. ASSUME NEW p \in Procs, Others(p), Step(p) PROVE KeptInv'
  BY <1>a DEF KeptBy, Holding
<1>b. ASSUME NEW p \in Procs, pc[p] # "idle" PROVE Alone(p)
  BY <1>b DEF OneWriter
<1>1. ASSUME NEW p \in Procs, NEW i \in Ids, Put(p, i) PROVE KeptInv'
  <2>1. dir[<<i, "flat">>] = "none" /\ dir[<<i, "shard">>] = "none" /\ i \notin committed
    BY <1>1 DEF Put, GraceInv, Places, KeptOnDisk
  <2>2. Stored' = Stored
    BY <1>1, <2>1 DEF Put, Stored, Places
  <2>3. \A j \in Ids : dir'[<<j, "flat">>] = "none" \/ dir'[<<j, "shard">>] = "none"
    BY <1>1, <2>1 DEF Put, Places, KeptOnDisk
  <2>4. KeptOnDisk'
    BY <1>1, <2>2, <2>3 DEF Put, KeptOnDisk, Kept
  <2>5. pc'[p] = "data" /\ own'[p] = i /\ dir'[<<i, "flat">>] = "none"
    BY <1>1, <2>1 DEF Put, Starts, Places
  <2>6. KeptBy(p)'
    BY <2>5 DEF KeptBy, Holding
  <2>7. Others(p)
    BY <1>1 DEF Put, Starts
  <2>8. QED
    BY <2>4, <2>6, <2>7, <1>a
<1>2. ASSUME NEW p \in Procs, NEW gone, RemoveEntries(p, gone) PROVE KeptInv'
  <2>1. /\ mem'[p] = index.entries \ gone
        /\ dropped' = dropped \cup Lists(gone)
        /\ todo'[p] = gone
        /\ pc'[p] = "remove"
        /\ UNCHANGED <<index, dir, issued, committed>>
        /\ job'[p] = "delete"
    BY <1>2 DEF RemoveEntries, Lists, Starts
  <2>2. Kept' \subseteq Kept
    BY <2>1 DEF Kept
  <2>3. ASSUME NEW i \in Kept' PROVE i \in Lists(mem'[p])
    <3>1. i \in Lists(index.entries) /\ i \notin Lists(gone)
      BY <2>1, <2>2 DEF Kept, KeptOnDisk
    <3>2. QED
      BY <2>1, <3>1 DEF Lists
  <2>4. KeptOnDisk'
    BY <1>0, <2>1, <2>2 DEF KeptOnDisk
  <2>5. KeptBy(p)'
    BY <2>1, <2>3 DEF KeptBy
  <2>6. Others(p)
    BY <1>2 DEF RemoveEntries, Starts
  <2>7. QED
    BY <2>4, <2>5, <2>6, <1>a
<1>3. ASSUME NEW p \in Procs, NEW i \in Ids, Delete(p, i) PROVE KeptInv'
  BY <1>2, <1>3 DEF Delete
<1>4. ASSUME NEW p \in Procs, NEW cutoff \in 1 .. MaxTime, Prune(p, cutoff) PROVE KeptInv'
  BY <1>2, <1>4 DEF Prune
<1>5. ASSUME NEW p \in Procs, WriteData(p) PROVE KeptInv'
  <2>1. own[p] \in Ids /\ <<own[p], "shard">> \in Places /\ <<own[p], "flat">> \in Places
        /\ dir[<<own[p], "flat">>] = "none"
    BY <1>5 DEF WriteData, PutInv, Places, KeptBy
  <2>2. dir' = [dir EXCEPT ![<<own[p], "shard">>] = "full"]
        /\ UNCHANGED <<index, issued, committed, dropped, own>>
        /\ pc[p] = "data" /\ pc' = [pc EXCEPT ![p] = "read"]
    BY <1>5 DEF WriteData
  <2>3. Stored \subseteq Stored' /\ own[p] \in Stored'
    BY <2>1, <2>2 DEF Stored, Places
  <2>4. \A j \in Ids : dir'[<<j, "flat">>] = "none" \/ dir'[<<j, "shard">>] = "none"
    BY <2>1, <2>2 DEF Places, KeptOnDisk
  <2>5. KeptOnDisk'
    BY <2>2, <2>3, <2>4 DEF KeptOnDisk, Kept
  <2>6. KeptBy(p)'
    BY <2>2, <2>3 DEF KeptBy, Holding
  <2>7. QED
    BY <2>2, <2>5, <2>6, <1>a, <1>b
<1>6. ASSUME NEW p \in Procs, AddEntry(p) PROVE KeptInv'
  <2>1. mem'[p] = index.entries \cup {<<own[p], "shard">>}
        /\ UNCHANGED <<index, dir, issued, committed, dropped, own, job>>
        /\ pc[p] = "read" /\ pc' = [pc EXCEPT ![p] = "open"]
    BY <1>6 DEF AddEntry
  <2>2. own[p] \in Lists(mem'[p]) /\ Lists(index.entries) \subseteq Lists(mem'[p])
    <3>1. <<own[p], "shard">>[1] = own[p]
      OBVIOUS
    <3>2. QED
      BY <2>1, <3>1 DEF Lists
  <2>3. KeptOnDisk'
    BY <1>0, <2>1 DEF KeptOnDisk, Kept
  <2>4. KeptBy(p)'
    BY <1>0, <2>1, <2>2 DEF KeptBy, KeptOnDisk, Kept
  <2>5. QED
    BY <2>1, <2>3, <2>4, <1>a, <1>b
<1>7. ASSUME NEW p \in Procs, Reconcile(p) PROVE KeptInv'
  <2>1. mem'[p] = index.entries /\ pc'[p] = "collect" /\ Others(p) /\ job'[p] = "reconcile"
        /\ UNCHANGED <<index, dir, issued, committed, dropped, own>>
    BY <1>7 DEF Reconcile, Starts
  <2>2. KeptOnDisk'
    BY <1>0, <2>1 DEF KeptOnDisk, Kept
  <2>3. KeptBy(p)'
    BY <2>1 DEF KeptBy, KeptOnDisk, Kept
  <2>4. QED
    BY <2>1, <2>2, <2>3, <1>a
<1>8. ASSUME NEW p \in Procs, Collect(p) PROVE KeptInv'
  <2>1. pc[p] = "collect" /\ pc' = [pc EXCEPT ![p] = "gc"] /\ UNCHANGED mem
        /\ UNCHANGED <<index, dir, issued, committed, dropped, own, job>>
        /\ \A e \in todo'[p], f \in index.entries : f[1] # e[1]
    BY <1>8 DEF Collect
  <2>2. Lists(todo'[p]) \cap Lists(index.entries) = {}
    BY <2>1 DEF Lists
  <2>3. KeptOnDisk'
    BY <1>0, <2>1 DEF KeptOnDisk, Kept
  <2>4. KeptBy(p)'
    BY <2>1, <2>2 DEF KeptBy, Kept, Holding
  <2>5. QED
    BY <2>1, <2>3, <2>4, <1>a, <1>b
<1>9. ASSUME NEW p \in Procs, RemoveEnds(p) \/ CollectEnds(p) \/ MigrateEnds(p) PROVE KeptInv'
  <2>1. /\ pc[p] \in {"remove", "gc", "migrate"}
        /\ pc'[p] \in {"open", "migrate"} /\ \A q \in Procs \ {p} : pc'[q] = pc[q]
        /\ UNCHANGED <<mem, index, dir, issued, committed, dropped, own, job>>
    BY <1>9 DEF RemoveEnds, CollectEnds, MigrateEnds
  <2>2. job[p] # "put"
    BY <2>1 DEF GraceInv
  <2>3. KeptOnDisk'
    BY <1>0, <2>1 DEF KeptOnDisk, Kept
  <2>4. KeptBy(p)'
    BY <2>1, <2>2 DEF KeptBy, Kept, Holding
  <2>5. QED
    BY <2>1, <2>3, <2>4, <1>a, <1>b
<1>10. ASSUME NEW p \in Procs, NEW e \in Places, RemoveDir(p, e) PROVE KeptInv'
  <2>1. /\ pc[p] \in {"remove", "gc"} /\ e \in todo[p]
        /\ todo'[p] = todo[p] \ {e}
        /\ UNCHANGED <<pc, mem, index, issued, committed, dropped, own, job>>
    BY <1>10 DEF RemoveDir
  <2>2. e[1] \notin Kept
    <3>1. e[1] \in Lists(todo[p])
      BY <2>1 DEF Lists
    <3>2. QED
      BY <2>1, <3>1 DEF KeptBy, KeptOnDisk, Kept
  <2>3. (\A f \in Places \ {e} : dir'[f] = dir[f]) /\ (dir[e] = "none" => dir'[e] = "none")
    BY <1>10 DEF RemoveDir
  <2>4. Kept' \subseteq Stored'
    BY <2>1, <2>2, <2>3 DEF KeptOnDisk, Kept, Stored, Places
  <2>5. \A j \in Ids : dir'[<<j, "flat">>] = "none" \/ dir'[<<j, "shard">>] = "none"
    BY <2>3 DEF Places, KeptOnDisk
  <2>6. KeptOnDisk'
    BY <2>1, <2>4, <2>5 DEF KeptOnDisk, Kept
  <2>7. Lists(todo'[p]) \subseteq Lists(todo[p])
    BY <2>1 DEF Lists
  <2>8. KeptBy(p)'
    BY <2>1, <2>7 DEF KeptBy, Kept, Holding
  <2>9. QED
    BY <2>1, <2>6, <2>8, <1>a, <1>b
<1>11. ASSUME NEW p \in Procs, NEW e \in Places, Migrate(p, e) PROVE KeptInv'
  <2>1. /\ pc[p] = "migrate" /\ e \in mem[p] /\ e = <<e[1], "flat">> /\ e[1] \in Ids
        /\ UNCHANGED <<pc, index, issued, committed, dropped, own, job>>
    BY <1>11 DEF Migrate, WrittenInv, Places
  <2>2. job[p] # "put"
    BY <2>1 DEF GraceInv
  <2>3. dir[e] = "none" \/ dir[Sharded(e)] = "none"
    BY <2>1 DEF KeptOnDisk, Sharded
  <2>4. UNCHANGED dir \/ dir' = [dir EXCEPT ![Sharded(e)] = dir[e], ![e] = "none"]
    BY <1>11, <2>3 DEF Migrate
  <2>5. Sharded(e) = <<e[1], "shard">> /\ Sharded(e) \in Places
    BY <2>1 DEF Sharded, Places
  <2>6. ASSUME NEW j \in Ids
        PROVE  /\ dir'[<<j, "flat">>] = "none" \/ dir'[<<j, "shard">>] = "none"
               /\ j \in Stored => j \in Stored'
    <3>1. CASE UNCHANGED dir
      BY <3>1, <1>0 DEF KeptOnDisk
    <3>2. CASE dir' = [dir EXCEPT ![Sharded(e)] = dir[e], ![e] = "none"]
      <4>1. <<j, "flat">> \in Places /\ <<j, "shard">> \in Places
        BY DEF Places
      <4>2. CASE j = e[1]
        <5>1. <<j, "flat">> = e /\ <<j, "shard">> = Sharded(e) /\ e # Sharded(e)
          BY <2>1, <2>5, <4>2
        <5>2. dir'[<<j, "flat">>] = "none" /\ dir'[<<j, "shard">>] = dir[e]
          BY <3>2, <4>1, <5>1
        <5>3. dir[<<j, "shard">>] = "full" => dir[e] = "none" /\ dir[Sharded(e)] = "full"
          BY <2>3, <5>1
        <5>4. dir[<<j, "shard">>] # "full" \/ UNCHANGED dir
          BY <1>11, <5>3 DEF Migrate
        <5>5. QED
          BY <1>0, <5>1, <5>2, <5>4 DEF Stored
      <4>3. CASE j # e[1]
        <5>1. dir'[<<j, "flat">>] = dir[<<j, "flat">>] /\ dir'[<<j, "shard">>] = dir[<<j, "shard">>]
          BY <2>1, <2>5, <3>2, <4>1, <4>3
        <5>2. QED
          BY <5>1 DEF Stored, KeptOnDisk
      <4>4. QED
        BY <4>2, <4>3
    <3>3. QED
      BY <2>4, <3>1, <3>2
  <2>7. Stored \subseteq Stored' /\ \A j \in Ids : dir'[<<j, "flat">>] = "none" \/ dir'[<<j, "shard">>] = "none"
    BY <2>6 DEF Stored
  <2>8. KeptOnDisk'
    BY <2>1, <2>7 DEF KeptOnDisk, Kept
  <2>9. Lists(mem[p]) \subseteq Lists(mem'[p])
    <3>1. mem'[p] = mem[p] \/ mem'[p] = (mem[p] \ {e}) \cup {Sharded(e)}
      BY <1>11 DEF Migrate, Relocated
    <3>2. Sharded(e)[1] = e[1]
      BY <2>5
    <3>3. QED
      BY <3>1, <3>2 DEF Lists
  <2>10. KeptBy(p)'
    BY <2>1, <2>2, <2>9 DEF KeptBy, Kept, Holding
  <2>11. QED
    BY <2>1, <2>8, <2>10, <1>a, <1>b
<1>12. ASSUME NEW p \in Procs, NEW e \in Places, MigrateFails(p, e) PROVE KeptInv'
  <2>1. UNCHANGED <<pc, mem, index, dir, issued, committed, dropped, own, job>> /\ pc[p] = "migrate"
    BY <1>12 DEF MigrateFails
  <2>2. KeptOnDisk'
    BY <1>0, <2>1 DEF KeptOnDisk, Kept
  <2>3. KeptBy(p)'
    BY <1>0, <2>1 DEF KeptBy, Kept, Holding
  <2>4. QED
    BY <2>1, <2>2, <2>3, <1>a, <1>b
<1>13. ASSUME NEW p \in Procs, OpenTmp(p) \/ Write(p) PROVE KeptInv'
  <2>1. /\ pc[p] \in {"open", "write"} /\ pc'[p] \in {"write", "rename"}
        /\ \A q \in Procs \ {p} : pc'[q] = pc[q]
        /\ UNCHANGED <<mem, dir, issued, committed, dropped, own, job, index>>
    BY <1>13 DEF OpenTmp, Write, OneWriter
  <2>2. KeptOnDisk'
    BY <1>0, <2>1 DEF KeptOnDisk, Kept
  <2>3. KeptBy(p)'
    BY <1>0, <2>1 DEF KeptBy, Kept, Holding
  <2>4. QED
    BY <2>1, <2>2, <2>3, <1>a, <1>b
<1>14. ASSUME NEW p \in Procs, Rename(p) PROVE KeptInv'
  <2>1. /\ pc[p] = "rename" /\ index'.entries = mem[p]
        /\ committed' = IF job[p] = "put" THEN committed \cup {own[p]} ELSE committed
        /\ pc' = [pc EXCEPT ![p] = "idle"]
        /\ UNCHANGED <<dir, issued, dropped>>
    BY <1>14 DEF Rename, Returns, OneWriter
  <2>2. Kept' \subseteq Lists(mem[p]) /\ Kept' \subseteq Stored /\ committed' \subseteq issued
    BY <2>1 DEF KeptBy, KeptOnDisk, Kept, Holding, PutInv
  <2>3. KeptOnDisk'
    BY <1>0, <2>1, <2>2 DEF KeptOnDisk
  <2>4. KeptBy(p)'
    BY <2>1 DEF KeptBy, Holding
  <2>5. QED
    BY <2>1, <2>3, <2>4, <1>a, <1>b
<1>15. ASSUME NEW p \in Procs, RenameFails(p) \/ RemoveTmp(p) \/ Abandon(p) PROVE KeptInv'
  <2>1. /\ pc[p] # "idle" /\ pc'[p] \in {"idle", "clean"}
        /\ \A q \in Procs \ {p} : pc'[q] = pc[q]
        /\ UNCHANGED <<dir, issued, committed, dropped, index>>
    BY <1>15 DEF RenameFails, RemoveTmp, Abandon, Returns
  <2>2. KeptOnDisk'
    BY <1>0, <2>1 DEF KeptOnDisk, Kept
  <2>3. KeptBy(p)'
    BY <2>1 DEF KeptBy, Holding
  <2>4. QED
    BY <2>1, <2>2, <2>3, <1>a, <1>b
<1>16. ASSUME NEW p \in Procs, Refuse(p) \/ List(p) \/ ListFails(p) \/ PatchIndex(p) PROVE FALSE
  BY <1>16 DEF Refuse, List, ListFails, PatchIndex, OneWriter
<1>17. ASSUME Tick \/ UNCHANGED vars PROVE KeptInv'
  <2>1. UNCHANGED <<pc, mem, todo, index, dir, issued, committed, dropped, own, job>>
    BY <1>17 DEF Tick, vars, procVars
  <2>2. KeptOnDisk'
    BY <1>0, <2>1 DEF KeptOnDisk, Kept
  <2>3. ASSUME NEW p \in Procs PROVE KeptBy(p)'
    <3>1. KeptBy(p)
      OBVIOUS
    <3>2. QED
      BY <1>0, <2>1, <3>1 DEF KeptBy, Kept
  <2>4. QED
    BY <2>2, <2>3
<1> HIDE DEF KeptInv
<1>18. QED
  BY <1>1, <1>3, <1>4, <1>5, <1>6, <1>7, <1>8, <1>9, <1>10, <1>11, <1>12, <1>13, <1>14, <1>15,
     <1>16, <1>17 DEF Next

SequentialInv == GraceTypes /\ OneWriter /\ KeptInv

LEMMA SequentialHolds ==
  ASSUME Sequential, ~Patches
  PROVE  Spec => []SequentialInv
<1>1. Init => SequentialInv
  BY TypeInit, WrittenInit, GraceInit, OneWriterInit, KeptInit DEF GraceTypes, SequentialInv
<1>2. SequentialInv /\ [Next]_vars => SequentialInv'
  <2>1. GraceTypes /\ [Next]_vars => GraceTypes'
    BY TypeStep, WrittenStep, GraceStep DEF GraceTypes
  <2>2. GraceTypes => TypeInv
    BY DEF GraceTypes
  <2>3. QED
    BY <2>1, <2>2, OneWriterStep, KeptStep DEF SequentialInv
<1>3. QED
  BY <1>1, <1>2, PTL DEF Spec

\* If operations follow one another and the index is written by writeIndex
\* only, the index can be read at every moment and what has been stored stays
\* listed with its data, wherever operations fail or are killed (store.go,
\* reconcile.go, sweep.go).
THEOREM StoreDurable ==
  ASSUME Sequential, ~Patches
  PROVE  Spec => []Durable
<1>1. SequentialInv => Durable
  <2> USE DEF SequentialInv
  <2> SUFFICES ASSUME SequentialInv PROVE IndexReadable /\ StoredKept
    BY DEF Durable
  <2>1. IndexReadable
    BY DEF OneWriter, IndexReadable
  <2>2. ASSUME NEW i \in committed \ dropped
        PROVE  /\ \E e \in index.entries : e[1] = i
               /\ \E e \in Places : e[1] = i /\ dir[e] = "full"
    <3>1. i \in Lists(index.entries) /\ i \in Stored
      BY DEF KeptInv, KeptOnDisk, Kept
    <3>2. \E e \in index.entries : e[1] = i
      BY <3>1 DEF Lists
    <3>3. <<i, "flat">> \in Places /\ <<i, "shard">> \in Places
          /\ <<i, "flat">>[1] = i /\ <<i, "shard">>[1] = i
      BY <3>1 DEF Stored, Places
    <3>4. QED
      BY <3>1, <3>2, <3>3 DEF Stored
  <2>3. QED
    BY <2>1, <2>2 DEF StoredKept
<1>2. QED
  BY <1>1, SequentialHolds, PTL


----------------------------------------------------------------------------
(* A migration repairs the paths of the index.                             *)

(* An entry that points into the new layout has nothing in the old one.    *)
RightPaths(entries) ==
    \A e \in entries : e[2] = "shard" => dir[<<e[1], "flat">>] = "none"

(* An entry that a migration has visited points at its data, if it has any. *)
Repaired(e) == dir[e] # "none" \/ dir[Sharded(e)] = "none"
Visited(p, e) == ~(pc[p] = "migrate" /\ e \in todo[p])

PathsBy(p) ==
    /\ RightPaths(mem[p])
    /\ pc[p] = "idle" => mem[p] = {}
    /\ pc[p] \in {"data", "read"} => dir[<<own[p], "flat">>] = "none"
    /\ pc[p] = "remove" => job[p] = "delete"
    /\ job[p] = "reconcile" /\ pc[p] \in {"migrate", "open", "write", "rename"} =>
           \A e \in mem[p] : e[2] = "flat" /\ Visited(p, e) => Repaired(e)

PathInv == RightPaths(index.entries) /\ \A p \in Procs : PathsBy(p)

LEMMA PathInit == Init => PathInv
<1> SUFFICES ASSUME Init PROVE PathInv
  OBVIOUS
<1>1. \A e \in index.entries : e[2] = "flat"
  BY DEF Init
<1>2. QED
  BY <1>1 DEF Init, PathInv, PathsBy, RightPaths

(* Nothing creates a directory of the old layout.                          *)
LEMMA FlatStaysGone ==
  ASSUME TypeInv, WrittenInv, [Next]_vars, NEW i \in Ids, dir[<<i, "flat">>] = "none"
  PROVE  dir'[<<i, "flat">>] = "none"
<1> DEFINE Goal == dir'[<<i, "flat">>] = "none"
<1> USE DEF TypeInv, TypeOK, Places
<1>1. ASSUME NEW p \in Procs, NEW j \in Ids, Put(p, j) PROVE Goal
  BY <1>1 DEF Put
<1>2. ASSUME NEW p \in Procs, WriteData(p) PROVE Goal
  BY <1>2 DEF WriteData
<1>3. ASSUME NEW p \in Procs, NEW e \in Places, RemoveDir(p, e) PROVE Goal
  BY <1>3 DEF RemoveDir
<1>4. ASSUME NEW p \in Procs, NEW e \in Places, Migrate(p, e) PROVE Goal
  BY <1>4 DEF Migrate, Sharded
<1>5. ASSUME UNCHANGED dir PROVE Goal
  BY <1>5
<1> HIDE DEF Goal
<1>6. ASSUME NEW p \in Procs, NEW j \in Ids, Delete(p, j) PROVE Goal
  BY <1>5, <1>6 DEF Delete, RemoveEntries, disk
<1>7. ASSUME NEW p \in Procs, NEW cutoff \in 1 .. MaxTime, Prune(p, cutoff) PROVE Goal
  BY <1>5, <1>7 DEF Prune, RemoveEntries, disk
<1>8. ASSUME NEW p \in Procs, AddEntry(p) \/ Refuse(p) \/ Reconcile(p) \/ Collect(p) PROVE Goal
  BY <1>5, <1>8 DEF AddEntry, Refuse, Reconcile, Collect, disk
<1>9. ASSUME NEW p \in Procs, RemoveEnds(p) \/ CollectEnds(p) \/ MigrateEnds(p) PROVE Goal
  BY <1>5, <1>9 DEF RemoveEnds, CollectEnds, MigrateEnds, disk
<1>10. ASSUME NEW p \in Procs, NEW e \in Places, MigrateFails(p, e) PROVE Goal
  BY <1>5, <1>10 DEF MigrateFails, disk
<1>11. ASSUME NEW p \in Procs, OpenTmp(p) \/ Write(p) \/ Rename(p) \/ RenameFails(p) \/ RemoveTmp(p)
       PROVE  Goal
  BY <1>5, <1>11 DEF OpenTmp, Write, Rename, RenameFails, RemoveTmp, disk
<1>12. ASSUME NEW p \in Procs, List(p) \/ ListFails(p) \/ PatchIndex(p) \/ Abandon(p) PROVE Goal
  BY <1>5, <1>12 DEF List, ListFails, PatchIndex, Abandon, disk
<1>13. ASSUME Tick \/ UNCHANGED vars PROVE Goal
  BY <1>5, <1>13 DEF Tick, vars, disk
<1>14. Goal
  BY <1>1, <1>2, <1>3, <1>4, <1>6, <1>7, <1>8, <1>9, <1>10, <1>11, <1>12, <1>13 DEF Next
<1>15. QED
  BY <1>14 DEF Goal

(* cache.json changes when it is renamed into place.                       *)
LEMMA IndexWriters ==
  ASSUME OneWriter, [Next]_vars
  PROVE  UNCHANGED index \/ \E p \in Procs : Rename(p)
<1>1. ASSUME NEW p \in Procs, NEW i \in Ids, Put(p, i) \/ Delete(p, i) PROVE UNCHANGED index
  BY <1>1 DEF Put, Delete, RemoveEntries, disk
<1>2. ASSUME NEW p \in Procs, NEW cutoff \in 1 .. MaxTime, Prune(p, cutoff) PROVE UNCHANGED index
  BY <1>2 DEF Prune, RemoveEntries, disk
<1>3. ASSUME NEW p \in Procs, WriteData(p) \/ AddEntry(p) \/ Refuse(p) \/ Reconcile(p) \/ Collect(p)
      PROVE  UNCHANGED index
  BY <1>3 DEF WriteData, AddEntry, Refuse, Reconcile, Collect, disk
<1>4. ASSUME NEW p \in Procs, RemoveEnds(p) \/ CollectEnds(p) \/ MigrateEnds(p) PROVE UNCHANGED index
  BY <1>4 DEF RemoveEnds, CollectEnds, MigrateEnds, disk
<1>5. ASSUME NEW p \in Procs, NEW e \in Places, RemoveDir(p, e) \/ Migrate(p, e) \/ MigrateFails(p, e)
      PROVE  UNCHANGED index
  BY <1>5 DEF RemoveDir, Migrate, MigrateFails, disk
<1>6. ASSUME NEW p \in Procs, OpenTmp(p) \/ Write(p) \/ RenameFails(p) \/ RemoveTmp(p)
      PROVE  UNCHANGED index
  BY <1>6 DEF OpenTmp, Write, RenameFails, RemoveTmp, OneWriter, disk
<1>7. ASSUME NEW p \in Procs, List(p) \/ ListFails(p) \/ PatchIndex(p) \/ Abandon(p)
      PROVE  UNCHANGED index
  BY <1>7 DEF List, ListFails, PatchIndex, Goto, Abandon, OneWriter, disk
<1>8. ASSUME Tick \/ UNCHANGED vars PROVE UNCHANGED index
  BY <1>8 DEF Tick, vars, disk
<1>9. QED
  BY <1>1, <1>2, <1>3, <1>4, <1>5, <1>6, <1>7, <1>8 DEF Next

LEMMA PathStep ==
  ASSUME Sequential, ~Patches, SequentialInv, PathInv, [Next]_vars
  PROVE  PathInv'
<1> USE DEF SequentialInv, GraceTypes, TypeInv, TypeOK, Goto, Holds, Visits, Opens, disk, clock
<1>0. \A e \in Places : dir[<<e[1], "flat">>] = "none" => dir'[<<e[1], "flat">>] = "none"
  BY FlatStaysGone DEF Places
<1> DEFINE Others(p) == \A q \in Procs \ {p} : pc'[q] = "idle" /\ mem'[q] = {}
           Step(p) == RightPaths(index.entries)' /\ PathsBy(p)'
<1>a. ASSUME NEW p \in Procs, Others(p), Step(p) PROVE PathInv'
  BY <1>a DEF PathInv, PathsBy, RightPaths
<1>b. ASSUME NEW p \in Procs, pc[p] # "idle", NEW q \in Procs \ {p} PROVE pc[q] = "idle" /\ mem[q] = {}
  BY <1>b DEF OneWriter, PathInv, PathsBy
<1>c. ASSUME NEW p \in Procs, NEW kind, NEW to, Starts(p, kind, to), NEW q \in Procs
      PROVE  pc[q] = "idle" /\ mem[q] = {}
  BY <1>c DEF Starts, PathInv, PathsBy
<1>d. ASSUME UNCHANGED index PROVE RightPaths(index.entries)'
  BY <1>0, <1>d DEF PathInv, RightPaths, Texts
<1>e. ASSUME NEW p \in Procs, mem'[p] \subseteq mem[p] \/ mem'[p] \subseteq index.entries
      PROVE  RightPaths(mem[p])'
  BY <1>0, <1>e DEF PathInv, PathsBy, RightPaths, Texts
<1>1. ASSUME NEW p \in Procs, NEW i \in Ids, Put(p, i) PROVE PathInv'
  <2>1. dir'[<<i, "flat">>] = "none" /\ own'[p] = i /\ UNCHANGED <<index, mem>>
        /\ pc' = [pc EXCEPT ![p] = "data"] /\ Starts(p, "put", "data")
    BY <1>1, <1>0 DEF Put, GraceInv, Places, Starts
  <2>2. PathsBy(p)'
    BY <1>c, <2>1 DEF PathsBy, RightPaths
  <2>3. QED
    BY <1>a, <1>c, <1>d, <2>1, <2>2
<1>2. ASSUME NEW p \in Procs, NEW gone, RemoveEntries(p, gone) PROVE PathInv'
  <2>1. /\ mem' = [mem EXCEPT ![p] = index.entries \ gone] /\ UNCHANGED index
        /\ pc' = [pc EXCEPT ![p] = "remove"] /\ job'[p] = "delete"
        /\ Starts(p, "delete", "remove")
    BY <1>2 DEF RemoveEntries, Starts
  <2>2. PathsBy(p)'
    BY <1>e, <2>1 DEF PathsBy
  <2>3. QED
    BY <1>a, <1>c, <1>d, <2>1, <2>2
<1>3. ASSUME NEW p \in Procs, NEW i \in Ids, Delete(p, i) PROVE PathInv'
  BY <1>2, <1>3 DEF Delete
<1>4. ASSUME NEW p \in Procs, NEW cutoff \in 1 .. MaxTime, Prune(p, cutoff) PROVE PathInv'
  BY <1>2, <1>4 DEF Prune
<1>5. ASSUME NEW p \in Procs, WriteData(p) PROVE PathInv'
  <2>1. /\ pc[p] = "data" /\ pc' = [pc EXCEPT ![p] = "read"]
        /\ UNCHANGED <<index, mem, own>>
    BY <1>5 DEF WriteData
  <2>2. own[p] \in Ids /\ dir[<<own[p], "flat">>] = "none"
    BY <2>1 DEF PutInv, PathInv, PathsBy
  <2>3. dir'[<<own[p], "flat">>] = "none"
    BY <2>2, FlatStaysGone
  <2>4. PathsBy(p)'
    BY <1>e, <2>1, <2>3 DEF PathsBy
  <2>5. QED
    BY <1>a, <1>b, <1>d, <2>1, <2>4
<1>6. ASSUME NEW p \in Procs, AddEntry(p) PROVE PathInv'
  <2>1. /\ mem' = [mem EXCEPT ![p] = index.entries \cup {<<own[p], "shard">>}]
        /\ pc[p] = "read" /\ pc' = [pc EXCEPT ![p] = "open"]
        /\ job'[p] = "put" /\ UNCHANGED <<index, dir>>
    BY <1>6 DEF AddEntry, PutInv
  <2>2. RightPaths(mem[p])'
    BY <2>1 DEF PathInv, PathsBy, RightPaths
  <2>3. PathsBy(p)'
    BY <2>1, <2>2 DEF PathsBy
  <2>4. QED
    BY <1>a, <1>b, <1>d, <2>1, <2>3
<1>7. ASSUME NEW p \in Procs, Reconcile(p) PROVE PathInv'
  <2>1. /\ mem' = [mem EXCEPT ![p] = index.entries] /\ UNCHANGED index
        /\ pc' = [pc EXCEPT ![p] = "collect"] /\ Starts(p, "reconcile", "collect")
    BY <1>7 DEF Reconcile, Starts
  <2>2. PathsBy(p)'
    BY <1>e, <2>1 DEF PathsBy
  <2>3. QED
    BY <1>a, <1>c, <1>d, <2>1, <2>2
<1>8. ASSUME NEW p \in Procs, Collect(p) \/ (\E e \in Places : RemoveDir(p, e)) PROVE PathInv'
  <2>1. /\ pc[p] \in {"collect", "remove", "gc"} /\ UNCHANGED <<index, mem, job>>
        /\ pc'[p] \in {pc[p], "gc"}
    BY <1>8 DEF Collect, RemoveDir
  <2>2. PathsBy(p)'
    BY <1>e, <2>1 DEF PathsBy, PathInv
  <2>3. \A q \in Procs \ {p} : pc'[q] = pc[q]
    BY <1>8 DEF Collect, RemoveDir
  <2>4. QED
    BY <1>a, <1>b, <1>d, <2>1, <2>2, <2>3
<1>9. ASSUME NEW p \in Procs, RemoveEnds(p) PROVE PathInv'
  <2>1. /\ pc[p] = "remove" /\ pc' = [pc EXCEPT ![p] = "open"] /\ UNCHANGED <<index, mem, job>>
    BY <1>9 DEF RemoveEnds
  <2>2. PathsBy(p)'
    BY <1>e, <2>1 DEF PathsBy, PathInv
  <2>3. QED
    BY <1>a, <1>b, <1>d, <2>1, <2>2
<1>10. ASSUME NEW p \in Procs, CollectEnds(p) \/ MigrateEnds(p) PROVE PathInv'
  <2>1. /\ pc[p] \in {"gc", "migrate"} /\ UNCHANGED <<index, mem, job, dir>>
        /\ pc'[p] \in {"migrate", "open"} /\ \A q \in Procs \ {p} : pc'[q] = pc[q]
    BY <1>10 DEF CollectEnds, MigrateEnds
  <2>2. ASSUME pc'[p] = "migrate", NEW e \in mem'[p], e[2] = "flat" PROVE e \in todo'[p]
    BY <1>10, <2>2 DEF CollectEnds, MigrateEnds
  <2>3. ASSUME pc'[p] = "open" PROVE pc[p] = "migrate" /\ todo[p] = {}
    BY <1>10, <2>3 DEF CollectEnds, MigrateEnds
  <2>4. PathsBy(p)'
    BY <1>e, <2>1, <2>2, <2>3 DEF PathsBy, PathInv, Visited, Repaired, Sharded
  <2>5. QED
    BY <1>a, <1>b, <1>d, <2>1, <2>4
<1>11. ASSUME NEW p \in Procs, NEW e \in Places, Migrate(p, e) PROVE PathInv'
  <2>1. /\ pc[p] = "migrate" /\ UNCHANGED <<index, job, pc>>
        /\ e \in mem[p] /\ e = <<e[1], "flat">> /\ e[1] \in Ids
        /\ Sharded(e) = <<e[1], "shard">> /\ Sharded(e) \in Places
        /\ todo' = [todo EXCEPT ![p] = todo[p] \ {e}]
    BY <1>11 DEF Migrate, WrittenInv, Places, Sharded
  <2>2. \/ /\ dir'[e] = "none" /\ mem' = [mem EXCEPT ![p] = Relocated(p, e)]
        \/ UNCHANGED <<dir, mem>> /\ Repaired(e)
    BY <1>11, <2>1 DEF Migrate, Repaired
  <2>3. RightPaths(mem[p])'
    <3>1. RightPaths(mem[p])
      BY DEF PathInv, PathsBy
    <3>2. CASE UNCHANGED <<dir, mem>>
      BY <3>1, <3>2 DEF RightPaths
    <3>3. CASE dir'[e] = "none" /\ mem' = [mem EXCEPT ![p] = Relocated(p, e)]
      <4>1. \A f \in mem'[p] : f \in mem[p] \/ f = Sharded(e)
        BY <3>3 DEF Relocated
      <4>2. dir'[<<Sharded(e)[1], "flat">>] = "none"
        BY <2>1, <3>3
      <4>3. \A f \in mem[p] : f[2] = "shard" => dir'[<<f[1], "flat">>] = "none"
        BY <1>0, <3>1 DEF RightPaths
      <4>4. QED
        BY <4>1, <4>2, <4>3 DEF RightPaths
    <3>4. QED
      BY <2>2, <3>2, <3>3
  <2>4. ASSUME NEW f \in mem'[p], f[2] = "flat", f # e
        PROVE  f \in mem[p] /\ dir'[f] = dir[f] /\ dir'[Sharded(f)] = dir[Sharded(f)]
    <3>1. f \in mem[p] /\ f = <<f[1], "flat">>
      BY <2>1, <2>2, <2>4 DEF Relocated, Places
    <3>2. f # Sharded(e) /\ Sharded(f) # e /\ Sharded(f) # Sharded(e)
      BY <2>1, <2>4, <3>1 DEF Sharded
    <3>3. QED
      BY <1>11, <3>1, <3>2 DEF Migrate, Sharded, Places
  <2>5. e \in mem'[p] => UNCHANGED <<dir, mem>> /\ Repaired(e)
    BY <2>1, <2>2 DEF Relocated
  <2>6. ASSUME job[p] = "reconcile", NEW f \in mem'[p], f[2] = "flat", f \notin todo'[p]
        PROVE  Repaired(f)'
    <3>1. CASE f = e
      BY <2>5, <3>1 DEF Repaired, Sharded
    <3>2. CASE f # e
      <4>1. f \in mem[p] /\ f \notin todo[p]
        BY <2>1, <2>4, <2>6, <3>2
      <4>2. Repaired(f)
        BY <2>1, <2>6, <4>1 DEF PathInv, PathsBy, Visited
      <4>3. QED
        BY <2>4, <2>6, <3>2, <4>2 DEF Repaired, Sharded
    <3>3. QED
      BY <3>1, <3>2
  <2>7. PathsBy(p)'
    BY <2>1, <2>3, <2>6 DEF PathsBy, Visited
  <2>8. \A q \in Procs \ {p} : mem'[q] = mem[q]
    BY <2>2
  <2>9. QED
    BY <1>a, <1>b, <1>d, <2>1, <2>7, <2>8
<1>12. ASSUME NEW p \in Procs, NEW e \in Places, MigrateFails(p, e) PROVE PathInv'
  <2>1. /\ UNCHANGED <<index, mem, job, pc, dir>> /\ pc[p] = "migrate" /\ dir[e] # "none"
        /\ todo'[p] = todo[p] \ {e}
    BY <1>12 DEF MigrateFails
  <2>2. PathsBy(p)'
    BY <1>e, <2>1 DEF PathsBy, PathInv, Visited, Repaired, Sharded
  <2>3. QED
    BY <1>a, <1>b, <1>d, <2>1, <2>2
<1>13. ASSUME NEW p \in Procs, OpenTmp(p) \/ Write(p) PROVE PathInv'
  <2>1. /\ pc[p] \in {"open", "write"} /\ pc'[p] \in {"write", "rename"}
        /\ \A q \in Procs \ {p} : pc'[q] = pc[q]
        /\ UNCHANGED <<mem, dir, job, index>>
    BY <1>13 DEF OpenTmp, Write, OneWriter
  <2>2. PathsBy(p)'
    BY <1>e, <2>1 DEF PathsBy, PathInv, Visited, Repaired, Sharded
  <2>3. QED
    BY <1>a, <1>b, <1>d, <2>1, <2>2
<1>14. ASSUME NEW p \in Procs, Rename(p) PROVE PathInv'
  <2>1. /\ pc[p] = "rename" /\ index'.entries = mem[p] /\ UNCHANGED dir
        /\ pc' = [pc EXCEPT ![p] = "idle"] /\ mem' = [mem EXCEPT ![p] = {}]
    BY <1>14 DEF Rename, Returns, OneWriter
  <2>2. RightPaths(mem[p])
    BY DEF PathInv, PathsBy
  <2>3. RightPaths(index.entries)'
    BY <2>1, <2>2 DEF RightPaths
  <2>4. PathsBy(p)'
    BY <2>1 DEF PathsBy, RightPaths
  <2>5. QED
    BY <1>a, <1>b, <2>1, <2>3, <2>4
<1>15. ASSUME NEW p \in Procs, RemoveTmp(p) \/ Abandon(p) PROVE PathInv'
  <2>1. /\ pc[p] # "idle" /\ pc' = [pc EXCEPT ![p] = "idle"] /\ mem' = [mem EXCEPT ![p] = {}]
        /\ UNCHANGED index
    BY <1>15 DEF RemoveTmp, Abandon, Returns
  <2>2. PathsBy(p)'
    BY <2>1 DEF PathsBy, RightPaths
  <2>3. QED
    BY <1>a, <1>b, <1>d, <2>1, <2>2
<1>16. ASSUME NEW p \in Procs, RenameFails(p) PROVE PathInv'
  <2>1. /\ pc[p] = "rename" /\ pc' = [pc EXCEPT ![p] = "clean"] /\ UNCHANGED <<index, mem>>
    BY <1>16 DEF RenameFails
  <2>2. PathsBy(p)'
    BY <1>e, <2>1 DEF PathsBy
  <2>3. QED
    BY <1>a, <1>b, <1>d, <2>1, <2>2
<1>17. ASSUME NEW p \in Procs, Refuse(p) \/ List(p) \/ ListFails(p) \/ PatchIndex(p) PROVE FALSE
  BY <1>17 DEF Refuse, List, ListFails, PatchIndex, OneWriter
<1>18. ASSUME Tick \/ UNCHANGED vars PROVE PathInv'
  <2>1. UNCHANGED <<dir, index, mem, own, job, pc, todo>>
    BY <1>18 DEF Tick, vars, procVars
  <2>2. QED
    BY <2>1 DEF PathInv, PathsBy, RightPaths, Visited, Repaired, Sharded
<1>19. QED
  BY <1>1, <1>3, <1>4, <1>5, <1>6, <1>7, <1>8, <1>9, <1>10, <1>11, <1>12, <1>13, <1>14, <1>15,
     <1>16, <1>17, <1>18 DEF Next

\* A Reconcile that succeeds writes an index whose entries point at their data,
\* also when an earlier one was killed between a move and the index.
THEOREM ReconcileRepairs ==
  ASSUME Sequential, ~Patches
  PROVE  Spec => RepairsPaths
<1>1. SequentialInv /\ PathInv /\ [Next]_vars =>
        [\A p \in Procs :
           pc[p] = "rename" /\ job[p] = "reconcile" /\ index' # index =>
               \A e \in index'.entries :
                   (\E f \in Places : f[1] = e[1] /\ dir[f] # "none") => dir[e] # "none"]_vars
  <2> USE DEF SequentialInv, GraceTypes, TypeInv, TypeOK
  <2> SUFFICES ASSUME SequentialInv, PathInv, [Next]_vars,
                      NEW p \in Procs, pc[p] = "rename", job[p] = "reconcile", index' # index
               PROVE  \A e \in index'.entries :
                          (\E f \in Places : f[1] = e[1] /\ dir[f] # "none") => dir[e] # "none"
    OBVIOUS
  <2>1. \A e \in mem[p] :
          (\E f \in Places : f[1] = e[1] /\ dir[f] # "none") => dir[e] # "none"
    <3> SUFFICES ASSUME NEW e \in mem[p], NEW f \in Places, f[1] = e[1], dir[f] # "none"
                 PROVE  dir[e] # "none"
      OBVIOUS
    <3>1. /\ e = <<e[1], "flat">> \/ e = Sharded(e)
          /\ f = <<e[1], "flat">> \/ f = Sharded(e)
          /\ Sharded(e) = <<e[1], "shard">>
      BY DEF Places, Sharded
    <3>2. PathsBy(p)
      BY DEF PathInv
    <3>3. CASE e = Sharded(e)
      <4>1. e[2] = "shard"
        BY <3>1, <3>3
      <4>2. dir[<<e[1], "flat">>] = "none"
        BY <3>2, <4>1 DEF PathsBy, RightPaths
      <4>3. QED
        BY <3>1, <3>3, <4>2
    <3>4. CASE e = <<e[1], "flat">>
      <4>1. e[2] = "flat"
        BY <3>4
      <4>2. Repaired(e)
        BY <3>2, <4>1 DEF PathsBy, Visited
      <4>3. QED
        BY <3>1, <3>4, <4>2 DEF Repaired
    <3>5. QED
      BY <3>1, <3>3, <3>4
  <2>2. index'.entries = mem[p]
    <3>1. \A q \in Procs : pc[q] # "idle" => q = p
      BY DEF OneWriter
    <3>2. UNCHANGED index \/ Rename(p)
      BY <3>1, IndexWriters DEF Rename
    <3>3. QED
      BY <3>2 DEF Rename, OneWriter
  <2>3. QED
    BY <2>1, <2>2
<1>2. SequentialInv /\ PathInv /\ [Next]_vars => PathInv'
  BY PathStep
<1>3. QED
  BY <1>1, <1>2, PathInit, SequentialHolds, PTL DEF Spec, RepairsPaths


----------------------------------------------------------------------------
(* The store implements ResultStore.                                       *)

\* ResultStore keeps what it promises.
THEOREM ResultsAreWhole == Results!Spec => []Results!Whole
<1> DEFINE Listed == Lists(index.entries)
<1>1. Results!Init => Results!Whole
  BY DEF Results!Init, Results!Whole
<1>2. Results!Whole /\ [Results!Next]_<<Listed, Stored, dropped>> => Results!Whole'
  <2> SUFFICES ASSUME Results!Whole, [Results!Next]_<<Listed, Stored, dropped>> PROVE Results!Whole'
    OBVIOUS
  <2> HIDE DEF Listed
  <2>1. CASE Results!Next
    BY <2>1 DEF Results!Next, Results!Whole, Results!Store, Results!List, Results!Ask,
       Results!Discard, Results!Remove, Listed
  <2>2. CASE UNCHANGED <<Listed, Stored, dropped>>
    BY <2>2 DEF Results!Whole, Listed
  <2>3. QED
    BY <2>1, <2>2
<1>3. QED
  BY <1>1, <1>2, PTL DEF Results!Spec

(* What an operation is about to write differs from the index by what the  *)
(* operation is for, and by nothing else.                                  *)
WritesBy(p) ==
    /\ pc[p] = "idle" <=> job[p] = "none"
    /\ job[p] = "put" =>
           /\ own[p] \notin Lists(index.entries) \cup dropped
           /\ pc[p] \notin {"data", "read"} =>
                  Lists(mem[p]) = Lists(index.entries) \cup {own[p]}
    /\ job[p] = "delete" =>
           /\ Lists(mem[p]) \subseteq Lists(index.entries)
           /\ Lists(index.entries) \ Lists(mem[p]) \subseteq dropped
    /\ job[p] = "reconcile" => Lists(mem[p]) = Lists(index.entries)

WritesInv == dropped \subseteq issued /\ \A p \in Procs : WritesBy(p)

LEMMA WritesInit == Init => WritesInv
  BY DEF Init, WritesInv, WritesBy

LEMMA ListsFacts ==
  ASSUME WrittenInv
  PROVE  Lists(index.entries) \subseteq issued
<1>1. \A e \in index.entries : e[1] \in issued
  BY DEF WrittenInv, Written
<1>2. QED
  BY <1>1 DEF Lists

LEMMA ListsAdd ==
  ASSUME NEW S, NEW i, NEW layout
  PROVE  Lists(S \cup {<<i, layout>>}) = Lists(S) \cup {i}
<1>1. <<i, layout>>[1] = i
  OBVIOUS
<1>2. QED
  BY <1>1, Zenon DEF Lists

LEMMA ListsSplit ==
  ASSUME NEW S, NEW e \in S
  PROVE  Lists(S) = Lists(S \ {e}) \cup {e[1]}
<1>1. ASSUME NEW i \in Lists(S) PROVE i \in Lists(S \ {e}) \/ i = e[1]
  BY <1>1, Zenon DEF Lists
<1>2. Lists(S \ {e}) \subseteq Lists(S) /\ e[1] \in Lists(S)
  BY Zenon DEF Lists
<1>3. QED
  BY <1>1, <1>2

(* A step that writes no index and asks for no removal.                    *)
LEMMA WritesKept ==
  ASSUME OneWriter, WritesInv, NEW p \in Procs, pc[p] # "idle",
         UNCHANGED <<index, dropped, issued>>,
         \A q \in Procs \ {p} : UNCHANGED <<pc[q], job[q], own[q], mem[q]>>,
         WritesBy(p)'
  PROVE  WritesInv'
BY DEF OneWriter, WritesInv, WritesBy

LEMMA WritesStep ==
  ASSUME Sequential, ~Patches, SequentialInv, WritesInv, [Next]_vars
  PROVE  WritesInv'
<1> USE DEF SequentialInv, GraceTypes, TypeInv, TypeOK, Goto, Holds, Visits, Opens, disk, clock,
        history
<1>a. ASSUME NEW p \in Procs, pc[p] # "idle", NEW q \in Procs \ {p}
      PROVE  pc[q] = "idle" /\ job[q] = "none"
  BY <1>a DEF OneWriter, WritesInv, WritesBy
<1>b. ASSUME NEW p \in Procs, NEW kind, NEW to, Starts(p, kind, to), NEW q \in Procs
      PROVE  pc[q] = "idle" /\ job[q] = "none"
  BY <1>b DEF Starts, WritesInv, WritesBy
<1>c. ASSUME NEW p \in Procs, \A q \in Procs \ {p} : pc'[q] = "idle" /\ job'[q] = "none",
             dropped' \subseteq issued', WritesBy(p)'
      PROVE  WritesInv'
  BY <1>c DEF WritesInv, WritesBy
<1>1. ASSUME NEW p \in Procs, NEW i \in Ids, Put(p, i) PROVE WritesInv'
  <2>1. /\ pc' = [pc EXCEPT ![p] = "data"] /\ job' = [job EXCEPT ![p] = "put"] /\ own'[p] = i
        /\ UNCHANGED <<index, dropped>> /\ i \notin issued /\ issued \subseteq issued'
        /\ Starts(p, "put", "data")
    BY <1>1 DEF Put, Starts
  <2>2. i \notin Lists(index.entries) \cup dropped
    BY <2>1, ListsFacts DEF WritesInv
  <2>3. WritesBy(p)'
    BY <2>1, <2>2 DEF WritesBy
  <2>4. QED
    BY <1>b, <1>c, <2>1, <2>3 DEF WritesInv
<1>2. ASSUME NEW p \in Procs, NEW gone, RemoveEntries(p, gone), gone \subseteq index.entries
      PROVE  WritesInv'
  <2>1. /\ mem'[p] = index.entries \ gone
        /\ dropped' = dropped \cup Lists(gone)
        /\ pc' = [pc EXCEPT ![p] = "remove"] /\ job' = [job EXCEPT ![p] = "delete"]
        /\ UNCHANGED <<index, issued>> /\ Starts(p, "delete", "remove")
    BY <1>2 DEF RemoveEntries, Lists, Starts
  <2>2. Lists(gone) \subseteq Lists(index.entries)
    BY <1>2 DEF Lists
  <2>3. Lists(mem'[p]) \subseteq Lists(index.entries)
        /\ Lists(index.entries) \ Lists(mem'[p]) \subseteq Lists(gone)
    BY <2>1 DEF Lists
  <2>4. WritesBy(p)'
    BY <2>1, <2>3 DEF WritesBy
  <2>5. QED
    BY <1>b, <1>c, <2>1, <2>2, <2>4, ListsFacts DEF WritesInv
<1>3. ASSUME NEW p \in Procs, NEW i \in Ids, Delete(p, i) PROVE WritesInv'
  BY <1>2, <1>3 DEF Delete
<1>4. ASSUME NEW p \in Procs, NEW cutoff \in 1 .. MaxTime, Prune(p, cutoff) PROVE WritesInv'
  BY <1>2, <1>4 DEF Prune
<1>5. ASSUME NEW p \in Procs, WriteData(p) PROVE WritesInv'
  <2>1. /\ pc[p] = "data" /\ pc' = [pc EXCEPT ![p] = "read"]
        /\ UNCHANGED <<index, dropped, issued, mem, own, job>>
    BY <1>5 DEF WriteData
  <2>2. WritesBy(p)'
    BY <2>1 DEF WritesBy, WritesInv
  <2>3. QED
    BY <2>1, <2>2, WritesKept
<1>6. ASSUME NEW p \in Procs, AddEntry(p) PROVE WritesInv'
  <2>1. /\ pc[p] = "read" /\ pc' = [pc EXCEPT ![p] = "open"] /\ job[p] = "put"
        /\ mem' = [mem EXCEPT ![p] = index.entries \cup {<<own[p], "shard">>}]
        /\ UNCHANGED <<index, dropped, issued, own, job>>
    BY <1>6 DEF AddEntry, PutInv
  <2>2. Lists(mem'[p]) = Lists(index.entries) \cup {own[p]}
    <3>1. mem'[p] = index.entries \cup {<<own[p], "shard">>}
      BY <2>1
    <3>2. Lists(index.entries \cup {<<own[p], "shard">>}) = Lists(index.entries) \cup {own[p]}
      BY ListsAdd
    <3>3. QED
      BY <3>1, <3>2
  <2>3. WritesBy(p)'
    BY <2>1, <2>2 DEF WritesBy, WritesInv
  <2>4. QED
    BY <2>1, <2>3, WritesKept
<1>7. ASSUME NEW p \in Procs, Reconcile(p) PROVE WritesInv'
  <2>1. /\ pc' = [pc EXCEPT ![p] = "collect"] /\ job' = [job EXCEPT ![p] = "reconcile"]
        /\ mem'[p] = index.entries /\ UNCHANGED <<index, dropped, issued>>
        /\ Starts(p, "reconcile", "collect")
    BY <1>7 DEF Reconcile, Starts
  <2>2. WritesBy(p)'
    BY <2>1 DEF WritesBy
  <2>3. QED
    BY <1>b, <1>c, <2>1, <2>2 DEF WritesInv
<1>8. ASSUME NEW p \in Procs, NEW e \in Places, RemoveDir(p, e) \/ MigrateFails(p, e) PROVE WritesInv'
  <2>1. pc[p] # "idle" /\ UNCHANGED <<pc, index, dropped, issued, mem, own, job>>
    BY <1>8 DEF RemoveDir, MigrateFails
  <2>2. WritesBy(p)'
    BY <2>1 DEF WritesBy, WritesInv
  <2>3. QED
    BY <2>1, <2>2, WritesKept
<1>9. ASSUME NEW p \in Procs,
             Collect(p) \/ RemoveEnds(p) \/ CollectEnds(p) \/ MigrateEnds(p) \/ OpenTmp(p) \/ Write(p)
               \/ RenameFails(p)
      PROVE  WritesInv'
  <2>1. /\ pc[p] \notin {"idle", "data", "read"} /\ pc'[p] \notin {"idle", "data", "read"}
        /\ \A q \in Procs \ {p} : pc'[q] = pc[q]
        /\ UNCHANGED <<index, dropped, issued, mem, own, job>>
    BY <1>9 DEF Collect, RemoveEnds, CollectEnds, MigrateEnds, OpenTmp, Write, RenameFails, OneWriter
  <2>2. WritesBy(p)'
    BY <2>1 DEF WritesBy, WritesInv
  <2>3. QED
    BY <2>1, <2>2, WritesKept
<1>10. ASSUME NEW p \in Procs, NEW e \in Places, Migrate(p, e) PROVE WritesInv'
  <2>1. /\ pc[p] = "migrate" /\ UNCHANGED <<pc, index, dropped, issued, own, job>>
        /\ e \in mem[p] /\ mem[p] \subseteq Places
        /\ mem' = mem \/ mem' = [mem EXCEPT ![p] = Relocated(p, e)]
    BY <1>10 DEF Migrate, WrittenInv
  <2>2. Lists(mem'[p]) = Lists(mem[p])
    <3>1. Lists(Relocated(p, e)) = Lists(mem[p])
      <4>1. Lists(Relocated(p, e)) = Lists(mem[p] \ {e}) \cup {e[1]}
        BY ListsAdd DEF Relocated, Sharded
      <4>2. Lists(mem[p]) = Lists(mem[p] \ {e}) \cup {e[1]}
        BY <2>1, ListsSplit
      <4>3. QED
        BY <4>1, <4>2
    <3>2. QED
      BY <2>1, <3>1
  <2>3. WritesBy(p)'
    BY <2>1, <2>2 DEF WritesBy, WritesInv
  <2>4. QED
    BY <2>1, <2>3, WritesKept
<1>11. ASSUME NEW p \in Procs, Rename(p) \/ RemoveTmp(p) \/ Abandon(p) PROVE WritesInv'
  <2>1. /\ pc[p] # "idle" /\ pc' = [pc EXCEPT ![p] = "idle"] /\ job' = [job EXCEPT ![p] = "none"]
        /\ UNCHANGED <<dropped, issued>>
    BY <1>11 DEF Rename, RemoveTmp, Abandon, Returns
  <2>2. WritesBy(p)'
    BY <2>1 DEF WritesBy
  <2>3. QED
    BY <1>a, <1>c, <2>1, <2>2 DEF WritesInv
<1>12. ASSUME NEW p \in Procs, Refuse(p) \/ List(p) \/ ListFails(p) \/ PatchIndex(p) PROVE FALSE
  BY <1>12 DEF Refuse, List, ListFails, PatchIndex, OneWriter
<1>13. ASSUME Tick \/ UNCHANGED vars PROVE WritesInv'
  <2>1. UNCHANGED <<pc, index, dropped, issued, mem, own, job>>
    BY <1>13 DEF Tick, vars, procVars
  <2>2. QED
    BY <2>1 DEF WritesInv, WritesBy
<1>14. QED
  BY <1>1, <1>3, <1>4, <1>5, <1>6, <1>7, <1>8, <1>9, <1>10, <1>11, <1>12, <1>13 DEF Next


(* The steps of the store are steps of ResultStore, or none.               *)
LEMMA ResultsInit == Init => Results!Init
<1> SUFFICES ASSUME Init PROVE Results!Init
  OBVIOUS
<1>1. Lists(index.entries) \subseteq committed
  BY DEF Init, Lists
<1>2. committed \subseteq Ids /\ \A i \in committed : i \in Stored
  BY StoreAssumption DEF Init, Stored, Places
<1>3. Stored \subseteq Ids /\ dropped = {}
  BY DEF Init, Stored
<1>4. QED
  BY <1>1, <1>2, <1>3 DEF Results!Init

LEMMA StoreStepImplements ==
  ASSUME Sequential, ~Patches, SequentialInv, WritesInv, Next
  PROVE  Results!Next \/ UNCHANGED <<Lists(index.entries), Stored, dropped>>
<1> DEFINE Goal == Results!Next \/ UNCHANGED <<Lists(index.entries), Stored, dropped>>
<1> USE DEF SequentialInv, GraceTypes, TypeInv, TypeOK, Goto, Holds, Visits, Opens, disk, clock,
        history
<1>a. ASSUME UNCHANGED dir PROVE Stored' = Stored
  BY <1>a DEF Stored
<1>b. ASSUME UNCHANGED <<dir, index, dropped>> PROVE Goal
  BY <1>a, <1>b DEF Lists
<1>1. ASSUME NEW p \in Procs, NEW i \in Ids, Put(p, i) PROVE Goal
  <2>1. dir[<<i, "shard">>] = "none" /\ dir' = [dir EXCEPT ![<<i, "shard">>] = "part"]
        /\ UNCHANGED <<index, dropped>>
    BY <1>1 DEF Put, GraceInv, Places
  <2>2. Stored' = Stored
    BY <2>1 DEF Stored, Places
  <2>3. QED
    BY <2>1, <2>2 DEF Lists
<1>2. ASSUME NEW p \in Procs, NEW gone, RemoveEntries(p, gone), gone \subseteq index.entries PROVE Goal
  <2>1. UNCHANGED <<dir, index>> /\ dropped' = dropped \cup Lists(gone)
    BY <1>2 DEF RemoveEntries, Lists
  <2>2. Lists(gone) \subseteq Lists(index.entries) /\ Lists(gone) \in SUBSET Ids
    BY <1>2 DEF Lists, Texts, Places
  <2>3. Results!Ask(Lists(gone))
    BY <1>a, <2>1, <2>2 DEF Results!Ask
  <2>4. QED
    BY <2>2, <2>3 DEF Results!Next
<1>3. ASSUME NEW p \in Procs, NEW i \in Ids, Delete(p, i) PROVE Goal
  BY <1>2, <1>3 DEF Delete
<1>4. ASSUME NEW p \in Procs, NEW cutoff \in 1 .. MaxTime, Prune(p, cutoff) PROVE Goal
  BY <1>2, <1>4 DEF Prune
<1>5. ASSUME NEW p \in Procs, WriteData(p) PROVE Goal
  <2>1. own[p] \in Ids /\ job[p] = "put" /\ dir' = [dir EXCEPT ![<<own[p], "shard">>] = "full"]
        /\ UNCHANGED <<index, dropped>>
    BY <1>5 DEF WriteData, PutInv
  <2>2. own[p] \notin Lists(index.entries)
    BY <2>1 DEF WritesInv, WritesBy
  <2>3. Stored' = Stored \cup {own[p]}
    BY <2>1 DEF Stored, Places
  <2>4. Results!Store(own[p])
    BY <2>1, <2>2, <2>3 DEF Results!Store
  <2>5. QED
    BY <2>1, <2>4 DEF Results!Next
<1>6. ASSUME NEW p \in Procs, NEW e \in Places, RemoveDir(p, e) PROVE Goal
  <2>1. /\ pc[p] \in {"remove", "gc"} /\ e \in todo[p] /\ UNCHANGED <<index, dropped>>
        /\ dir' = [dir EXCEPT ![e] = "none"] \/ dir' = [dir EXCEPT ![e] = "cut"] \/ UNCHANGED dir
    BY <1>6 DEF RemoveDir
  <2>2. e[1] \in Ids /\ e[1] \notin Lists(index.entries) \ dropped
    <3>1. e[1] \in Lists(todo[p])
      BY <2>1 DEF Lists
    <3>2. KeptBy(p)
      BY DEF KeptInv
    <3>3. QED
      BY <2>1, <3>1, <3>2 DEF KeptBy, Places
  <2>3. Stored' = Stored \/ Stored' = Stored \ {e[1]}
    <3>1. \A i \in Ids : dir[<<i, "flat">>] = "none" \/ dir[<<i, "shard">>] = "none"
      BY DEF KeptInv, KeptOnDisk
    <3>2. \A i \in Ids \ {e[1]} : dir'[<<i, "flat">>] = dir[<<i, "flat">>]
                               /\ dir'[<<i, "shard">>] = dir[<<i, "shard">>]
      BY <2>1 DEF Places
    <3>3. UNCHANGED dir \/ dir'[e] # "full"
      BY <2>1
    <3>4. dir'[<<e[1], "flat">>] = "full" => dir[<<e[1], "flat">>] = "full"
      BY <2>1, <2>2 DEF Places
    <3>5. dir'[<<e[1], "shard">>] = "full" => dir[<<e[1], "shard">>] = "full"
      BY <2>1, <2>2 DEF Places
    <3>6. QED
      BY <3>2, <3>4, <3>5 DEF Stored
  <2>4. CASE Stored' = Stored
    BY <2>1, <2>4 DEF Lists
  <2>5. CASE Stored' = Stored \ {e[1]}
    <3>1. Results!Discard(e[1])
      BY <2>1, <2>2, <2>5 DEF Results!Discard
    <3>2. QED
      BY <2>2, <3>1 DEF Results!Next
  <2>6. QED
    BY <2>3, <2>4, <2>5
<1>7. ASSUME NEW p \in Procs, NEW e \in Places, Migrate(p, e) PROVE Goal
  <2>1. /\ e = <<e[1], "flat">> /\ e[1] \in Ids /\ UNCHANGED <<index, dropped>>
        /\ Sharded(e) = <<e[1], "shard">> /\ Sharded(e) \in Places
    BY <1>7 DEF Migrate, WrittenInv, Places, Sharded
  <2>2. dir[e] = "none" \/ dir[Sharded(e)] = "none"
    BY <2>1 DEF KeptInv, KeptOnDisk
  <2>3. \/ UNCHANGED dir
        \/ /\ dir[Sharded(e)] = "none"
           /\ dir' = [dir EXCEPT ![Sharded(e)] = dir[e], ![e] = "none"]
    BY <1>7, <2>2 DEF Migrate
  <2>4. ASSUME dir[Sharded(e)] = "none", dir' = [dir EXCEPT ![Sharded(e)] = dir[e], ![e] = "none"]
        PROVE  Stored' = Stored
    <3>1. dir'[<<e[1], "shard">>] = dir[<<e[1], "flat">>] /\ dir'[<<e[1], "flat">>] = "none"
          /\ dir[<<e[1], "shard">>] = "none"
      BY <2>1, <2>4
    <3>2. \A i \in Ids \ {e[1]} : dir'[<<i, "flat">>] = dir[<<i, "flat">>]
                               /\ dir'[<<i, "shard">>] = dir[<<i, "shard">>]
      BY <2>1, <2>4 DEF Places
    <3>3. \A i \in Ids : i \in Stored' <=> i \in Stored
      BY <3>1, <3>2 DEF Stored
    <3>4. QED
      BY <3>3 DEF Stored
  <2>5. Stored' = Stored
    BY <1>a, <2>3, <2>4
  <2>6. QED
    BY <2>1, <2>5 DEF Lists
<1>8. ASSUME NEW p \in Procs, NEW e \in Places, MigrateFails(p, e) PROVE Goal
  BY <1>b, <1>8 DEF MigrateFails
<1>9. ASSUME NEW p \in Procs, AddEntry(p) \/ Reconcile(p) \/ Collect(p) \/ RemoveEnds(p) \/ CollectEnds(p)
               \/ MigrateEnds(p)
      PROVE  Goal
  BY <1>b, <1>9 DEF AddEntry, Reconcile, Collect, RemoveEnds, CollectEnds, MigrateEnds
<1>10. ASSUME NEW p \in Procs, OpenTmp(p) \/ Write(p) \/ RenameFails(p) \/ RemoveTmp(p) \/ Abandon(p)
       PROVE  Goal
  BY <1>b, <1>10 DEF OpenTmp, Write, RenameFails, RemoveTmp, Abandon, OneWriter
<1>11. ASSUME NEW p \in Procs, Rename(p) PROVE Goal
  <2>1. /\ pc[p] = "rename" /\ index'.entries = mem[p] /\ UNCHANGED <<dir, dropped>>
    BY <1>11 DEF Rename, OneWriter
  <2>2. Lists(index.entries)' = Lists(mem[p]) /\ Stored' = Stored
    BY <1>a, <2>1 DEF Lists
  <2>3. WritesBy(p) /\ KeptBy(p) /\ job[p] \in {"put", "delete", "reconcile"}
    BY <2>1 DEF WritesInv, WritesBy, KeptInv, OneWriter, Jobs
  <2>4. CASE job[p] = "put"
    <3>1. own[p] \in Ids /\ own[p] \in Stored /\ own[p] \notin Lists(index.entries) \cup dropped
      BY <2>1, <2>3, <2>4 DEF KeptBy, WritesBy, PutInv
    <3>2. Lists(mem[p]) = Lists(index.entries) \cup {own[p]}
      BY <2>1, <2>3, <2>4 DEF WritesBy
    <3>3. Results!List(own[p])
      BY <2>1, <2>2, <3>1, <3>2 DEF Results!List
    <3>4. QED
      BY <3>1, <3>3 DEF Results!Next
  <2>5. CASE job[p] = "delete"
    <3>1. /\ Lists(mem[p]) \subseteq Lists(index.entries)
          /\ Lists(index.entries) \ Lists(mem[p]) \subseteq dropped
      BY <2>3, <2>5 DEF WritesBy
    <3>2. Results!Remove(Lists(index.entries) \ Lists(mem[p]))
      BY <2>1, <2>2, <3>1 DEF Results!Remove
    <3>3. Lists(index.entries) \ Lists(mem[p]) \in SUBSET Ids
      BY <3>1
    <3>4. QED
      BY <3>2, <3>3 DEF Results!Next
  <2>6. CASE job[p] = "reconcile"
    BY <2>1, <2>2, <2>3, <2>6 DEF WritesBy
  <2>7. QED
    BY <2>3, <2>4, <2>5, <2>6
<1>12. ASSUME NEW p \in Procs, Refuse(p) \/ List(p) \/ ListFails(p) \/ PatchIndex(p) PROVE FALSE
  BY <1>12 DEF Refuse, List, ListFails, PatchIndex, OneWriter
<1>13. ASSUME Tick PROVE Goal
  BY <1>b, <1>13 DEF Tick
<1> HIDE DEF Goal
<1>14. Goal
  BY <1>1, <1>3, <1>4, <1>5, <1>6, <1>7, <1>8, <1>9, <1>10, <1>11, <1>12, <1>13 DEF Next
<1>15. QED
  BY <1>14 DEF Goal

\* Operations that follow one another, each of which may fail or be killed at
\* any step, take effect on the list at once or not at all, and a Reconcile
\* repairs what an interrupted one left.
THEOREM StoreRecovers ==
  ASSUME Sequential, ~Patches
  PROVE  Spec => Recovers
<1>1. SequentialInv /\ WritesInv /\ [Next]_vars =>
        [Results!Next]_<<Lists(index.entries), Stored, dropped>>
  <2>1. UNCHANGED vars => UNCHANGED <<Lists(index.entries), Stored, dropped>>
    BY DEF vars, disk, history, Lists, Stored
  <2>2. QED
    BY <2>1, StoreStepImplements
<1>2. SequentialInv /\ WritesInv /\ [Next]_vars => WritesInv'
  BY WritesStep
<1>3. Spec => ImplementsResults
  BY <1>1, <1>2, WritesInit, ResultsInit, SequentialHolds, PTL
  DEF Spec, ImplementsResults, Results!Spec
<1>4. QED
  BY <1>3, ReconcileRepairs, PTL DEF Recovers

=============================================================================

--------------------------- MODULE EnrichRunProofs --------------------------
(***************************************************************************)
(* Proofs about EnrichRun, for any number of engines, modules, workers,    *)
(* chunks, plans and faults.                                               *)
(***************************************************************************)
EXTENDS EnrichRun, FiniteSetTheorems, TLAPS

(* What the place of an engine says of its state: nothing has happened     *)
(* before the monitor is started, no heartbeat is left once it has been    *)
(* joined, and only an engine with a monitor has attempts or heartbeats.   *)
PhaseAt(e) ==
    /\ pc[e] \in {"select", "resume", "insert"} =>
          /\ run[e] = None /\ status[e] = None /\ e \notin panicked
          /\ jobs[e] = {} /\ hands[e] = {} /\ crew[e] = Concurrent
          /\ out[e] = {} /\ item[e] = {} /\ done[e] = {} /\ beat[e] = {}
    /\ pc[e] \in {"ended", "failed", "dead"} => item[e] = {} /\ beat[e] = {}
    /\ pc[e] \in {"finalise", "abort"} => run[e] # None /\ item[e] = {}
    /\ item[e] # {} \/ beat[e] # {} => run[e] # None
    /\ item[e] \subseteq done[e]
PhaseOK == \A e \in Engines : PhaseAt(e)

(* A worker is idle, has a chunk, or has panicked.                         *)
CrewAt(e) ==
    /\ IsFiniteSet(hands[e])
    /\ crew[e] + Cardinality(hands[e]) <= Concurrent
CrewOK == \A e \in Engines : CrewAt(e)

TypeInv == TypeOK /\ PhaseOK /\ CrewOK /\ IsFiniteSet(attempts)

LEMMA Bounds ==
    ASSUME TypeOK, [Next]_vars
    PROVE  plan' \in Plans /\ faults' \in 0..MaxFaults
BY EnrichAssumption DEF EnrichAssumption, TypeOK, Next, vars

LEMMA RunsFacts == Engines \subseteq Runs /\ Ext \in Runs /\ Ext \notin Engines /\ None \notin Runs
    /\ None \notin {"in_progress", "completed", "interrupted"}
BY EnrichAssumption DEF EnrichAssumption, Runs

LEMMA ChunksType == TypeOK => \A e \in Engines : Chunks(e) \subseteq SUBSET Modules
<1>. SUFFICES ASSUME TypeOK, NEW e \in Engines PROVE Chunks(e) \subseteq SUBSET Modules
  OBVIOUS
<1>1. batch[e] \subseteq Modules
  BY DEF TypeOK
<1>. QED
  BY <1>1 DEF Chunks, Chunk

LEMMA PlanExt == TypeOK => plan.ext \subseteq Outcome
BY EnrichAssumption DEF EnrichAssumption, TypeOK, Outcome

LEMMA EntryType ==
    ASSUME NEW p \in Runs, NEW o \in Outcome, NEW n \in Nat
    PROVE  By(p, o, n) \in Entry
BY DEF By, Outcome, Entry

LEMMA RepeatsType ==
    ASSUME IsFiniteSet(attempts), NEW p, NEW o
    PROVE  Repeats(p, o) \in Nat
BY FS_Subset, FS_CardinalityType DEF Repeats

LEMMA CrewArith ==
    ASSUME NEW H, IsFiniteSet(H), NEW c \in H
    PROVE  /\ IsFiniteSet(H \ {c}) /\ Cardinality(H) \in Nat
           /\ Cardinality(H) >= 1
           /\ Cardinality(H \ {c}) = Cardinality(H) - 1
<1>1. Cardinality(H) \in Nat /\ Cardinality(H \ {c}) \in Nat
  BY FS_CardinalityType, FS_RemoveElement
<1>. QED
  BY <1>1, FS_RemoveElement

LEMMA InitType == Init => TypeInv
<1>. SUFFICES ASSUME Init PROVE TypeInv
  OBVIOUS
<1>1. TypeOK
  BY EnrichAssumption, RunsFacts DEF Init, TypeOK, EnrichAssumption, Outcome
<1>2. PhaseOK
  BY RunsFacts DEF Init, PhaseOK, PhaseAt
<1>3. CrewOK
  BY EnrichAssumption, FS_EmptySet DEF Init, CrewOK, CrewAt, EnrichAssumption
<1>4. IsFiniteSet(attempts)
  BY FS_EmptySet DEF Init
<1>. QED
  BY <1>1, <1>2, <1>3, <1>4 DEF TypeInv

LEMMA AnswersType ==
    ASSUME NEW c \in SUBSET Modules
    PROVE  {[mod |-> m, ok |-> TRUE] : m \in c} \subseteq Outcome
<1>. SUFFICES ASSUME NEW m \in c PROVE [mod |-> m, ok |-> TRUE] \in Outcome
  OBVIOUS
<1>. QED
  BY DEF Outcome

LEMMA CountedType ==
    ASSUME TypeOK, NEW e \in Engines, NEW o, NEW r \in Outcome, Counted(e, o, r)
    PROVE  /\ out' \in [Engines -> SUBSET Outcome]
           /\ item' \in [Engines -> SUBSET Outcome]
           /\ done' \in [Engines -> SUBSET Outcome]
BY DEF TypeOK, Counted

(* What names a row still does, when no row is removed.                    *)
LEMMA Kept ==
    ASSUME TypeOK, \A r \in Runs : status[r] # None => status'[r] # None
    PROVE  /\ started \in Seq({r \in Runs : status'[r] # None})
           /\ attempts \subseteq [row : {r \in Runs : status'[r] # None}, what : Entry]
           /\ run \in [Engines -> {r \in Runs : status'[r] # None} \cup {None}]
<1>. DEFINE S == {r \in Runs : status[r] # None}
            T == {r \in Runs : status'[r] # None}
<1>1. S \subseteq T
  OBVIOUS
<1>2. /\ started \in Seq(S) /\ run \in [Engines -> S \cup {None}]
      /\ attempts \subseteq [row : S, what : Entry]
  BY DEF TypeOK
<1>. HIDE DEF S, T
<1>3. /\ started \in Seq(T) /\ run \in [Engines -> T \cup {None}]
      /\ attempts \subseteq [row : T, what : Entry]
  BY <1>1, <1>2
<1>. QED
  BY <1>3 DEF T

(* Type correctness.                                                       *)
LEMMA TypeStep == TypeInv /\ [Next]_vars => TypeOK'
<1>. SUFFICES ASSUME TypeInv, [Next]_vars PROVE TypeOK'
  OBVIOUS
<1>. USE Bounds, RunsFacts DEF TypeInv, TypeOK, tables, pool, collector
<1>1. ASSUME NEW e \in Engines, SelectPending(e) PROVE TypeOK'
  BY <1>1 DEF SelectPending, Goto, Limited
<1>2. ASSUME NEW e \in Engines, NEW r \in Runs, SelectRetry(e, r) PROVE TypeOK'
  BY <1>2 DEF SelectRetry, Goto
<1>3. ASSUME NEW e \in Engines, Resume(e) PROVE TypeOK'
  <2>1. Chunks(e) \subseteq SUBSET Modules
    BY ChunksType
  <2>. QED
    BY <1>3, <2>1 DEF Resume, Begin, Goto, Fresh
<1>4. ASSUME NEW e \in Engines, FindNone(e) PROVE TypeOK'
  BY <1>4 DEF FindNone, Goto
<1>5. ASSUME NEW e \in Engines, InsertRun(e) PROVE TypeOK'
  <2>1. Chunks(e) \subseteq SUBSET Modules
    BY ChunksType
  <2>2. /\ status' \in [Runs -> {None, "in_progress", "completed", "interrupted"}]
        /\ \A r \in Runs : status[r] # None => status'[r] # None
        /\ e \in {r \in Runs : status'[r] # None}
    BY <1>5 DEF InsertRun, NewRow
  <2>3. started \in Seq({r \in Runs : status'[r] # None})
    BY <2>2, Kept
  <2>4. started' \in Seq({r \in Runs : status'[r] # None})
    BY <1>5, <2>2, <2>3 DEF InsertRun, NewRow
  <2>5. /\ run' \in [Engines -> {r \in Runs : status'[r] # None} \cup {None}]
        /\ attempts' \subseteq [row : {r \in Runs : status'[r] # None}, what : Entry]
    BY <1>5, <2>2 DEF InsertRun, NewRow, Begin
  <2>. QED
    BY <1>5, <2>1, <2>2, <2>4, <2>5 DEF InsertRun, NewRow, Begin, Goto
<1>6. ASSUME NEW e \in Engines, StartFails(e) PROVE TypeOK'
  <2>1. Chunks(e) \subseteq SUBSET Modules
    BY ChunksType
  <2>. QED
    BY <1>6, <2>1 DEF StartFails, Begin, Goto
<1>7. ASSUME NEW e \in Engines, NEW c \in SUBSET batch[e], Take(e, c) PROVE
   TypeOK'
  <2>1. jobs' \in [Engines -> SUBSET SUBSET Modules]
    BY <1>7 DEF Take
  <2>2. crew' \in [Engines -> 0..Concurrent]
    BY <1>7, EnrichAssumption DEF Take, EnrichAssumption
  <2>3. hands' \in [Engines -> SUBSET SUBSET Modules]
    BY <1>7 DEF Take
  <2>4. out' \in [Engines -> SUBSET Outcome]
    BY <1>7 DEF Take
  <2>. QED
    BY <1>7, <2>1, <2>2, <2>3, <2>4 DEF Take
<1>8. ASSUME NEW e \in Engines, NEW c \in SUBSET batch[e], NEW S \in SUBSET c,
   AnswerBatch(e, c, S) PROVE TypeOK'
  <2>0. {[mod |-> m, ok |-> TRUE] : m \in c} \subseteq Outcome
    <3>1. c \subseteq Modules
      OBVIOUS
    <3>. QED
      BY <3>1, AnswersType
  <2>1. jobs' \in [Engines -> SUBSET SUBSET Modules]
    BY <1>8 DEF AnswerBatch
  <2>2. crew' \in [Engines -> 0..Concurrent]
    <3>1. 1 <= Cardinality(hands[e]) /\ Cardinality(hands[e]) \in Nat
      BY <1>8, CrewArith DEF AnswerBatch, CrewOK, CrewAt
    <3>2. crew[e] \in Nat /\ Concurrent \in Nat /\ crew[e] + 1 \in 0..Concurrent
      BY <3>1, EnrichAssumption DEF CrewOK, CrewAt, EnrichAssumption
    <3>. QED
      BY <1>8, <3>2 DEF AnswerBatch
  <2>3. hands' \in [Engines -> SUBSET SUBSET Modules]
    BY <1>8 DEF AnswerBatch
  <2>4. out' \in [Engines -> SUBSET Outcome]
    BY <1>8, <2>0 DEF AnswerBatch
  <2>. QED
    BY <1>8, <2>1, <2>2, <2>3, <2>4 DEF AnswerBatch
<1>9. ASSUME NEW e \in Engines, NEW c \in SUBSET batch[e], NEW m \in c, NEW ok
   \in BOOLEAN, AnswerOne(e, c, m, ok) PROVE TypeOK'
  <2>0. [mod |-> m, ok |-> ok] \in Outcome
    BY DEF Outcome
  <2>1. jobs' \in [Engines -> SUBSET SUBSET Modules]
    BY <1>9 DEF AnswerOne
  <2>2. crew' \in [Engines -> 0..Concurrent]
    <3>1. 1 <= Cardinality(hands[e]) /\ Cardinality(hands[e]) \in Nat
      BY <1>9, CrewArith DEF AnswerOne, CrewOK, CrewAt
    <3>2. crew[e] \in Nat /\ Concurrent \in Nat /\ crew[e] + 1 \in 0..Concurrent
      BY <3>1, EnrichAssumption DEF CrewOK, CrewAt, EnrichAssumption
    <3>. QED
      BY <1>9, <3>2 DEF AnswerOne
  <2>3. hands' \in [Engines -> SUBSET SUBSET Modules]
    BY <1>9 DEF AnswerOne
  <2>4. out' \in [Engines -> SUBSET Outcome]
    BY <1>9, <2>0 DEF AnswerOne
  <2>. QED
    BY <1>9, <2>1, <2>2, <2>3, <2>4 DEF AnswerOne
<1>10. ASSUME NEW e \in Engines, NEW c \in hands[e], WorkerPanics(e, c) PROVE
   TypeOK'
  BY <1>10 DEF WorkerPanics
<1>11. ASSUME NEW e \in Engines, NEW o \in out[e], WriteSummary(e, o) PROVE
   TypeOK'
  <2>1. o \in Outcome
    BY DEF Outcome
  <2>2. /\ out' \in [Engines -> SUBSET Outcome]
        /\ item' \in [Engines -> SUBSET Outcome]
        /\ done' \in [Engines -> SUBSET Outcome]
    BY <1>11, <2>1, CountedType DEF WriteSummary
  <2>. QED
    BY <1>11, <2>1, <2>2 DEF WriteSummary, Counted, Outcome
<1>12. ASSUME NEW e \in Engines, NEW o \in out[e], CountFailure(e, o) PROVE
   TypeOK'
  <2>1. [mod |-> o.mod, ok |-> FALSE] \in Outcome
    BY DEF Outcome
  <2>2. /\ out' \in [Engines -> SUBSET Outcome]
        /\ item' \in [Engines -> SUBSET Outcome]
        /\ done' \in [Engines -> SUBSET Outcome]
    BY <1>12, <2>1, CountedType DEF CountFailure
  <2>. QED
    BY <1>12, <2>1, <2>2 DEF CountFailure, Counted, Outcome
<1>13. ASSUME NEW e \in Engines, NEW o \in item[e], RecordAttempt(e, o) PROVE
   TypeOK'
  <2>1. By(e, o, Repeats(e, o)) \in Entry
    BY <1>13, EntryType, RepeatsType
  <2>2. run[e] \in {r \in Runs : status[r] # None}
    BY <1>13 DEF RecordAttempt, PhaseOK, PhaseAt
  <2>. QED
    BY <1>13, <2>1, <2>2 DEF RecordAttempt
<1>14. ASSUME NEW e \in Engines, RecordFails(e) PROVE TypeOK'
  BY <1>14 DEF RecordFails
<1>15. ASSUME NEW e \in Engines, ReadCounters(e) PROVE TypeOK'
  BY <1>15 DEF ReadCounters
<1>16. ASSUME NEW e \in Engines, NEW b \in beat[e], Heartbeat(e, b) PROVE
   TypeOK'
  <2>1. ASSUME NEW o \in b PROVE By(e, o, 0) \in Entry
    <3>1. o \in Outcome /\ e \in Runs
      BY RunsFacts
    <3>. QED
      BY <3>1, EntryType
  <2>0. {By(e, o, 0) : o \in b} \subseteq Entry
    BY <2>1
  <2>2. run[e] \in Runs
    BY <1>16 DEF Heartbeat, PhaseOK, PhaseAt
  <2>3. count' \in [Runs -> SUBSET Entry]
    BY <1>16, <2>0, <2>2 DEF Heartbeat, Flush
  <2>4. stale' \in [Runs -> BOOLEAN]
    BY <1>16, <2>2 DEF Heartbeat, Flush
  <2>. QED
    BY <1>16, <2>3, <2>4 DEF Heartbeat
<1>17. ASSUME NEW e \in Engines, HeartbeatFails(e) PROVE TypeOK'
  BY <1>17 DEF HeartbeatFails
<1>18. ASSUME NEW e \in Engines, MonitorSweep(e) PROVE TypeOK'
  <2>1. /\ status' \in [Runs -> {None, "in_progress", "completed", "interrupted"}]
        /\ \A r \in Runs : status[r] # None => status'[r] # None
    BY <1>18 DEF MonitorSweep, Sweep, Sweepable
  <2>. QED
    BY <1>18, <2>1, Kept DEF MonitorSweep, Sweep, Sweepable
<1>19. ASSUME NEW e \in Engines, Unwind(e) PROVE TypeOK'
  BY <1>19 DEF Unwind, Goto, Drained
<1>20. ASSUME NEW e \in Engines, Abort(e) PROVE TypeOK'
  BY <1>20 DEF Abort, Goto
<1>21. ASSUME NEW e \in Engines, Finalise(e) PROVE TypeOK'
  <2>1. {By(e, o, 0) : o \in done[e]} \subseteq Entry
    BY <1>21, EntryType
  <2>2. run[e] \in Runs
    BY <1>21 DEF Finalise, PhaseOK, PhaseAt
  <2>3. count' \in [Runs -> SUBSET Entry]
    BY <1>21, <2>1, <2>2 DEF Finalise, Flush
  <2>4. stale' \in [Runs -> BOOLEAN]
    BY <1>21, <2>2 DEF Finalise, Flush
  <2>5. /\ status' \in [Runs -> {None, "in_progress", "completed", "interrupted"}]
        /\ \A r \in Runs : status[r] # None => status'[r] # None
    BY <1>21, <2>2 DEF Finalise
  <2>. QED
    BY <1>21, <2>3, <2>4, <2>5, Kept DEF Finalise, Goto
<1>22. ASSUME NEW e \in Engines, FinaliseFails(e) PROVE TypeOK'
  BY <1>22 DEF FinaliseFails, Goto
<1>23. ASSUME NEW e \in Engines, Cancel(e) PROVE TypeOK'
  BY <1>23 DEF Cancel
<1>24. ASSUME NEW e \in Engines, Crash(e) PROVE TypeOK'
  BY <1>24 DEF Crash, Goto, Live
<1>25. ASSUME NEW r \in Runs, GoStale(r) PROVE TypeOK'
  BY <1>25 DEF GoStale
<1>26. ASSUME StatusTool PROVE TypeOK'
  <2>1. /\ status' \in [Runs -> {None, "in_progress", "completed", "interrupted"}]
        /\ \A r \in Runs : status[r] # None => status'[r] # None
    BY <1>26 DEF StatusTool, Sweep, Sweepable
  <2>. QED
    BY <1>26, <2>1, Kept DEF StatusTool, Sweep, Sweepable
<1>27. ASSUME StartRun PROVE TypeOK'
  <2>2. /\ status' \in [Runs -> {None, "in_progress", "completed", "interrupted"}]
        /\ \A r \in Runs : status[r] # None => status'[r] # None
        /\ Ext \in {r \in Runs : status'[r] # None}
    BY <1>27 DEF StartRun, NewRow
  <2>3. started \in Seq({r \in Runs : status'[r] # None})
    BY <2>2, Kept
  <2>4. started' \in Seq({r \in Runs : status'[r] # None})
    BY <1>27, <2>2, <2>3 DEF StartRun, NewRow
  <2>5. /\ run' \in [Engines -> {r \in Runs : status'[r] # None} \cup {None}]
        /\ attempts' \subseteq [row : {r \in Runs : status'[r] # None}, what : Entry]
    BY <1>27, <2>2 DEF StartRun, NewRow
  <2>. QED
    BY <1>27, <2>2, <2>4, <2>5 DEF StartRun, NewRow
<1>28. ASSUME NEW o \in plan.ext, WriteEnrichmentJSON(o) PROVE TypeOK'
  <2>1. o.mod \in Modules
    BY PlanExt DEF Outcome
  <2>. QED
    BY <1>28, <2>1 DEF WriteEnrichmentJSON
<1>29. ASSUME NEW o \in plan.ext, RecordExternal(o) PROVE TypeOK'
  <2>1. By(Ext, o, Repeats(Ext, o)) \in Entry
    BY EntryType, PlanExt, RepeatsType
  <2>2. Ext \in {r \in Runs : status[r] # None}
    BY <1>29 DEF RecordExternal
  <2>3. attempts' \subseteq [row : {r \in Runs : status[r] # None}, what : Entry]
    BY <1>29, <2>1, <2>2 DEF RecordExternal
  <2>4. count' \in [Runs -> SUBSET Entry] /\ stale' \in [Runs -> BOOLEAN]
    BY <1>29, <2>1, <2>2 DEF RecordExternal
  <2>. QED
    BY <1>29, <2>3, <2>4 DEF RecordExternal
<1>30. CASE UNCHANGED vars
  BY <1>30 DEF vars, tables, pool, collector
<1>. HIDE DEF TypeInv, TypeOK, tables, pool, collector
<1>. QED
  BY <1>1, <1>2, <1>3, <1>4, <1>5, <1>6, <1>7, <1>8, <1>9, <1>10, <1>11, <1>12,
     <1>13, <1>14, <1>15, <1>16, <1>17, <1>18, <1>19, <1>20, <1>21, <1>22,
     <1>23, <1>24, <1>25, <1>26, <1>27, <1>28, <1>29, <1>30 DEF Next, Step,
     Mishap, Start, Work, Collect, Watch, Finish, Orchestrator

LEMMA PhaseStep == TypeInv /\ [Next]_vars => PhaseOK'
<1>. SUFFICES ASSUME TypeInv, [Next]_vars, NEW q \in Engines PROVE PhaseAt(q)'
  BY DEF PhaseOK
<1>. USE RunsFacts DEF TypeInv, TypeOK, PhaseOK, PhaseAt, tables, pool, collector
<1>1. ASSUME NEW e \in Engines, SelectPending(e) PROVE PhaseAt(q)'
  BY <1>1 DEF SelectPending, Goto
<1>2. ASSUME NEW e \in Engines, NEW r \in Runs, SelectRetry(e, r) PROVE
   PhaseAt(q)'
  BY <1>2 DEF SelectRetry, Goto
<1>3. ASSUME NEW e \in Engines, Resume(e) PROVE PhaseAt(q)'
  BY <1>3 DEF Resume, Begin, Goto, Fresh
<1>4. ASSUME NEW e \in Engines, FindNone(e) PROVE PhaseAt(q)'
  BY <1>4 DEF FindNone, Goto
<1>5. ASSUME NEW e \in Engines, InsertRun(e) PROVE PhaseAt(q)'
  BY <1>5 DEF InsertRun, NewRow, Begin, Goto
<1>6. ASSUME NEW e \in Engines, StartFails(e) PROVE PhaseAt(q)'
  BY <1>6 DEF StartFails, Begin, Goto
<1>7. ASSUME NEW e \in Engines, NEW c \in SUBSET batch[e], Take(e, c) PROVE
   PhaseAt(q)'
  BY <1>7 DEF Take
<1>8. ASSUME NEW e \in Engines, NEW c \in SUBSET batch[e], NEW S \in SUBSET c,
   AnswerBatch(e, c, S) PROVE PhaseAt(q)'
  BY <1>8 DEF AnswerBatch
<1>9. ASSUME NEW e \in Engines, NEW c \in SUBSET batch[e], NEW m \in c, NEW ok
   \in BOOLEAN, AnswerOne(e, c, m, ok) PROVE PhaseAt(q)'
  BY <1>9 DEF AnswerOne
<1>10. ASSUME NEW e \in Engines, NEW c \in hands[e], WorkerPanics(e, c) PROVE
   PhaseAt(q)'
  BY <1>10 DEF WorkerPanics
<1>11. ASSUME NEW e \in Engines, NEW o \in out[e], WriteSummary(e, o) PROVE
   PhaseAt(q)'
  BY <1>11 DEF WriteSummary, Counted
<1>12. ASSUME NEW e \in Engines, NEW o \in out[e], CountFailure(e, o) PROVE
   PhaseAt(q)'
  BY <1>12 DEF CountFailure, Counted
<1>13. ASSUME NEW e \in Engines, NEW o \in item[e], RecordAttempt(e, o) PROVE
   PhaseAt(q)'
  BY <1>13 DEF RecordAttempt
<1>14. ASSUME NEW e \in Engines, RecordFails(e) PROVE PhaseAt(q)'
  BY <1>14 DEF RecordFails
<1>15. ASSUME NEW e \in Engines, ReadCounters(e) PROVE PhaseAt(q)'
  BY <1>15 DEF ReadCounters
<1>16. ASSUME NEW e \in Engines, NEW b \in beat[e], Heartbeat(e, b) PROVE
   PhaseAt(q)'
  BY <1>16 DEF Heartbeat, Flush
<1>17. ASSUME NEW e \in Engines, HeartbeatFails(e) PROVE PhaseAt(q)'
  BY <1>17 DEF HeartbeatFails
<1>18. ASSUME NEW e \in Engines, MonitorSweep(e) PROVE PhaseAt(q)'
  BY <1>18 DEF MonitorSweep, Sweep, Sweepable
<1>19. ASSUME NEW e \in Engines, Unwind(e) PROVE PhaseAt(q)'
  BY <1>19 DEF Unwind, Goto, Drained
<1>20. ASSUME NEW e \in Engines, Abort(e) PROVE PhaseAt(q)'
  BY <1>20 DEF Abort, Goto
<1>21. ASSUME NEW e \in Engines, Finalise(e) PROVE PhaseAt(q)'
  BY <1>21 DEF Finalise, Goto, Flush
<1>22. ASSUME NEW e \in Engines, FinaliseFails(e) PROVE PhaseAt(q)'
  BY <1>22 DEF FinaliseFails, Goto
<1>23. ASSUME NEW e \in Engines, Cancel(e) PROVE PhaseAt(q)'
  BY <1>23 DEF Cancel
<1>24. ASSUME NEW e \in Engines, Crash(e) PROVE PhaseAt(q)'
  BY <1>24 DEF Crash, Goto, Live
<1>25. ASSUME NEW r \in Runs, GoStale(r) PROVE PhaseAt(q)'
  BY <1>25 DEF GoStale
<1>26. ASSUME StatusTool PROVE PhaseAt(q)'
  BY <1>26 DEF StatusTool, Sweep, Sweepable
<1>27. ASSUME StartRun PROVE PhaseAt(q)'
  BY <1>27 DEF StartRun, NewRow
<1>28. ASSUME NEW o \in plan.ext, WriteEnrichmentJSON(o) PROVE PhaseAt(q)'
  BY <1>28 DEF WriteEnrichmentJSON
<1>29. ASSUME NEW o \in plan.ext, RecordExternal(o) PROVE PhaseAt(q)'
  BY <1>29 DEF RecordExternal
<1>30. CASE UNCHANGED vars
  BY <1>30 DEF vars, tables, pool, collector
<1>. HIDE DEF TypeInv, TypeOK, PhaseOK, PhaseAt, tables, pool, collector
<1>. QED
  BY <1>1, <1>2, <1>3, <1>4, <1>5, <1>6, <1>7, <1>8, <1>9, <1>10, <1>11, <1>12,
     <1>13, <1>14, <1>15, <1>16, <1>17, <1>18, <1>19, <1>20, <1>21, <1>22,
     <1>23, <1>24, <1>25, <1>26, <1>27, <1>28, <1>29, <1>30 DEF Next, Step,
     Mishap, Start, Work, Collect, Watch, Finish, Orchestrator

(***************************************************************************)
(* What a step does to the pool and the results of one engine.             *)
(***************************************************************************)
Still(e) ==
    /\ pc'[e] = pc[e] /\ batch'[e] = batch[e] /\ (e \in panicked' <=> e \in panicked)
    /\ jobs'[e] = jobs[e] /\ crew'[e] = crew[e] /\ hands'[e] = hands[e]
    /\ out'[e] = out[e] /\ done'[e] = done[e]

Nothing(e) ==
    /\ jobs'[e] = {} /\ hands'[e] = {} /\ crew'[e] = Concurrent
    /\ out'[e] = {} /\ done'[e] = {} /\ e \notin panicked'
    /\ pc'[e] \in {"resume", "insert"}

Filled(e) ==
    /\ jobs'[e] = Chunks(e) /\ hands'[e] = {} /\ crew'[e] = Concurrent
    /\ out'[e] = {} /\ done'[e] = {} /\ e \notin panicked' /\ batch'[e] = batch[e]
    /\ pc'[e] = "work"

Left(e) ==
    /\ pc'[e] \in {"ended", "failed", "abort"} /\ batch'[e] = batch[e]
    /\ jobs'[e] = jobs[e] /\ crew'[e] = crew[e] /\ hands'[e] = hands[e]
    /\ out'[e] = out[e] /\ done'[e] = done[e]

Closed(e) ==
    /\ pc[e] = "work" /\ pc'[e] = "finalise" /\ e \notin panicked /\ Drained(e)
    /\ batch'[e] = batch[e] /\ (e \in panicked' <=> e \in panicked)
    /\ jobs'[e] = jobs[e] /\ crew'[e] = crew[e] /\ hands'[e] = hands[e]
    /\ out'[e] = out[e] /\ done'[e] = done[e]

Lost(e) ==
    /\ pc'[e] = "dead" /\ batch'[e] = batch[e] /\ crew'[e] = crew[e]
    /\ jobs'[e] = {} /\ hands'[e] = {} /\ out'[e] = {} /\ done'[e] = done[e]

Counts(e) ==
    \E o \in out[e], r \in Outcome :
        /\ pc[e] = "work" /\ r.mod = o.mod /\ Counted(e, o, r)

PoolMove(e) ==
    \/ Still(e) \/ Nothing(e) \/ Filled(e)
    \/ \E c \in SUBSET batch[e] :
          \/ Take(e, c)
          \/ \E S \in SUBSET c : AnswerBatch(e, c, S)
          \/ \E m \in c, ok \in BOOLEAN : AnswerOne(e, c, m, ok)
    \/ \E c \in hands[e] : WorkerPanics(e, c)
    \/ Counts(e) \/ Closed(e) \/ Left(e) \/ Lost(e)

LEMMA PoolMoves ==
    ASSUME TypeInv, [Next]_vars, NEW q \in Engines
    PROVE  PoolMove(q)
<1>. USE RunsFacts DEF TypeInv, TypeOK, PhaseOK, PhaseAt, tables, pool, collector, PoolMove
<1>1. ASSUME NEW e \in Engines, SelectPending(e) PROVE PoolMove(q)
  BY <1>1 DEF SelectPending, Goto, Still, Nothing
<1>2. ASSUME NEW e \in Engines, NEW r \in Runs, SelectRetry(e, r) PROVE
   PoolMove(q)
  BY <1>2 DEF SelectRetry, Goto, Still, Nothing
<1>3. ASSUME NEW e \in Engines, Resume(e) PROVE PoolMove(q)
  BY <1>3 DEF Resume, Begin, Goto, Fresh, Still, Filled
<1>4. ASSUME NEW e \in Engines, FindNone(e) PROVE PoolMove(q)
  BY <1>4 DEF FindNone, Goto, Still, Nothing
<1>5. ASSUME NEW e \in Engines, InsertRun(e) PROVE PoolMove(q)
  BY <1>5 DEF InsertRun, NewRow, Begin, Goto, Still, Filled
<1>6. ASSUME NEW e \in Engines, StartFails(e) PROVE PoolMove(q)
  BY <1>6 DEF StartFails, Begin, Goto, Still, Filled
<1>7. ASSUME NEW e \in Engines, NEW c \in SUBSET batch[e], Take(e, c) PROVE
   PoolMove(q)
  <2>1. CASE e = q
    BY <1>7, <2>1
  <2>2. CASE e # q
    <3>1. Still(q)
      BY <1>7, <2>2 DEF Take, Still
    <3>. QED
      BY <3>1
  <2>. QED
    BY <2>1, <2>2
<1>8. ASSUME NEW e \in Engines, NEW c \in SUBSET batch[e], NEW S \in SUBSET c,
   AnswerBatch(e, c, S) PROVE PoolMove(q)
  <2>1. CASE e = q
    BY <1>8, <2>1
  <2>2. CASE e # q
    <3>1. Still(q)
      BY <1>8, <2>2 DEF AnswerBatch, Still
    <3>. QED
      BY <3>1
  <2>. QED
    BY <2>1, <2>2
<1>9. ASSUME NEW e \in Engines, NEW c \in SUBSET batch[e], NEW m \in c, NEW ok
   \in BOOLEAN, AnswerOne(e, c, m, ok) PROVE PoolMove(q)
  <2>1. CASE e = q
    <3>1. \E x \in c, y \in BOOLEAN : AnswerOne(q, c, x, y)
      BY <1>9, <2>1
    <3>. QED
      BY <2>1, <3>1
  <2>2. CASE e # q
    <3>1. Still(q)
      BY <1>9, <2>2 DEF AnswerOne, Still
    <3>. QED
      BY <3>1
  <2>. QED
    BY <2>1, <2>2
<1>10. ASSUME NEW e \in Engines, NEW c \in hands[e], WorkerPanics(e, c) PROVE
   PoolMove(q)
  <2>1. CASE e = q
    BY <1>10, <2>1
  <2>2. CASE e # q
    <3>1. Still(q)
      BY <1>10, <2>2 DEF WorkerPanics, Still
    <3>. QED
      BY <3>1
  <2>. QED
    BY <2>1, <2>2
<1>11. ASSUME NEW e \in Engines, NEW o \in out[e], WriteSummary(e, o) PROVE
   PoolMove(q)
  <2>1. CASE e = q
    <3>1. o \in Outcome
      BY <1>11 DEF Outcome
    <3>2. Counts(q)
      BY <1>11, <2>1, <3>1 DEF WriteSummary, Counts, Outcome
    <3>. QED
      BY <3>2
  <2>2. CASE e # q
    <3>1. Still(q)
      BY <1>11, <2>2 DEF WriteSummary, Counted, Still
    <3>. QED
      BY <3>1
  <2>. QED
    BY <2>1, <2>2
<1>12. ASSUME NEW e \in Engines, NEW o \in out[e], CountFailure(e, o) PROVE
   PoolMove(q)
  <2>1. CASE e = q
    <3>1. [mod |-> o.mod, ok |-> FALSE] \in Outcome
      BY <1>12 DEF Outcome
    <3>2. Counts(q)
      BY <1>12, <2>1, <3>1 DEF CountFailure, Counts, Outcome
    <3>. QED
      BY <3>2
  <2>2. CASE e # q
    <3>1. Still(q)
      BY <1>12, <2>2 DEF CountFailure, Counted, Still
    <3>. QED
      BY <3>1
  <2>. QED
    BY <2>1, <2>2
<1>13. ASSUME NEW e \in Engines, NEW o \in item[e], RecordAttempt(e, o) PROVE
   PoolMove(q)
  <2>1. Still(q)
    BY <1>13 DEF RecordAttempt, Still
  <2>. QED
    BY <2>1
<1>14. ASSUME NEW e \in Engines, RecordFails(e) PROVE PoolMove(q)
  <2>1. Still(q)
    BY <1>14 DEF RecordFails, Still
  <2>. QED
    BY <2>1
<1>15. ASSUME NEW e \in Engines, ReadCounters(e) PROVE PoolMove(q)
  <2>1. Still(q)
    BY <1>15 DEF ReadCounters, Still
  <2>. QED
    BY <2>1
<1>16. ASSUME NEW e \in Engines, NEW b \in beat[e], Heartbeat(e, b) PROVE
   PoolMove(q)
  <2>1. Still(q)
    BY <1>16 DEF Heartbeat, Flush, Still
  <2>. QED
    BY <2>1
<1>17. ASSUME NEW e \in Engines, HeartbeatFails(e) PROVE PoolMove(q)
  <2>1. Still(q)
    BY <1>17 DEF HeartbeatFails, Still
  <2>. QED
    BY <2>1
<1>18. ASSUME NEW e \in Engines, MonitorSweep(e) PROVE PoolMove(q)
  <2>1. Still(q)
    BY <1>18 DEF MonitorSweep, Sweep, Sweepable, Still
  <2>. QED
    BY <2>1
<1>19. ASSUME NEW e \in Engines, Unwind(e) PROVE PoolMove(q)
  BY <1>19 DEF Unwind, Goto, Still, Left, Closed
<1>20. ASSUME NEW e \in Engines, Abort(e) PROVE PoolMove(q)
  BY <1>20 DEF Abort, Goto, Still, Left
<1>21. ASSUME NEW e \in Engines, Finalise(e) PROVE PoolMove(q)
  BY <1>21 DEF Finalise, Goto, Flush, Still, Left
<1>22. ASSUME NEW e \in Engines, FinaliseFails(e) PROVE PoolMove(q)
  BY <1>22 DEF FinaliseFails, Goto, Still, Left
<1>23. ASSUME NEW e \in Engines, Cancel(e) PROVE PoolMove(q)
  <2>1. Still(q)
    BY <1>23 DEF Cancel, Still
  <2>. QED
    BY <2>1
<1>24. ASSUME NEW e \in Engines, Crash(e) PROVE PoolMove(q)
  BY <1>24 DEF Crash, Goto, Live, Still, Lost
<1>25. ASSUME NEW r \in Runs, GoStale(r) PROVE PoolMove(q)
  <2>1. Still(q)
    BY <1>25 DEF GoStale, Still
  <2>. QED
    BY <2>1
<1>26. ASSUME StatusTool PROVE PoolMove(q)
  <2>1. Still(q)
    BY <1>26 DEF StatusTool, Sweep, Sweepable, Still
  <2>. QED
    BY <2>1
<1>27. ASSUME StartRun PROVE PoolMove(q)
  <2>1. Still(q)
    BY <1>27 DEF StartRun, NewRow, Still
  <2>. QED
    BY <2>1
<1>28. ASSUME NEW o \in plan.ext, WriteEnrichmentJSON(o) PROVE PoolMove(q)
  <2>1. Still(q)
    BY <1>28 DEF WriteEnrichmentJSON, Still
  <2>. QED
    BY <2>1
<1>29. ASSUME NEW o \in plan.ext, RecordExternal(o) PROVE PoolMove(q)
  <2>1. Still(q)
    BY <1>29 DEF RecordExternal, Still
  <2>. QED
    BY <2>1
<1>30. CASE UNCHANGED vars
  BY <1>30 DEF vars, Still
<1>. HIDE DEF TypeInv, TypeOK, PhaseOK, PhaseAt, tables, pool, collector,
   PoolMove
<1>. QED
  BY <1>1, <1>2, <1>3, <1>4, <1>5, <1>6, <1>7, <1>8, <1>9, <1>10, <1>11, <1>12,
     <1>13, <1>14, <1>15, <1>16, <1>17, <1>18, <1>19, <1>20, <1>21, <1>22,
     <1>23, <1>24, <1>25, <1>26, <1>27, <1>28, <1>29, <1>30 DEF Next, Step,
     Mishap, Start, Work, Collect, Watch, Finish, Orchestrator

(***************************************************************************)
(* The pool.                                                               *)
(***************************************************************************)
LEMMA ChunksCover ==
    ASSUME NEW e
    PROVE  /\ \A c \in Chunks(e) : c # {} /\ c \subseteq batch[e]
           /\ \A c, d \in Chunks(e) : c = d \/ c \cap d = {}
           /\ \A m \in batch[e] : \E c \in Chunks(e) : m \in c
<1>. DEFINE K(m) == Rank(m, batch[e]) \div BatchSize(e)
            C(m) == {x \in batch[e] : K(x) = K(m)}
<1>1. \A m : Chunk(m, batch[e], BatchSize(e)) = C(m)
  BY DEF Chunk
<1>. HIDE DEF K
<1>. QED
  BY <1>1 DEF Chunks

LEMMA OneMore ==
    ASSUME NEW H, IsFiniteSet(H), NEW c
    PROVE  /\ IsFiniteSet(H \cup {c}) /\ Cardinality(H \cup {c}) \in Nat
           /\ Cardinality(H \cup {c}) <= Cardinality(H) + 1
           /\ c \notin H => Cardinality(H \cup {c}) = Cardinality(H) + 1
<1>1. /\ IsFiniteSet(H \cup {c})
      /\ Cardinality(H \cup {c}) = IF c \in H THEN Cardinality(H) ELSE Cardinality(H) + 1
  BY FS_AddElement
<1>2. Cardinality(H) \in Nat
  BY FS_CardinalityType
<1>. QED
  BY <1>1, <1>2

(* Crew sizes.                                                             *)
LEMMA CrewStep ==
    ASSUME TypeInv, [Next]_vars
    PROVE  CrewOK'
<1>. SUFFICES ASSUME NEW q \in Engines PROVE CrewAt(q)'
  BY DEF CrewOK
<1>. DEFINE H == hands[q]
            n == Cardinality(H)
<1>0. /\ IsFiniteSet(H) /\ n \in Nat /\ crew[q] \in Nat /\ crew[q] + n <= Concurrent
      /\ jobs \in [Engines -> SUBSET SUBSET Modules] /\ hands \in [Engines -> SUBSET SUBSET Modules]
      /\ crew \in [Engines -> 0..Concurrent]
      /\ Concurrent \in Nat
  BY FS_CardinalityType, EnrichAssumption DEF TypeInv, CrewOK, CrewAt, TypeOK, EnrichAssumption
<1>1. CASE Still(q) \/ Left(q) \/ Closed(q)
  BY <1>0, <1>1 DEF Still, Left, Closed, CrewAt
<1>2. CASE Nothing(q) \/ Filled(q) \/ Lost(q)
  <2>1. IsFiniteSet({}) /\ Cardinality({}) = 0
    BY FS_EmptySet
  <2>2. hands'[q] = {} /\ crew'[q] \in 0..Concurrent
    BY <1>0, <1>2 DEF Nothing, Filled, Lost
  <2>. QED
    BY <1>0, <2>1, <2>2 DEF CrewAt
<1>3. ASSUME NEW c \in SUBSET batch[q], Take(q, c) PROVE CrewAt(q)'
  <2>1. crew'[q] = crew[q] - 1 /\ hands'[q] = H \cup {c}
    BY <1>0, <1>3 DEF Take
  <2>2. IsFiniteSet(H \cup {c}) /\ Cardinality(H \cup {c}) <= n + 1
        /\ Cardinality(H \cup {c}) \in Nat
    BY <1>0, OneMore
  <2>. HIDE DEF n, H
  <2>. QED
    BY <1>0, <2>1, <2>2 DEF CrewAt
<1>4. ASSUME NEW c \in SUBSET batch[q], NEW S \in SUBSET c, AnswerBatch(q, c, S)
      PROVE CrewAt(q)'
  <2>1. crew'[q] = crew[q] + 1 /\ hands'[q] = H \ {c} /\ c \in H
    BY <1>0, <1>4 DEF AnswerBatch
  <2>2. IsFiniteSet(H \ {c}) /\ Cardinality(H \ {c}) = n - 1
    BY <1>0, <2>1, CrewArith
  <2>. HIDE DEF n, H
  <2>. QED
    BY <1>0, <2>1, <2>2 DEF CrewAt
<1>5. ASSUME NEW c \in SUBSET batch[q], NEW m \in c, NEW ok \in BOOLEAN, AnswerOne(q, c, m, ok)
      PROVE CrewAt(q)'
  <2>. DEFINE G == H \ {c}
              d == c \ {m}
  <2>1. c \in H /\ hands'[q] = G \cup ({d} \ {{}})
    BY <1>0, <1>5 DEF AnswerOne
  <2>2. IsFiniteSet(G) /\ Cardinality(G) = n - 1
    BY <1>0, <2>1, CrewArith
  <2>3. CASE c = {m}
    <3>1. crew'[q] = crew[q] + 1 /\ hands'[q] = G
      BY <1>0, <1>5, <2>1, <2>3 DEF AnswerOne
    <3>. HIDE DEF n, H, G
    <3>. QED
      BY <1>0, <3>1, <2>2 DEF CrewAt
  <2>4. CASE c # {m}
    <3>1. crew'[q] = crew[q] /\ hands'[q] = G \cup {d}
      BY <1>0, <1>5, <2>1, <2>4 DEF AnswerOne
    <3>2. /\ IsFiniteSet(G \cup {d}) /\ Cardinality(G \cup {d}) \in Nat
          /\ Cardinality(G \cup {d}) <= Cardinality(G) + 1
      BY <2>2, OneMore
    <3>. HIDE DEF n, H, G, d
    <3>. QED
      BY <1>0, <3>1, <3>2, <2>2 DEF CrewAt
  <2>. QED
    BY <2>3, <2>4
<1>6. ASSUME NEW c \in hands[q], WorkerPanics(q, c) PROVE CrewAt(q)'
  <2>1. crew'[q] = crew[q] /\ hands'[q] = H \ {c}
    BY <1>0, <1>6 DEF WorkerPanics
  <2>2. IsFiniteSet(H \ {c}) /\ Cardinality(H \ {c}) = n - 1
    BY <1>0, <1>6, CrewArith
  <2>. HIDE DEF n, H
  <2>. QED
    BY <1>0, <2>1, <2>2 DEF CrewAt
<1>7. CASE Counts(q)
  BY <1>0, <1>7 DEF Counts, Counted, CrewAt, pool
<1>. HIDE DEF H, n
<1>. QED
  BY <1>1, <1>2, <1>3, <1>4, <1>5, <1>6, <1>7, PoolMoves DEF PoolMove

(* What a step does to the attempts.                                       *)
AttemptMove ==
    \/ attempts' = attempts
    \/ \E e \in Engines : \E o \in item[e] : RecordAttempt(e, o)
    \/ \E o \in Outcome :
          attempts' = attempts \cup {[row |-> Ext, what |-> By(Ext, o, Repeats(Ext, o))]}

LEMMA AttemptMoves == TypeInv /\ [Next]_vars => AttemptMove
<1>. SUFFICES ASSUME TypeInv, [Next]_vars PROVE AttemptMove
  OBVIOUS
<1>. USE DEF tables, pool, collector, AttemptMove
<1>1. ASSUME NEW e \in Engines, SelectPending(e) PROVE AttemptMove
  BY <1>1 DEF SelectPending, Goto
<1>2. ASSUME NEW e \in Engines, NEW r \in Runs, SelectRetry(e, r) PROVE
   AttemptMove
  BY <1>2 DEF SelectRetry, Goto
<1>3. ASSUME NEW e \in Engines, Resume(e) PROVE AttemptMove
  BY <1>3 DEF Resume, Begin, Goto, Fresh
<1>4. ASSUME NEW e \in Engines, FindNone(e) PROVE AttemptMove
  BY <1>4 DEF FindNone, Goto
<1>5. ASSUME NEW e \in Engines, InsertRun(e) PROVE AttemptMove
  BY <1>5 DEF InsertRun, NewRow, Begin, Goto
<1>6. ASSUME NEW e \in Engines, StartFails(e) PROVE AttemptMove
  BY <1>6 DEF StartFails, Begin, Goto
<1>7. ASSUME NEW e \in Engines, NEW c \in SUBSET batch[e], Take(e, c) PROVE
   AttemptMove
  BY <1>7 DEF Take
<1>8. ASSUME NEW e \in Engines, NEW c \in SUBSET batch[e], NEW S \in SUBSET c,
   AnswerBatch(e, c, S) PROVE AttemptMove
  BY <1>8 DEF AnswerBatch
<1>9. ASSUME NEW e \in Engines, NEW c \in SUBSET batch[e], NEW m \in c, NEW ok
   \in BOOLEAN, AnswerOne(e, c, m, ok) PROVE AttemptMove
  BY <1>9 DEF AnswerOne
<1>10. ASSUME NEW e \in Engines, NEW c \in hands[e], WorkerPanics(e, c) PROVE
   AttemptMove
  BY <1>10 DEF WorkerPanics
<1>11. ASSUME NEW e \in Engines, NEW o \in out[e], WriteSummary(e, o) PROVE
   AttemptMove
  BY <1>11 DEF WriteSummary, Counted
<1>12. ASSUME NEW e \in Engines, NEW o \in out[e], CountFailure(e, o) PROVE
   AttemptMove
  BY <1>12 DEF CountFailure, Counted
<1>13. ASSUME NEW e \in Engines, NEW o \in item[e], RecordAttempt(e, o) PROVE
   AttemptMove
  BY <1>13 DEF RecordAttempt
<1>14. ASSUME NEW e \in Engines, RecordFails(e) PROVE AttemptMove
  BY <1>14 DEF RecordFails
<1>15. ASSUME NEW e \in Engines, ReadCounters(e) PROVE AttemptMove
  BY <1>15 DEF ReadCounters
<1>16. ASSUME NEW e \in Engines, NEW b \in beat[e], Heartbeat(e, b) PROVE
   AttemptMove
  BY <1>16 DEF Heartbeat, Flush
<1>17. ASSUME NEW e \in Engines, HeartbeatFails(e) PROVE AttemptMove
  BY <1>17 DEF HeartbeatFails
<1>18. ASSUME NEW e \in Engines, MonitorSweep(e) PROVE AttemptMove
  BY <1>18 DEF MonitorSweep, Sweep, Sweepable
<1>19. ASSUME NEW e \in Engines, Unwind(e) PROVE AttemptMove
  BY <1>19 DEF Unwind, Goto, Drained
<1>20. ASSUME NEW e \in Engines, Abort(e) PROVE AttemptMove
  BY <1>20 DEF Abort, Goto
<1>21. ASSUME NEW e \in Engines, Finalise(e) PROVE AttemptMove
  BY <1>21 DEF Finalise, Goto, Flush
<1>22. ASSUME NEW e \in Engines, FinaliseFails(e) PROVE AttemptMove
  BY <1>22 DEF FinaliseFails, Goto
<1>23. ASSUME NEW e \in Engines, Cancel(e) PROVE AttemptMove
  BY <1>23 DEF Cancel
<1>24. ASSUME NEW e \in Engines, Crash(e) PROVE AttemptMove
  BY <1>24 DEF Crash, Goto, Live
<1>25. ASSUME NEW r \in Runs, GoStale(r) PROVE AttemptMove
  BY <1>25 DEF GoStale
<1>26. ASSUME StatusTool PROVE AttemptMove
  BY <1>26 DEF StatusTool, Sweep, Sweepable
<1>27. ASSUME StartRun PROVE AttemptMove
  BY <1>27 DEF StartRun, NewRow
<1>28. ASSUME NEW o \in plan.ext, WriteEnrichmentJSON(o) PROVE AttemptMove
  BY <1>28 DEF WriteEnrichmentJSON
<1>29. ASSUME NEW o \in plan.ext, RecordExternal(o) PROVE AttemptMove
  <2>1. o \in Outcome
    BY PlanExt DEF TypeInv
  <2>. QED
    BY <1>29, <2>1 DEF RecordExternal
<1>30. CASE UNCHANGED vars
  BY <1>30 DEF vars, tables, pool, collector
<1>. HIDE DEF tables, pool, collector, AttemptMove
<1>. QED
  BY <1>1, <1>2, <1>3, <1>4, <1>5, <1>6, <1>7, <1>8, <1>9, <1>10, <1>11, <1>12,
     <1>13, <1>14, <1>15, <1>16, <1>17, <1>18, <1>19, <1>20, <1>21, <1>22,
     <1>23, <1>24, <1>25, <1>26, <1>27, <1>28, <1>29, <1>30 DEF Next, Step,
     Mishap, Start, Work, Collect, Watch, Finish, Orchestrator

LEMMA FiniteStep == TypeInv /\ [Next]_vars => IsFiniteSet(attempts)'
<1>. SUFFICES ASSUME TypeInv, [Next]_vars PROVE IsFiniteSet(attempts')
  OBVIOUS
<1>1. attempts' = attempts \/ \E x : attempts' = attempts \cup {x}
  BY AttemptMoves DEF AttemptMove, RecordAttempt
<1>. QED
  BY <1>1, FS_AddElement DEF TypeInv

(* Type correctness: the counters, rows, attempts and channels of every    *)
(* engine hold what their types say, and a row is named only once it has   *)
(* been inserted (EnrichCore and RunMonitor).                              *)
THEOREM RunTypeCorrect == Spec => []TypeOK
<1>1. Init => TypeInv
  BY InitType
<1>2. TypeInv /\ [Next]_vars => TypeInv'
  BY TypeStep, PhaseStep, CrewStep, FiniteStep DEF TypeInv
<1>3. TypeInv => TypeOK
  BY DEF TypeInv
<1>. QED
  BY <1>1, <1>2, <1>3, PTL DEF Spec

(***************************************************************************)
(* Modules are neither lost nor repeated: chunks in the job channel or     *)
(* with a worker are disjoint and untold, a module is told of once, and    *)
(* until a worker panics each selected module is in a chunk or told of.    *)
(***************************************************************************)
Queued(e) == jobs[e] \cup hands[e]
Told(e) == out[e] \cup done[e]

PoolAt(e) ==
    /\ \A c \in Queued(e) : c # {} /\ c \subseteq batch[e]
    /\ jobs[e] \cap hands[e] = {}
    /\ \A c, d \in Queued(e) : c = d \/ c \cap d = {}
    /\ \A c \in Queued(e), o \in Told(e) : o.mod \notin c
    /\ \A o, p \in Told(e) : o.mod = p.mod => o = p
    /\ out[e] \cap done[e] = {}
    /\ \A o \in Told(e) : o.mod \in batch[e]

CoverAt(e) ==
    pc[e] \in {"work", "finalise"} /\ e \notin panicked =>
        /\ \A m \in batch[e] :
              (\E c \in Queued(e) : m \in c) \/ (\E o \in Told(e) : o.mod = m)
        /\ crew[e] + Cardinality(hands[e]) = Concurrent

CloseAt(e) ==
    pc[e] = "finalise" =>
        e \notin panicked /\ Queued(e) = {} /\ out[e] = {}

RunInv ==
    /\ TypeInv
    /\ \A e \in Engines : PoolAt(e) /\ CoverAt(e) /\ CloseAt(e)

LEMMA InitRun == Init => RunInv
<1>. SUFFICES ASSUME Init PROVE RunInv
  OBVIOUS
<1>1. \A e \in Engines : PoolAt(e) /\ CoverAt(e) /\ CloseAt(e)
  BY DEF Init, PoolAt, CoverAt, CloseAt, Queued, Told
<1>. QED
  BY <1>1, InitType DEF RunInv

(* The variables of an engine, as functions.                               *)
LEMMA Shapes ==
    ASSUME TypeInv, NEW q \in Engines
    PROVE  /\ jobs \in [Engines -> SUBSET SUBSET Modules]
           /\ hands \in [Engines -> SUBSET SUBSET Modules]
           /\ crew \in [Engines -> 0..Concurrent] /\ crew[q] \in Nat
           /\ out \in [Engines -> SUBSET Outcome] /\ done \in [Engines -> SUBSET Outcome]
           /\ item \in [Engines -> SUBSET Outcome]
           /\ batch[q] \subseteq Modules
           /\ Concurrent \in Nat /\ Concurrent > 0
           /\ IsFiniteSet(hands[q]) /\ Cardinality(hands[q]) \in Nat
<1>1. /\ Concurrent \in Nat /\ Concurrent > 0
  BY EnrichAssumption DEF EnrichAssumption
<1>2. IsFiniteSet(hands[q]) /\ Cardinality(hands[q]) \in Nat
  BY FS_CardinalityType DEF TypeInv, CrewOK, CrewAt
<1>. QED
  BY <1>1, <1>2 DEF TypeInv, TypeOK

LEMMA AnswersOf ==
    ASSUME NEW c
    PROVE  LET N == {[mod |-> m, ok |-> TRUE] : m \in c}
           IN  /\ \A o \in N : o.mod \in c
               /\ \A o, p \in N : o.mod = p.mod => o = p
               /\ \A m \in c : \E o \in N : o.mod = m
<1>. DEFINE A(m) == [mod |-> m, ok |-> TRUE]
<1>1. \A m : A(m).mod = m
  OBVIOUS
<1>. HIDE DEF A
<1>2. LET N == {A(m) : m \in c}
      IN  /\ \A o \in N : o.mod \in c
          /\ \A o, p \in N : o.mod = p.mod => o = p
          /\ \A m \in c : \E o \in N : o.mod = m
  BY <1>1
<1>. QED
  BY <1>2 DEF A

LEMMA PoolStep ==
    ASSUME RunInv, [Next]_vars, NEW q \in Engines
    PROVE  PoolAt(q)'
<1>. USE Shapes DEF RunInv, Queued, Told
<1>0. PoolAt(q)
  OBVIOUS
<1>1. CASE Still(q) \/ Left(q) \/ Closed(q)
  BY <1>0, <1>1 DEF Still, Left, Closed, PoolAt
<1>2. CASE Nothing(q)
  BY <1>2 DEF Nothing, PoolAt
<1>3. CASE Filled(q)
  BY <1>3, ChunksCover DEF Filled, PoolAt
<1>4. CASE Lost(q)
  BY <1>0, <1>4 DEF Lost, PoolAt
<1>5. ASSUME NEW c \in SUBSET batch[q], Take(q, c) PROVE PoolAt(q)'
  <2>1. /\ jobs'[q] = jobs[q] \ {c} /\ hands'[q] = hands[q] \cup {c} /\ c \in jobs[q]
        /\ out'[q] = out[q] /\ done'[q] = done[q] /\ batch'[q] = batch[q]
    BY <1>5 DEF Take, collector
  <2>. QED
    BY <1>0, <2>1 DEF PoolAt
<1>6. ASSUME NEW c \in SUBSET batch[q], NEW S \in SUBSET c, AnswerBatch(q, c, S)
      PROVE PoolAt(q)'
  <2>. DEFINE N == {[mod |-> m, ok |-> TRUE] : m \in c}
  <2>1. /\ jobs'[q] = jobs[q] /\ hands'[q] = hands[q] \ {c} /\ c \in hands[q]
        /\ out'[q] = out[q] \cup N /\ done'[q] = done[q] /\ batch'[q] = batch[q]
    BY <1>6 DEF AnswerBatch
  <2>2. /\ \A o \in N : o.mod \in c
        /\ \A o, p \in N : o.mod = p.mod => o = p
        /\ \A m \in c : \E o \in N : o.mod = m
    BY AnswersOf
  <2>. HIDE DEF N
  <2>3. c \notin jobs[q]
    BY <1>0, <2>1 DEF PoolAt
  <2>4. \A d \in jobs'[q] \cup hands'[q] : d \in Queued(q) /\ d \cap c = {}
    BY <1>0, <2>1, <2>3 DEF PoolAt
  <2>. QED
    BY <1>0, <2>1, <2>2, <2>4 DEF PoolAt
<1>7. ASSUME NEW c \in SUBSET batch[q], NEW m \in c, NEW ok \in BOOLEAN, AnswerOne(q, c, m, ok)
      PROVE PoolAt(q)'
  <2>. DEFINE n == [mod |-> m, ok |-> ok]
              d == c \ {m}
  <2>1. /\ jobs'[q] = jobs[q] /\ hands'[q] = (hands[q] \ {c}) \cup ({d} \ {{}}) /\ c \in hands[q]
        /\ out'[q] = out[q] \cup {n} /\ done'[q] = done[q] /\ batch'[q] = batch[q]
    BY <1>7 DEF AnswerOne
  <2>2. n.mod = m /\ d \subseteq c /\ m \notin d
    OBVIOUS
  <2>. HIDE DEF n, d
  <2>3. c \notin jobs[q]
    BY <1>0, <2>1 DEF PoolAt
  <2>4. \A x \in Queued(q) : x # c => x \cap c = {} /\ x # {}
    BY <1>0, <2>1 DEF PoolAt
  <2>5. \A x \in jobs'[q] \cup hands'[q] :
           x # {} /\ m \notin x /\ (x = d \/ (x \in Queued(q) /\ x # c))
    BY <2>1, <2>2, <2>3, <2>4
  <2>6. \A o \in Told(q) : o.mod \notin c
    BY <1>0, <2>1 DEF PoolAt
  <2>7. jobs'[q] \cap hands'[q] = {}
    BY <1>0, <2>1, <2>2, <2>3, <2>4 DEF PoolAt
  <2>8. \A x, y \in jobs'[q] \cup hands'[q] : x = y \/ x \cap y = {}
    BY <1>0, <2>2, <2>4, <2>5 DEF PoolAt
  <2>9. \A o, p \in out'[q] \cup done'[q] : o.mod = p.mod => o = p
    BY <1>0, <2>1, <2>2, <2>6 DEF PoolAt
  <2>10. out'[q] \cap done'[q] = {}
    BY <1>0, <2>1, <2>2, <2>6 DEF PoolAt
  <2>11. \A x \in jobs'[q] \cup hands'[q], o \in out'[q] \cup done'[q] : o.mod \notin x
    BY <1>0, <2>1, <2>2, <2>5, <2>6 DEF PoolAt
  <2>12. \A x \in jobs'[q] \cup hands'[q] : x \subseteq batch[q]
    BY <1>0, <2>2, <2>5 DEF PoolAt
  <2>13. \A o \in out'[q] \cup done'[q] : o.mod \in batch[q]
    BY <1>0, <2>1, <2>2 DEF PoolAt
  <2>. QED
    BY <2>1, <2>5, <2>7, <2>8, <2>9, <2>10, <2>11, <2>12, <2>13 DEF PoolAt
<1>8. ASSUME NEW c \in hands[q], WorkerPanics(q, c) PROVE PoolAt(q)'
  <2>1. /\ jobs'[q] = jobs[q] /\ hands'[q] = hands[q] \ {c}
        /\ out'[q] = out[q] /\ done'[q] = done[q] /\ batch'[q] = batch[q]
    BY <1>8 DEF WorkerPanics, collector
  <2>. QED
    BY <1>0, <2>1 DEF PoolAt
<1>9. CASE Counts(q)
  <2>1. PICK o \in out[q], r \in Outcome : r.mod = o.mod /\ Counted(q, o, r)
    BY <1>9 DEF Counts
  <2>2. /\ jobs'[q] = jobs[q] /\ hands'[q] = hands[q] /\ batch'[q] = batch[q]
        /\ out'[q] = out[q] \ {o} /\ done'[q] = done[q] \cup {r}
    BY <2>1 DEF Counted, pool
  <2>3. \A p \in Told(q) : p.mod = r.mod => p = o
    BY <1>0, <2>1 DEF PoolAt
  <2>. QED
    BY <1>0, <2>1, <2>2, <2>3 DEF PoolAt
<1>. HIDE DEF RunInv, Queued, Told
<1>. QED
  BY <1>1, <1>2, <1>3, <1>4, <1>5, <1>6, <1>7, <1>8, <1>9, PoolMoves DEF PoolMove, RunInv

LEMMA CloseStep ==
    ASSUME RunInv, [Next]_vars, NEW q \in Engines
    PROVE  CloseAt(q)'
<1>. USE Shapes DEF RunInv, Queued
<1>0. PoolAt(q) /\ CoverAt(q) /\ CloseAt(q)
  OBVIOUS
<1>1. CASE Still(q)
  BY <1>0, <1>1 DEF Still, CloseAt
<1>2. CASE Nothing(q) \/ Filled(q) \/ Lost(q) \/ Left(q)
  BY <1>2 DEF Nothing, Filled, Lost, Left, CloseAt
<1>3. CASE Closed(q)
  <2>1. hands[q] = {} /\ out[q] = {} /\ (jobs[q] = {} \/ crew[q] = 0)
    BY <1>3 DEF Closed, Drained
  <2>2. crew[q] + Cardinality(hands[q]) = Concurrent
    BY <1>0, <1>3 DEF Closed, CoverAt
  <2>3. Cardinality({}) = 0
    BY FS_EmptySet
  <2>4. jobs[q] = {}
    BY <2>1, <2>2, <2>3
  <2>. QED
    BY <1>3, <2>1, <2>4 DEF Closed, CloseAt
<1>4. ASSUME pc'[q] # "finalise" PROVE CloseAt(q)'
  BY <1>4 DEF CloseAt
<1>5. ASSUME NEW c \in SUBSET batch[q], Take(q, c) PROVE CloseAt(q)'
  BY <1>4, <1>5 DEF Take
<1>6. ASSUME NEW c \in SUBSET batch[q], NEW S \in SUBSET c, AnswerBatch(q, c, S)
      PROVE CloseAt(q)'
  BY <1>4, <1>6 DEF AnswerBatch
<1>7. ASSUME NEW c \in SUBSET batch[q], NEW m \in c, NEW ok \in BOOLEAN, AnswerOne(q, c, m, ok)
      PROVE CloseAt(q)'
  BY <1>4, <1>7 DEF AnswerOne
<1>8. ASSUME NEW c \in hands[q], WorkerPanics(q, c) PROVE CloseAt(q)'
  BY <1>4, <1>8 DEF WorkerPanics
<1>9. CASE Counts(q)
  BY <1>4, <1>9 DEF Counts, Counted
<1>. HIDE DEF RunInv, Queued
<1>. QED
  BY <1>1, <1>2, <1>3, <1>5, <1>6, <1>7, <1>8, <1>9, PoolMoves DEF PoolMove, RunInv

LEMMA CoverStep ==
    ASSUME RunInv, [Next]_vars, NEW q \in Engines
    PROVE  CoverAt(q)'
<1>. USE Shapes DEF RunInv, Queued, Told
<1>0. PoolAt(q) /\ CoverAt(q) /\ CloseAt(q)
  OBVIOUS
<1>1. CASE Still(q) \/ Closed(q)
  BY <1>0, <1>1 DEF Still, Closed, CoverAt
<1>2. CASE Nothing(q) \/ Lost(q) \/ Left(q)
  BY <1>2 DEF Nothing, Lost, Left, CoverAt
<1>3. CASE Filled(q)
  <2>1. Cardinality({}) = 0
    BY FS_EmptySet
  <2>. QED
    BY <1>3, <2>1, ChunksCover DEF Filled, CoverAt
<1>. DEFINE H == hands[q]
            n == Cardinality(H)
<1>5. ASSUME NEW c \in SUBSET batch[q], Take(q, c) PROVE CoverAt(q)'
  <2>1. /\ jobs'[q] = jobs[q] \ {c} /\ hands'[q] = H \cup {c} /\ c \in jobs[q]
        /\ crew'[q] = crew[q] - 1
        /\ out'[q] = out[q] /\ done'[q] = done[q] /\ batch'[q] = batch[q]
        /\ pc'[q] = pc[q] /\ pc[q] = "work" /\ panicked' = panicked
    BY <1>5 DEF Take, collector
  <2>2. Cardinality(H \cup {c}) = n + 1
    BY <1>0, <2>1, OneMore DEF PoolAt
  <2>3. ASSUME q \notin panicked PROVE crew'[q] + Cardinality(hands'[q]) = Concurrent
    <3>1. crew[q] + n = Concurrent /\ n \in Nat /\ crew[q] \in Nat
      BY <1>0, <2>1, <2>3 DEF CoverAt
    <3>. HIDE DEF n, H
    <3>. QED
      BY <2>1, <2>2, <3>1
  <2>. QED
    BY <1>0, <2>1, <2>3 DEF CoverAt
<1>6. ASSUME NEW c \in SUBSET batch[q], NEW S \in SUBSET c, AnswerBatch(q, c, S)
      PROVE CoverAt(q)'
  <2>. DEFINE N == {[mod |-> m, ok |-> TRUE] : m \in c}
  <2>1. /\ jobs'[q] = jobs[q] /\ hands'[q] = H \ {c} /\ c \in H
        /\ crew'[q] = crew[q] + 1
        /\ out'[q] = out[q] \cup N /\ done'[q] = done[q] /\ batch'[q] = batch[q]
        /\ pc'[q] = pc[q] /\ pc[q] = "work" /\ panicked' = panicked
    BY <1>6 DEF AnswerBatch
  <2>2. \A m \in c : \E o \in N : o.mod = m
    BY AnswersOf
  <2>. HIDE DEF N
  <2>3. Cardinality(H \ {c}) = n - 1
    BY <2>1, CrewArith
  <2>4. ASSUME q \notin panicked PROVE crew'[q] + Cardinality(hands'[q]) = Concurrent
    <3>1. crew[q] + n = Concurrent /\ n \in Nat /\ crew[q] \in Nat
      BY <1>0, <2>1, <2>4 DEF CoverAt
    <3>. HIDE DEF n, H
    <3>. QED
      BY <2>1, <2>3, <3>1
  <2>. QED
    BY <1>0, <2>1, <2>2, <2>4 DEF CoverAt
<1>7. ASSUME NEW c \in SUBSET batch[q], NEW m \in c, NEW ok \in BOOLEAN, AnswerOne(q, c, m, ok)
      PROVE CoverAt(q)'
  <2>. DEFINE o1 == [mod |-> m, ok |-> ok]
              d == c \ {m}
              G == H \ {c}
  <2>1. /\ jobs'[q] = jobs[q] /\ hands'[q] = G \cup ({d} \ {{}}) /\ c \in H
        /\ crew'[q] = IF c = {m} THEN crew[q] + 1 ELSE crew[q]
        /\ out'[q] = out[q] \cup {o1} /\ done'[q] = done[q] /\ batch'[q] = batch[q]
        /\ pc'[q] = pc[q] /\ pc[q] = "work" /\ panicked' = panicked
    BY <1>7 DEF AnswerOne
  <2>2. o1.mod = m /\ c = d \cup {m}
    OBVIOUS
  <2>3. Cardinality(G) = n - 1 /\ IsFiniteSet(G)
    BY <2>1, CrewArith
  <2>4. ASSUME q \notin panicked PROVE crew'[q] + Cardinality(hands'[q]) = Concurrent
    <3>1. crew[q] + n = Concurrent /\ n \in Nat /\ crew[q] \in Nat
      BY <1>0, <2>1, <2>4 DEF CoverAt
    <3>2. CASE c = {m}
      <4>1. hands'[q] = G
        BY <2>1, <3>2
      <4>2. crew'[q] = crew[q] + 1
        BY <2>1, <3>2
      <4>. HIDE DEF n, H, G
      <4>. QED
        BY <2>3, <3>1, <4>1, <4>2
    <3>3. CASE c # {m}
      <4>1. hands'[q] = G \cup {d} /\ d # {} /\ d \subseteq c
        BY <2>1, <3>3
      <4>2. d \notin G
        BY <1>0, <2>1, <4>1 DEF PoolAt
      <4>3. Cardinality(G \cup {d}) = Cardinality(G) + 1
        BY <2>3, <4>2, OneMore
      <4>4. crew'[q] = crew[q]
        BY <2>1, <3>3
      <4>. HIDE DEF n, H, G, d
      <4>. QED
        BY <2>3, <3>1, <4>1, <4>3, <4>4
    <3>. QED
      BY <3>2, <3>3
  <2>. HIDE DEF o1, d
  <2>5. ASSUME NEW x \in batch[q], q \notin panicked
        PROVE  (\E y \in jobs'[q] \cup hands'[q] : x \in y)
                  \/ (\E o \in out'[q] \cup done'[q] : o.mod = x)
    <3>1. (\E y \in Queued(q) : x \in y) \/ (\E o \in Told(q) : o.mod = x)
      BY <1>0, <2>1, <2>5 DEF CoverAt
    <3>. QED
      BY <2>1, <2>2, <3>1
  <2>. QED
    BY <2>1, <2>4, <2>5 DEF CoverAt
<1>8. ASSUME NEW c \in hands[q], WorkerPanics(q, c) PROVE CoverAt(q)'
  BY <1>8 DEF WorkerPanics, CoverAt
<1>9. CASE Counts(q)
  <2>1. PICK o \in out[q], r \in Outcome : r.mod = o.mod /\ pc[q] = "work" /\ Counted(q, o, r)
    BY <1>9 DEF Counts
  <2>2. /\ jobs'[q] = jobs[q] /\ hands'[q] = H /\ batch'[q] = batch[q]
        /\ crew'[q] = crew[q] /\ pc'[q] = pc[q] /\ panicked' = panicked
        /\ out'[q] = out[q] \ {o} /\ done'[q] = done[q] \cup {r}
    BY <2>1 DEF Counted, pool
  <2>. QED
    BY <1>0, <2>1, <2>2 DEF CoverAt
<1>. HIDE DEF RunInv, Queued, Told, H, n
<1>. QED
  BY <1>1, <1>2, <1>3, <1>5, <1>6, <1>7, <1>8, <1>9, PoolMoves DEF PoolMove, RunInv

LEMMA RunInductive == RunInv /\ [Next]_vars => RunInv'
  BY TypeStep, PhaseStep, CrewStep, FiniteStep, PoolStep, CoverStep, CloseStep
  DEF RunInv, TypeInv

LEMMA RunInvariant == Spec => []RunInv
  BY InitRun, RunInductive, PTL DEF Spec

(* Each selected module is in exactly one of queue, worker, result channel *)
(* and count: the fallback of a batch (pool.go, callPoolBatch) neither     *)
(* loses nor repeats one.                                                  *)
THEOREM CountedOnce == Spec => []ModulesOnce
<1>1. RunInv => ModulesOnce
  <2>. SUFFICES ASSUME RunInv, NEW e \in Engines
       PROVE  /\ \A c, d \in Places(e) : c = d \/ c \cap d = {}
              /\ \A o, p \in out[e] \cup done[e] : o.mod = p.mod => o = p
              /\ pc[e] \in {"work", "finalise"} /\ e \notin panicked => UNION Places(e) = batch[e]
    BY DEF ModulesOnce
  <2>1. PoolAt(e) /\ CoverAt(e)
    BY DEF RunInv
  <2>2. \A o, p \in out[e] \cup done[e] : o.mod = p.mod => o = p
    BY <2>1 DEF PoolAt, Told
  <2>3. Mods(out[e]) \cap Mods(done[e]) = {}
    BY <2>1 DEF PoolAt, Told, Mods
  <2>4. \A c \in Queued(e) : c \cap Mods(out[e]) = {} /\ c \cap Mods(done[e]) = {}
    BY <2>1 DEF PoolAt, Told, Mods
  <2>5. \A c, d \in Places(e) : c = d \/ c \cap d = {}
    BY <2>1, <2>3, <2>4 DEF PoolAt, Places, Queued
  <2>6. UNION Places(e) \subseteq batch[e]
    BY <2>1 DEF PoolAt, Places, Queued, Told, Mods
  <2>7. pc[e] \in {"work", "finalise"} /\ e \notin panicked => batch[e] \subseteq UNION Places(e)
    <3>. SUFFICES ASSUME pc[e] \in {"work", "finalise"}, e \notin panicked, NEW m \in batch[e]
         PROVE \E c \in Places(e) : m \in c
      OBVIOUS
    <3>1. (\E c \in jobs[e] \cup hands[e] : m \in c)
            \/ m \in Mods(out[e]) \/ m \in Mods(done[e])
      BY <2>1 DEF CoverAt, Queued, Told, Mods
    <3>. QED
      BY <3>1 DEF Places
  <2>. QED
    BY <2>2, <2>5, <2>6, <2>7
<1>. QED
  BY <1>1, RunInvariant, PTL

(***************************************************************************)
(* Rows, counters and attempts.                                            *)
(***************************************************************************)

(* What no step takes back.                                                *)
Lasting ==
    /\ enriched \subseteq enriched'
    /\ \A r \in Runs : status[r] = "completed" => status'[r] = "completed"
    /\ \A e \in Engines :
          /\ done[e] \subseteq done'[e]
          /\ run[e] # None => run'[e] = run[e]
          /\ pc[e] = "ended" =>
                /\ pc'[e] = "ended" /\ done'[e] = done[e] /\ batch'[e] = batch[e]
                /\ (e \in panicked' <=> e \in panicked)

LEMMA LastingStep == TypeInv /\ [Next]_vars => Lasting
<1>. SUFFICES ASSUME TypeInv, [Next]_vars PROVE Lasting
  OBVIOUS
<1>. USE RunsFacts DEF TypeInv, TypeOK, PhaseOK, PhaseAt, tables, pool, collector, Lasting
<1>1. ASSUME NEW e \in Engines, SelectPending(e) PROVE Lasting
  BY <1>1 DEF SelectPending, Goto
<1>2. ASSUME NEW e \in Engines, NEW r \in Runs, SelectRetry(e, r) PROVE Lasting
  BY <1>2 DEF SelectRetry, Goto
<1>3. ASSUME NEW e \in Engines, Resume(e) PROVE Lasting
  BY <1>3 DEF Resume, Begin, Goto, Fresh
<1>4. ASSUME NEW e \in Engines, FindNone(e) PROVE Lasting
  BY <1>4 DEF FindNone, Goto
<1>5. ASSUME NEW e \in Engines, InsertRun(e) PROVE Lasting
  BY <1>5 DEF InsertRun, NewRow, Begin, Goto
<1>6. ASSUME NEW e \in Engines, StartFails(e) PROVE Lasting
  BY <1>6 DEF StartFails, Begin, Goto
<1>7. ASSUME NEW e \in Engines, NEW c \in SUBSET batch[e], Take(e, c) PROVE
   Lasting
  BY <1>7 DEF Take
<1>8. ASSUME NEW e \in Engines, NEW c \in SUBSET batch[e], NEW S \in SUBSET c,
   AnswerBatch(e, c, S) PROVE Lasting
  BY <1>8 DEF AnswerBatch
<1>9. ASSUME NEW e \in Engines, NEW c \in SUBSET batch[e], NEW m \in c, NEW ok
   \in BOOLEAN, AnswerOne(e, c, m, ok) PROVE Lasting
  BY <1>9 DEF AnswerOne
<1>10. ASSUME NEW e \in Engines, NEW c \in hands[e], WorkerPanics(e, c) PROVE
   Lasting
  BY <1>10 DEF WorkerPanics
<1>11. ASSUME NEW e \in Engines, NEW o \in out[e], WriteSummary(e, o) PROVE
   Lasting
  BY <1>11 DEF WriteSummary, Counted
<1>12. ASSUME NEW e \in Engines, NEW o \in out[e], CountFailure(e, o) PROVE
   Lasting
  BY <1>12 DEF CountFailure, Counted
<1>13. ASSUME NEW e \in Engines, NEW o \in item[e], RecordAttempt(e, o) PROVE
   Lasting
  BY <1>13 DEF RecordAttempt
<1>14. ASSUME NEW e \in Engines, RecordFails(e) PROVE Lasting
  BY <1>14 DEF RecordFails
<1>15. ASSUME NEW e \in Engines, ReadCounters(e) PROVE Lasting
  BY <1>15 DEF ReadCounters
<1>16. ASSUME NEW e \in Engines, NEW b \in beat[e], Heartbeat(e, b) PROVE
   Lasting
  BY <1>16 DEF Heartbeat, Flush
<1>17. ASSUME NEW e \in Engines, HeartbeatFails(e) PROVE Lasting
  BY <1>17 DEF HeartbeatFails
<1>18. ASSUME NEW e \in Engines, MonitorSweep(e) PROVE Lasting
  BY <1>18 DEF MonitorSweep, Sweep, Sweepable
<1>19. ASSUME NEW e \in Engines, Unwind(e) PROVE Lasting
  BY <1>19 DEF Unwind, Goto, Drained
<1>20. ASSUME NEW e \in Engines, Abort(e) PROVE Lasting
  BY <1>20 DEF Abort, Goto
<1>21. ASSUME NEW e \in Engines, Finalise(e) PROVE Lasting
  BY <1>21 DEF Finalise, Goto, Flush
<1>22. ASSUME NEW e \in Engines, FinaliseFails(e) PROVE Lasting
  BY <1>22 DEF FinaliseFails, Goto
<1>23. ASSUME NEW e \in Engines, Cancel(e) PROVE Lasting
  BY <1>23 DEF Cancel
<1>24. ASSUME NEW e \in Engines, Crash(e) PROVE Lasting
  BY <1>24 DEF Crash, Goto, Live
<1>25. ASSUME NEW r \in Runs, GoStale(r) PROVE Lasting
  BY <1>25 DEF GoStale
<1>26. ASSUME StatusTool PROVE Lasting
  BY <1>26 DEF StatusTool, Sweep, Sweepable
<1>27. ASSUME StartRun PROVE Lasting
  BY <1>27 DEF StartRun, NewRow
<1>28. ASSUME NEW o \in plan.ext, WriteEnrichmentJSON(o) PROVE Lasting
  BY <1>28 DEF WriteEnrichmentJSON
<1>29. ASSUME NEW o \in plan.ext, RecordExternal(o) PROVE Lasting
  BY <1>29 DEF RecordExternal
<1>30. CASE UNCHANGED vars
  BY <1>30 DEF vars, tables, pool, collector
<1>. HIDE DEF TypeInv, TypeOK, PhaseOK, PhaseAt, tables, pool, collector,
   Lasting
<1>. QED
  BY <1>1, <1>2, <1>3, <1>4, <1>5, <1>6, <1>7, <1>8, <1>9, <1>10, <1>11, <1>12,
     <1>13, <1>14, <1>15, <1>16, <1>17, <1>18, <1>19, <1>20, <1>21, <1>22,
     <1>23, <1>24, <1>25, <1>26, <1>27, <1>28, <1>29, <1>30 DEF Next, Step,
     Mishap, Start, Work, Collect, Watch, Finish, Orchestrator

(* What a step does to a row.                                              *)
RowMove(r) ==
    \/ \E e \in Engines : Finalise(e) /\ run[e] = r
    \/ /\ status'[r] = "completed" => status[r] = "completed"
       /\ \/ count'[r] = count[r] \/ r = Ext
          \/ \E e \in Engines : beat[e] # {} /\ run[e] = r

LEMMA RowMoves == TypeInv /\ [Next]_vars => \A r \in Runs : RowMove(r)
<1>. SUFFICES ASSUME TypeInv, [Next]_vars, NEW q \in Runs PROVE RowMove(q)
  OBVIOUS
<1>. USE RunsFacts DEF TypeInv, TypeOK, PhaseOK, PhaseAt, tables, pool, collector, RowMove
<1>1. ASSUME NEW e \in Engines, SelectPending(e) PROVE RowMove(q)
  BY <1>1 DEF SelectPending, Goto
<1>2. ASSUME NEW e \in Engines, NEW r \in Runs, SelectRetry(e, r) PROVE
   RowMove(q)
  BY <1>2 DEF SelectRetry, Goto
<1>3. ASSUME NEW e \in Engines, Resume(e) PROVE RowMove(q)
  BY <1>3 DEF Resume, Begin, Goto, Fresh
<1>4. ASSUME NEW e \in Engines, FindNone(e) PROVE RowMove(q)
  BY <1>4 DEF FindNone, Goto
<1>5. ASSUME NEW e \in Engines, InsertRun(e) PROVE RowMove(q)
  BY <1>5 DEF InsertRun, NewRow, Begin, Goto
<1>6. ASSUME NEW e \in Engines, StartFails(e) PROVE RowMove(q)
  BY <1>6 DEF StartFails, Begin, Goto
<1>7. ASSUME NEW e \in Engines, NEW c \in SUBSET batch[e], Take(e, c) PROVE
   RowMove(q)
  BY <1>7 DEF Take
<1>8. ASSUME NEW e \in Engines, NEW c \in SUBSET batch[e], NEW S \in SUBSET c,
   AnswerBatch(e, c, S) PROVE RowMove(q)
  BY <1>8 DEF AnswerBatch
<1>9. ASSUME NEW e \in Engines, NEW c \in SUBSET batch[e], NEW m \in c, NEW ok
   \in BOOLEAN, AnswerOne(e, c, m, ok) PROVE RowMove(q)
  BY <1>9 DEF AnswerOne
<1>10. ASSUME NEW e \in Engines, NEW c \in hands[e], WorkerPanics(e, c) PROVE
   RowMove(q)
  BY <1>10 DEF WorkerPanics
<1>11. ASSUME NEW e \in Engines, NEW o \in out[e], WriteSummary(e, o) PROVE
   RowMove(q)
  BY <1>11 DEF WriteSummary, Counted
<1>12. ASSUME NEW e \in Engines, NEW o \in out[e], CountFailure(e, o) PROVE
   RowMove(q)
  BY <1>12 DEF CountFailure, Counted
<1>13. ASSUME NEW e \in Engines, NEW o \in item[e], RecordAttempt(e, o) PROVE
   RowMove(q)
  BY <1>13 DEF RecordAttempt
<1>14. ASSUME NEW e \in Engines, RecordFails(e) PROVE RowMove(q)
  BY <1>14 DEF RecordFails
<1>15. ASSUME NEW e \in Engines, ReadCounters(e) PROVE RowMove(q)
  BY <1>15 DEF ReadCounters
<1>16. ASSUME NEW e \in Engines, NEW b \in beat[e], Heartbeat(e, b) PROVE
   RowMove(q)
  <2>1. beat[e] # {} /\ run[e] \in Runs /\ status' = status
    BY <1>16 DEF Heartbeat
  <2>2. CASE run[e] = q
    BY <2>1, <2>2
  <2>3. CASE run[e] # q
    <3>1. count'[q] = count[q]
      BY <1>16, <2>1, <2>3 DEF Heartbeat, Flush
    <3>. QED
      BY <2>1, <3>1
  <2>. QED
    BY <2>2, <2>3
<1>17. ASSUME NEW e \in Engines, HeartbeatFails(e) PROVE RowMove(q)
  BY <1>17 DEF HeartbeatFails
<1>18. ASSUME NEW e \in Engines, MonitorSweep(e) PROVE RowMove(q)
  BY <1>18 DEF MonitorSweep, Sweep, Sweepable
<1>19. ASSUME NEW e \in Engines, Unwind(e) PROVE RowMove(q)
  BY <1>19 DEF Unwind, Goto, Drained
<1>20. ASSUME NEW e \in Engines, Abort(e) PROVE RowMove(q)
  BY <1>20 DEF Abort, Goto
<1>21. ASSUME NEW e \in Engines, Finalise(e) PROVE RowMove(q)
  <2>1. CASE run[e] = q
    BY <1>21, <2>1
  <2>2. CASE run[e] # q
    <3>1. run[e] \in Runs
      BY <1>21 DEF Finalise
    <3>2. count'[q] = count[q] /\ status'[q] = status[q]
      BY <1>21, <2>2, <3>1 DEF Finalise, Flush
    <3>. QED
      BY <3>2
  <2>. QED
    BY <2>1, <2>2
<1>22. ASSUME NEW e \in Engines, FinaliseFails(e) PROVE RowMove(q)
  BY <1>22 DEF FinaliseFails, Goto
<1>23. ASSUME NEW e \in Engines, Cancel(e) PROVE RowMove(q)
  BY <1>23 DEF Cancel
<1>24. ASSUME NEW e \in Engines, Crash(e) PROVE RowMove(q)
  BY <1>24 DEF Crash, Goto, Live
<1>25. ASSUME NEW r \in Runs, GoStale(r) PROVE RowMove(q)
  BY <1>25 DEF GoStale
<1>26. ASSUME StatusTool PROVE RowMove(q)
  BY <1>26 DEF StatusTool, Sweep, Sweepable
<1>27. ASSUME StartRun PROVE RowMove(q)
  BY <1>27 DEF StartRun, NewRow
<1>28. ASSUME NEW o \in plan.ext, WriteEnrichmentJSON(o) PROVE RowMove(q)
  BY <1>28 DEF WriteEnrichmentJSON
<1>29. ASSUME NEW o \in plan.ext, RecordExternal(o) PROVE RowMove(q)
  BY <1>29 DEF RecordExternal
<1>30. CASE UNCHANGED vars
  BY <1>30 DEF vars, tables, pool, collector
<1>. HIDE DEF TypeInv, TypeOK, PhaseOK, PhaseAt, tables, pool, collector,
   RowMove
<1>. QED
  BY <1>1, <1>2, <1>3, <1>4, <1>5, <1>6, <1>7, <1>8, <1>9, <1>10, <1>11, <1>12,
     <1>13, <1>14, <1>15, <1>16, <1>17, <1>18, <1>19, <1>20, <1>21, <1>22,
     <1>23, <1>24, <1>25, <1>26, <1>27, <1>28, <1>29, <1>30 DEF Next, Step,
     Mishap, Start, Work, Collect, Watch, Finish, Orchestrator

(* What a step counts, and whose attempt it leaves to be inserted.         *)
DoneMove ==
    \A e \in Engines :
        /\ \A o \in done'[e] : o \in done[e] \/ ~o.ok \/ o.mod \in enriched'
        /\ \/ item'[e] = item[e] \/ item'[e] = {}
           \/ /\ attempts' = attempts
              /\ \E o \in out[e] : \A x \in item'[e] : x.mod = o.mod

LEMMA DoneMoves == TypeInv /\ [Next]_vars => DoneMove
<1>. SUFFICES ASSUME TypeInv, [Next]_vars PROVE DoneMove
  OBVIOUS
<1>. USE DEF TypeInv, TypeOK, tables, pool, collector, DoneMove
<1>1. ASSUME NEW e \in Engines, SelectPending(e) PROVE DoneMove
  BY <1>1 DEF SelectPending, Goto
<1>2. ASSUME NEW e \in Engines, NEW r \in Runs, SelectRetry(e, r) PROVE
   DoneMove
  BY <1>2 DEF SelectRetry, Goto
<1>3. ASSUME NEW e \in Engines, Resume(e) PROVE DoneMove
  BY <1>3 DEF Resume, Begin, Goto, Fresh
<1>4. ASSUME NEW e \in Engines, FindNone(e) PROVE DoneMove
  BY <1>4 DEF FindNone, Goto
<1>5. ASSUME NEW e \in Engines, InsertRun(e) PROVE DoneMove
  BY <1>5 DEF InsertRun, NewRow, Begin, Goto
<1>6. ASSUME NEW e \in Engines, StartFails(e) PROVE DoneMove
  BY <1>6 DEF StartFails, Begin, Goto
<1>7. ASSUME NEW e \in Engines, NEW c \in SUBSET batch[e], Take(e, c) PROVE
   DoneMove
  BY <1>7 DEF Take
<1>8. ASSUME NEW e \in Engines, NEW c \in SUBSET batch[e], NEW S \in SUBSET c,
   AnswerBatch(e, c, S) PROVE DoneMove
  BY <1>8 DEF AnswerBatch
<1>9. ASSUME NEW e \in Engines, NEW c \in SUBSET batch[e], NEW m \in c, NEW ok
   \in BOOLEAN, AnswerOne(e, c, m, ok) PROVE DoneMove
  BY <1>9 DEF AnswerOne
<1>10. ASSUME NEW e \in Engines, NEW c \in hands[e], WorkerPanics(e, c) PROVE
   DoneMove
  BY <1>10 DEF WorkerPanics
<1>11. ASSUME NEW e \in Engines, NEW o \in out[e], WriteSummary(e, o) PROVE
   DoneMove
  BY <1>11 DEF WriteSummary, Counted
<1>12. ASSUME NEW e \in Engines, NEW o \in out[e], CountFailure(e, o) PROVE
   DoneMove
  BY <1>12 DEF CountFailure, Counted
<1>13. ASSUME NEW e \in Engines, NEW o \in item[e], RecordAttempt(e, o) PROVE
   DoneMove
  BY <1>13 DEF RecordAttempt
<1>14. ASSUME NEW e \in Engines, RecordFails(e) PROVE DoneMove
  BY <1>14 DEF RecordFails
<1>15. ASSUME NEW e \in Engines, ReadCounters(e) PROVE DoneMove
  BY <1>15 DEF ReadCounters
<1>16. ASSUME NEW e \in Engines, NEW b \in beat[e], Heartbeat(e, b) PROVE
   DoneMove
  BY <1>16 DEF Heartbeat, Flush
<1>17. ASSUME NEW e \in Engines, HeartbeatFails(e) PROVE DoneMove
  BY <1>17 DEF HeartbeatFails
<1>18. ASSUME NEW e \in Engines, MonitorSweep(e) PROVE DoneMove
  BY <1>18 DEF MonitorSweep, Sweep, Sweepable
<1>19. ASSUME NEW e \in Engines, Unwind(e) PROVE DoneMove
  BY <1>19 DEF Unwind, Goto, Drained
<1>20. ASSUME NEW e \in Engines, Abort(e) PROVE DoneMove
  BY <1>20 DEF Abort, Goto
<1>21. ASSUME NEW e \in Engines, Finalise(e) PROVE DoneMove
  BY <1>21 DEF Finalise, Goto, Flush
<1>22. ASSUME NEW e \in Engines, FinaliseFails(e) PROVE DoneMove
  BY <1>22 DEF FinaliseFails, Goto
<1>23. ASSUME NEW e \in Engines, Cancel(e) PROVE DoneMove
  BY <1>23 DEF Cancel
<1>24. ASSUME NEW e \in Engines, Crash(e) PROVE DoneMove
  BY <1>24 DEF Crash, Goto, Live
<1>25. ASSUME NEW r \in Runs, GoStale(r) PROVE DoneMove
  BY <1>25 DEF GoStale
<1>26. ASSUME StatusTool PROVE DoneMove
  BY <1>26 DEF StatusTool, Sweep, Sweepable
<1>27. ASSUME StartRun PROVE DoneMove
  BY <1>27 DEF StartRun, NewRow
<1>28. ASSUME NEW o \in plan.ext, WriteEnrichmentJSON(o) PROVE DoneMove
  BY <1>28 DEF WriteEnrichmentJSON
<1>29. ASSUME NEW o \in plan.ext, RecordExternal(o) PROVE DoneMove
  BY <1>29 DEF RecordExternal
<1>30. CASE UNCHANGED vars
  BY <1>30 DEF vars, tables, pool, collector
<1>. HIDE DEF TypeInv, TypeOK, tables, pool, collector, DoneMove
<1>. QED
  BY <1>1, <1>2, <1>3, <1>4, <1>5, <1>6, <1>7, <1>8, <1>9, <1>10, <1>11, <1>12,
     <1>13, <1>14, <1>15, <1>16, <1>17, <1>18, <1>19, <1>20, <1>21, <1>22,
     <1>23, <1>24, <1>25, <1>26, <1>27, <1>28, <1>29, <1>30 DEF Next, Step,
     Mishap, Start, Work, Collect, Watch, Finish, Orchestrator

(***************************************************************************)
(* What has been counted is backed: a counted success is enriched, an      *)
(* attempt of an engine names the engine's row and an outcome the engine   *)
(* has counted, and what is still to be recorded has no attempt.           *)
(***************************************************************************)
Backed == \A e \in Engines : \A o \in done[e] : o.ok => o.mod \in enriched

Explained(a) ==
    a.what.run \in Engines =>
        /\ run[a.what.run] # None /\ a.row = run[a.what.run]
        /\ [mod |-> a.what.mod, ok |-> a.what.ok] \in done[a.what.run]
        /\ a.what.ok => a.what.mod \in enriched

Single ==
    \A a, b \in attempts :
        a.what.run \in Engines /\ a.what.run = b.what.run /\ a.what.mod = b.what.mod => a = b

Unrecorded(e) ==
    \A o \in item[e], a \in attempts : a.what.run = e => a.what.mod # o.mod

LedgerInv ==
    /\ RunInv
    /\ Backed
    /\ \A a \in attempts : Explained(a)
    /\ Single
    /\ \A e \in Engines : Unrecorded(e)
    /\ CompletedIsComplete
    /\ FinalCounts

LEMMA InitLedger == Init => LedgerInv
<1>. SUFFICES ASSUME Init PROVE LedgerInv
  OBVIOUS
<1>1. /\ Backed /\ (\A a \in attempts : Explained(a)) /\ Single
      /\ \A e \in Engines : Unrecorded(e)
  BY DEF Init, Backed, Single, Unrecorded
<1>2. \A r \in Runs : status[r] # "completed"
  BY RunsFacts DEF Init
<1>3. CompletedIsComplete /\ FinalCounts
  BY <1>2 DEF CompletedIsComplete, FinalCounts
<1>. QED
  BY <1>1, <1>3, InitRun DEF LedgerInv

LEMMA BackedStep ==
    ASSUME LedgerInv, [Next]_vars
    PROVE  Backed'
<1>1. Lasting /\ DoneMove
  BY LastingStep, DoneMoves DEF LedgerInv, RunInv
<1>. QED
  BY <1>1 DEF LedgerInv, Backed, Lasting, DoneMove

LEMMA ExplainedStep ==
    ASSUME LedgerInv, [Next]_vars
    PROVE  \A a \in attempts' : Explained(a)'
<1>1. Lasting /\ AttemptMove
  BY LastingStep, AttemptMoves DEF LedgerInv, RunInv
<1>2. ASSUME NEW a \in attempts PROVE Explained(a)'
  BY <1>1, <1>2 DEF LedgerInv, Lasting, Explained
<1>3. ASSUME NEW e \in Engines, NEW o \in item[e],
             NEW x, x = [row |-> run[e], what |-> By(e, o, Repeats(e, o))]
      PROVE  Explained(x)'
  <2>1. /\ o \in done[e] /\ o \in Outcome /\ run[e] # None
    BY <1>3 DEF LedgerInv, RunInv, TypeInv, TypeOK, PhaseOK, PhaseAt
  <2>2. o = [mod |-> o.mod, ok |-> o.ok]
    BY <2>1 DEF Outcome
  <2>3. o \in done'[e] /\ run'[e] = run[e] /\ (o.ok => o.mod \in enriched')
    BY <1>1, <2>1 DEF Lasting, LedgerInv, Backed
  <2>. QED
    BY <1>3, <2>1, <2>2, <2>3, RunsFacts DEF Explained, By
<1>4. ASSUME NEW x, x.what.run = Ext PROVE Explained(x)'
  BY <1>4, RunsFacts DEF Explained
<1>5. CASE attempts' = attempts
  BY <1>2, <1>5
<1>6. ASSUME NEW e \in Engines, NEW o \in item[e], RecordAttempt(e, o)
      PROVE  \A a \in attempts' : Explained(a)'
  BY <1>2, <1>3, <1>6 DEF RecordAttempt
<1>7. ASSUME NEW o \in Outcome,
             attempts' = attempts \cup {[row |-> Ext, what |-> By(Ext, o, Repeats(Ext, o))]}
      PROVE  \A a \in attempts' : Explained(a)'
  <2>. SUFFICES ASSUME NEW a \in attempts', a \notin attempts PROVE Explained(a)'
    BY <1>2
  <2>1. a.what.run = Ext
    BY <1>7 DEF By
  <2>. QED
    BY <1>4, <2>1
<1>. QED
  BY <1>1, <1>5, <1>6, <1>7 DEF AttemptMove

LEMMA SingleStep ==
    ASSUME LedgerInv, [Next]_vars
    PROVE  Single'
<1>1. AttemptMove
  BY AttemptMoves DEF LedgerInv, RunInv
<1>2. CASE attempts' = attempts
  BY <1>2 DEF LedgerInv, Single
<1>3. ASSUME NEW e \in Engines, NEW o \in item[e], RecordAttempt(e, o)
      PROVE  Single'
  <2>. DEFINE x == [row |-> run[e], what |-> By(e, o, Repeats(e, o))]
  <2>1. x.what.run = e /\ x.what.mod = o.mod
    BY DEF By
  <2>2. attempts' = attempts \cup {x}
    BY <1>3 DEF RecordAttempt
  <2>. HIDE DEF x
  <2>3. \A b \in attempts : b.what.run = e => b.what.mod # o.mod
    BY DEF LedgerInv, Unrecorded
  <2>. QED
    BY <2>1, <2>2, <2>3 DEF LedgerInv, Single
<1>4. ASSUME NEW o \in Outcome,
             attempts' = attempts \cup {[row |-> Ext, what |-> By(Ext, o, Repeats(Ext, o))]}
      PROVE  Single'
  <2>. DEFINE x == [row |-> Ext, what |-> By(Ext, o, Repeats(Ext, o))]
  <2>1. x.what.run \notin Engines
    BY RunsFacts DEF By
  <2>2. attempts' = attempts \cup {x}
    BY <1>4
  <2>. HIDE DEF x
  <2>. QED
    BY <2>1, <2>2 DEF LedgerInv, Single
<1>. QED
  BY <1>1, <1>2, <1>3, <1>4 DEF AttemptMove

LEMMA UnrecordedStep ==
    ASSUME LedgerInv, [Next]_vars, NEW q \in Engines
    PROVE  Unrecorded(q)'
<1>1. AttemptMove /\ DoneMove
  BY AttemptMoves, DoneMoves DEF LedgerInv, RunInv
<1>2. CASE item'[q] = {}
  BY <1>2 DEF Unrecorded
<1>3. ASSUME attempts' = attempts, NEW o \in out[q], \A x \in item'[q] : x.mod = o.mod
      PROVE  Unrecorded(q)'
  <2>1. ASSUME NEW a \in attempts, a.what.run = q PROVE a.what.mod # o.mod
    <3>. DEFINE p == [mod |-> a.what.mod, ok |-> a.what.ok]
    <3>1. p \in done[q] /\ p.mod = a.what.mod
      BY <2>1 DEF LedgerInv, Explained
    <3>. HIDE DEF p
    <3>. QED
      BY <1>3, <3>1 DEF LedgerInv, RunInv, PoolAt, Told
  <2>. QED
    BY <1>3, <2>1 DEF Unrecorded
<1>4. ASSUME item'[q] = item[q], item[q] # {} PROVE Unrecorded(q)'
  <2>1. ASSUME NEW a \in attempts', a.what.run = q PROVE a \in attempts
    <3>1. ASSUME NEW e \in Engines, NEW o \in item[e], RecordAttempt(e, o)
          PROVE  a \in attempts
      <4>1. e # q
        BY <1>4, <3>1 DEF RecordAttempt, LedgerInv, RunInv, TypeInv, TypeOK
      <4>2. a \in attempts \/ a.what.run = e
        BY <3>1 DEF RecordAttempt, By
      <4>. QED
        BY <2>1, <4>1, <4>2
    <3>2. ASSUME NEW o \in Outcome,
                 attempts' = attempts \cup {[row |-> Ext, what |-> By(Ext, o, Repeats(Ext, o))]}
          PROVE  a \in attempts
      <4>1. a \in attempts \/ a.what.run = Ext
        BY <3>2 DEF By
      <4>. QED
        BY <2>1, <4>1, RunsFacts
    <3>. QED
      BY <1>1, <3>1, <3>2 DEF AttemptMove
  <2>. QED
    BY <1>4, <2>1 DEF LedgerInv, Unrecorded
<1>. QED
  BY <1>1, <1>2, <1>3, <1>4 DEF DoneMove

LEMMA CompletedStep ==
    ASSUME LedgerInv, [Next]_vars
    PROVE  CompletedIsComplete'
<1>1. Lasting /\ \A r \in Runs : RowMove(r)
  BY LastingStep, RowMoves DEF LedgerInv, RunInv
<1>. SUFFICES ASSUME NEW r \in Runs, status'[r] = "completed"
     PROVE \E e \in Engines :
              /\ run'[e] = r /\ pc'[e] = "ended" /\ e \notin panicked'
              /\ Mods(done[e])' = batch'[e]
  BY DEF CompletedIsComplete
<1>2. CASE status[r] = "completed"
  <2>1. PICK e \in Engines :
            run[e] = r /\ pc[e] = "ended" /\ e \notin panicked /\ Mods(done[e]) = batch[e]
    BY <1>2 DEF LedgerInv, CompletedIsComplete
  <2>2. run'[e] = run[e]
    BY <1>1, <2>1, RunsFacts DEF Lasting
  <2>. QED
    BY <1>1, <2>1, <2>2 DEF Lasting, Mods
<1>3. CASE status[r] # "completed"
  <2>1. PICK e \in Engines : Finalise(e) /\ run[e] = r
    BY <1>1, <1>3 DEF RowMove
  <2>2. /\ pc[e] = "finalise" /\ pc'[e] = "ended" /\ run' = run /\ panicked' = panicked
        /\ done' = done /\ batch' = batch
    BY <2>1 DEF Finalise, Goto, collector, LedgerInv, RunInv, TypeInv, TypeOK
  <2>3. e \notin panicked /\ Queued(e) = {} /\ out[e] = {} /\ CoverAt(e) /\ PoolAt(e)
    BY <2>2 DEF LedgerInv, RunInv, CloseAt
  <2>4. Mods(done[e]) = batch[e]
    <3>1. \A o \in done[e] : o.mod \in batch[e]
      BY <2>3 DEF PoolAt, Told
    <3>2. \A m \in batch[e] : \E o \in done[e] : o.mod = m
      BY <2>2, <2>3 DEF CoverAt, Told
    <3>. QED
      BY <3>1, <3>2 DEF Mods
  <2>. QED
    BY <2>1, <2>2, <2>3, <2>4 DEF Mods
<1>. QED
  BY <1>2, <1>3

LEMMA FinalCountsStep ==
    ASSUME LedgerInv, [Next]_vars
    PROVE  FinalCounts'
<1>1. Lasting /\ \A r \in Runs : RowMove(r)
  BY LastingStep, RowMoves DEF LedgerInv, RunInv
<1>. SUFFICES ASSUME NEW r \in Engines, r \in Runs, status'[r] = "completed",
                     \A e \in Engines : run'[e] = r => e = r
     PROVE count'[r] = {By(r, o, 0) : o \in done'[r]}
  BY DEF FinalCounts, Unshared
<1>2. \A e \in Engines : run[e] = r => e = r
  BY <1>1, RunsFacts DEF Lasting
<1>3. ASSUME NEW e \in Engines, Finalise(e), run[e] = r
      PROVE  count'[r] = {By(r, o, 0) : o \in done'[r]}
  <2>1. e = r
    BY <1>2, <1>3
  <2>2. count'[r] = {By(r, o, 0) : o \in done[r]} /\ done' = done
    BY <1>3, <2>1 DEF Finalise, Flush, collector, LedgerInv, RunInv, TypeInv, TypeOK
  <2>. QED
    BY <2>2
<1>4. CASE status[r] = "completed"
  <2>1. run[r] = r /\ pc[r] = "ended"
    BY <1>2, <1>4 DEF LedgerInv, CompletedIsComplete
  <2>2. beat[r] = {}
    BY <2>1 DEF LedgerInv, RunInv, TypeInv, PhaseOK, PhaseAt
  <2>3. done'[r] = done[r]
    BY <1>1, <2>1 DEF Lasting
  <2>4. count[r] = {By(r, o, 0) : o \in done[r]}
    BY <1>2, <1>4 DEF LedgerInv, FinalCounts, Unshared
  <2>5. count'[r] = count[r] \/ \E e \in Engines : Finalise(e) /\ run[e] = r
    BY <1>1, <1>2, <2>2, RunsFacts DEF RowMove
  <2>. QED
    BY <1>3, <2>3, <2>4, <2>5
<1>. QED
  BY <1>1, <1>3, <1>4 DEF RowMove

LEMMA LedgerInvariant == Spec => []LedgerInv
<1>1. LedgerInv /\ [Next]_vars => LedgerInv'
  BY RunInductive, BackedStep, ExplainedStep, SingleStep, UnrecordedStep, CompletedStep,
     FinalCountsStep
  DEF LedgerInv
<1>. QED
  BY <1>1, InitLedger, PTL DEF Spec

(* A run is "completed" only by an engine that has counted every module it *)
(* selected: a recovered panic, or a pool that dies with jobs left, never  *)
(* ends that way while the run has a monitor (enrich.go, workerPanicked).  *)
THEOREM CompletedOnlyComplete == Spec => []CompletedIsComplete
BY LedgerInvariant, PTL DEF LedgerInv

(* The last heartbeat is joined before the row is finalised (monitor.go,   *)
(* Stop): it cannot put older counters back.                               *)
THEOREM CountsAreFinal == Spec => []FinalCounts
BY LedgerInvariant, PTL DEF LedgerInv

(* The engine inserts the attempt after the transaction that enriches the  *)
(* module (enrich.go, the result loop), and once for each outcome, whatever *)
(* crashes and fails in between.                                           *)
THEOREM AttemptsAreBacked == Spec => []AttemptsBacked
<1>1. LedgerInv => AttemptsBacked
  BY DEF LedgerInv, AttemptsBacked, Explained, Single
<1>. QED
  BY <1>1, LedgerInvariant, PTL

(* The sweepers touch only rows in progress, and no row is inserted twice. *)
THEOREM CompletedForGood == Spec => CompletedStays
<1>1. TypeInv /\ [Next]_vars
        => [\A r \in Runs : status[r] = "completed" => status'[r] = "completed"]_vars
  BY LastingStep DEF Lasting
<1>2. RunInv => TypeInv
  BY DEF RunInv
<1>. QED
  BY <1>1, <1>2, RunInvariant, PTL DEF Spec, CompletedStays
=============================================================================

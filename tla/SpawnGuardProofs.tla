-------------------------- MODULE SpawnGuardProofs --------------------------
(***************************************************************************)
(* Proofs about SpawnGuard, for any number of processes and any windows.   *)
(***************************************************************************)
EXTENDS SpawnGuard, TLAPS, FiniteSetTheorems

USE DEF history, Broken

(* Everything a process counts is finite.                                  *)
FiniteInv ==
    /\ IsFiniteSet(log)
    /\ IsFiniteSet(file.events)
    /\ \A p \in Procs : IsFiniteSet(mem[p])

(* What Record leaves in memory: the pruned history and its own event.     *)
LEMMA RecordedEvents ==
  ASSUME TypeOK, FiniteInv, NEW p \in Procs, Record(p)
  PROVE  /\ mem' \in [Procs -> SUBSET Events]
         /\ \A q \in Procs : IsFiniteSet(mem'[q])
         /\ \A q \in Procs \ {p} : mem'[q] = mem[q]
         /\ mem'[p] # {}
         /\ \A e \in mem'[p] : e.by # p => e \in mem[p]
         /\ \A e \in mem[p] : e.at > now - Keep => e \in mem'[p]
<1> DEFINE Old == {e \in mem[p] : e.at > now - Keep}
           own == [by |-> p, at |-> now, failed |-> failed[p]]
<1>1. mem' = [mem EXCEPT ![p] = Old \cup {own}]
  BY DEF Record
<1>2. mem[p] \in SUBSET Events /\ now \in 0 .. MaxTime /\ failed[p] \in BOOLEAN
  BY DEF TypeOK
<1>3. own \in Events /\ own.by = p
  BY <1>2 DEF Events
<1>4. IsFiniteSet(Old \cup {own})
  <2>1. IsFiniteSet(mem[p])
    BY DEF FiniteInv
  <2>2. Old \in SUBSET mem[p]
    OBVIOUS
  <2>3. IsFiniteSet(Old)
    BY <2>1, <2>2, FS_Subset
  <2> HIDE DEF Old, own
  <2>4. QED
    BY <2>3, FS_AddElement
<1>5. mem'[p] = Old \cup {own} /\ \A q \in Procs \ {p} : mem'[q] = mem[q]
  BY <1>1 DEF TypeOK
<1>6. mem' \in [Procs -> SUBSET Events]
  BY <1>1, <1>2, <1>3 DEF TypeOK
<1>7. \A q \in Procs : IsFiniteSet(mem'[q])
  BY <1>4, <1>5 DEF FiniteInv
<1>8. QED
  BY <1>3, <1>5, <1>6, <1>7

(* What Write leaves on disk and in the log.                               *)
LEMMA WrittenEvents ==
  ASSUME TypeOK, FiniteInv, NEW p \in Procs, Write(p)
  PROVE  /\ log' = log \cup {e \in mem[p] : e.by = p}
         /\ log' \in SUBSET Events /\ IsFiniteSet(log')
         /\ file' \in Files /\ IsFiniteSet(file'.events)
         /\ file'.readable => file'.events = mem[p]
         /\ ~file'.readable => file'.events = {}
         /\ file.size = 0 /\ mem[p] # {} => file'.readable
<1> DEFINE n == Cardinality(mem[p])
<1>1. mem[p] \in SUBSET Events /\ IsFiniteSet(mem[p]) /\ n \in Nat
  BY FS_CardinalityType DEF TypeOK, FiniteInv
<1>2. mem[p] # {} => n > 0
  BY <1>1, FS_EmptySet
<1>3. IsFiniteSet({e \in mem[p] : e.by = p})
  BY <1>1, FS_Subset, {e \in mem[p] : e.by = p} \in SUBSET mem[p]
<1>4. log' = log \cup {e \in mem[p] : e.by = p}
  BY DEF Write
<1>5. IsFiniteSet(log')
  BY <1>3, <1>4, FS_Union DEF FiniteInv
<1>6. PICK r \in BOOLEAN :
         /\ n > file.size => r
         /\ file' = [events   |-> IF r THEN mem[p] ELSE {},
                     readable |-> r,
                     size     |-> IF r THEN n ELSE file.size]
  BY DEF Write
<1>7. file.size \in Nat /\ log \in SUBSET Events
  BY DEF TypeOK, Files
<1> HIDE DEF n
<1>8. file' \in Files
  BY <1>1, <1>6, <1>7 DEF Files
<1>9. IsFiniteSet(file'.events)
  BY <1>1, <1>6, FS_EmptySet
<1>10. file.size = 0 /\ mem[p] # {} => file'.readable
  BY <1>2, <1>6
<1>11. QED
  BY <1>1, <1>4, <1>5, <1>6, <1>7, <1>8, <1>9, <1>10

LEMMA TypeInit == Init => TypeOK /\ FiniteInv
<1>1. ASSUME Init PROVE TypeOK
  <2>1. 0 \in 0 .. MaxTime /\ {} \subseteq Events
    BY SpawnAssumption DEF SpawnAssumption
  <2>2. file \in Files
    BY <1>1 DEF Init, Files
  <2>3. QED
    BY <1>1, <2>1, <2>2 DEF Init, TypeOK
<1>2. ASSUME Init PROVE FiniteInv
  BY <1>2, FS_EmptySet DEF Init, FiniteInv
<1>3. QED
  BY <1>1, <1>2

LEMMA TypeStep == TypeOK /\ FiniteInv /\ [Next]_vars => (TypeOK /\ FiniteInv)'
<1> SUFFICES ASSUME TypeOK, FiniteInv, [Next]_vars PROVE (TypeOK /\ FiniteInv)'
  OBVIOUS
<1> USE SpawnAssumption DEF SpawnAssumption, Active, Over
<1>1. ASSUME NEW p \in Procs, Load(p) PROVE (TypeOK /\ FiniteInv)'
  BY <1>1, FS_EmptySet DEF Load, Goto, TypeOK, FiniteInv, Files
<1>2. ASSUME NEW p \in Procs, CheckGuard(p) PROVE (TypeOK /\ FiniteInv)'
  BY <1>2 DEF CheckGuard, Goto, TypeOK, FiniteInv
<1>3. ASSUME NEW p \in Procs, Exec(p) PROVE (TypeOK /\ FiniteInv)'
  BY <1>3 DEF Exec, Goto, TypeOK, FiniteInv
<1>4. ASSUME NEW p \in Procs, WaitLive(p) PROVE (TypeOK /\ FiniteInv)'
  BY <1>4 DEF WaitLive, Goto, TypeOK, FiniteInv
<1>5. ASSUME NEW p \in Procs, Record(p) PROVE (TypeOK /\ FiniteInv)'
  <2>1. /\ mem' \in [Procs -> SUBSET Events]
        /\ \A q \in Procs : IsFiniteSet(mem'[q])
    BY <1>5, RecordedEvents
  <2>2. file' \in Files /\ IsFiniteSet(file'.events)
    BY <1>5, FS_EmptySet DEF Record, Files
  <2>3. QED
    BY <1>5, <2>1, <2>2 DEF Record, Goto, TypeOK, FiniteInv
<1>6. ASSUME NEW p \in Procs, Write(p) PROVE (TypeOK /\ FiniteInv)'
  <2>1. /\ log' \in SUBSET Events /\ IsFiniteSet(log')
        /\ file' \in Files /\ IsFiniteSet(file'.events)
    BY <1>6, WrittenEvents
  <2>2. QED
    BY <1>6, <2>1 DEF Write, Goto, TypeOK, FiniteInv
<1>7. ASSUME NEW p \in Procs, RecordFails(p) PROVE (TypeOK /\ FiniteInv)'
  BY <1>7 DEF RecordFails, Goto, TypeOK, FiniteInv
<1>8. ASSUME NEW p \in Procs, Crash(p) PROVE (TypeOK /\ FiniteInv)'
  BY <1>8 DEF Crash, TypeOK, FiniteInv
<1>9. ASSUME Tick PROVE (TypeOK /\ FiniteInv)'
  BY <1>9 DEF Tick, TypeOK, FiniteInv
<1>10. ASSUME UNCHANGED vars PROVE (TypeOK /\ FiniteInv)'
  BY <1>10 DEF vars, TypeOK, FiniteInv
<1>11. QED
  BY <1>1, <1>2, <1>3, <1>4, <1>5, <1>6, <1>7, <1>8, <1>9, <1>10 DEF Next

\* Every variable of the autospawn attempts keeps its type (spawn_guard.go).
THEOREM TypeCorrect == Spec => []TypeOK
<1>1. Spec => [](TypeOK /\ FiniteInv)
  BY TypeInit, TypeStep, PTL DEF Spec
<1>2. QED
  BY <1>1, PTL

----------------------------------------------------------------------------
(* The guard never counts what has not been recorded.                      *)

LEMMA HistoryStep ==
  TypeOK /\ FiniteInv /\ HistoryInv /\ [Next]_vars => HistoryInv'
<1> SUFFICES ASSUME TypeOK, FiniteInv, HistoryInv, [Next]_vars PROVE HistoryInv'
  OBVIOUS
<1>1. ASSUME NEW p \in Procs, Load(p) PROVE HistoryInv'
  BY <1>1 DEF Load, Goto, TypeOK, HistoryInv
<1>2. ASSUME NEW p \in Procs, CheckGuard(p) PROVE HistoryInv'
  BY <1>2 DEF CheckGuard, Goto, TypeOK, HistoryInv
<1>3. ASSUME NEW p \in Procs, Exec(p) PROVE HistoryInv'
  BY <1>3 DEF Exec, Goto, TypeOK, HistoryInv
<1>4. ASSUME NEW p \in Procs, WaitLive(p) PROVE HistoryInv'
  BY <1>4 DEF WaitLive, Goto, TypeOK, HistoryInv
<1>5. ASSUME NEW p \in Procs, Record(p) PROVE HistoryInv'
  <2>1. /\ \A q \in Procs \ {p} : mem'[q] = mem[q]
        /\ \A e \in mem'[p] : e.by # p => e \in mem[p]
    BY <1>5, RecordedEvents
  <2>2. mem[p] \subseteq log /\ log' = log /\ file'.events = {}
    BY <1>5 DEF Record, Goto, HistoryInv
  <2>3. pc'[p] = "write" /\ \A q \in Procs \ {p} : pc'[q] = pc[q]
    BY <1>5 DEF Record, Goto, TypeOK
  <2>4. QED
    BY <2>1, <2>2, <2>3 DEF HistoryInv
<1>6. ASSUME NEW p \in Procs, Write(p) PROVE HistoryInv'
  <2>1. /\ log' = log \cup {e \in mem[p] : e.by = p}
        /\ file'.readable => file'.events = mem[p]
        /\ ~file'.readable => file'.events = {}
    BY <1>6, WrittenEvents
  <2>2. {e \in mem[p] : e.by # p} \subseteq log /\ mem' = mem
    BY <1>6 DEF Write, Goto, HistoryInv
  <2>3. file'.events \subseteq log'
    BY <2>1, <2>2
  <2>4. pc'[p] = "done" /\ \A q \in Procs \ {p} : pc'[q] = pc[q]
    BY <1>6 DEF Write, Goto, TypeOK
  <2>5. QED
    BY <2>1, <2>2, <2>3, <2>4 DEF HistoryInv
<1>7. ASSUME NEW p \in Procs, RecordFails(p) PROVE HistoryInv'
  BY <1>7 DEF RecordFails, Goto, TypeOK, HistoryInv
<1>8. ASSUME NEW p \in Procs, Crash(p) PROVE HistoryInv'
  BY <1>8 DEF Crash, TypeOK, HistoryInv
<1>9. ASSUME Tick PROVE HistoryInv'
  BY <1>9 DEF Tick, HistoryInv
<1>10. ASSUME UNCHANGED vars PROVE HistoryInv'
  BY <1>10 DEF vars, HistoryInv
<1>11. QED
  BY <1>1, <1>2, <1>3, <1>4, <1>5, <1>6, <1>7, <1>8, <1>9, <1>10 DEF Next

\* Who enters a state after the guard has been consulted comes from CheckGuard.
LEMMA GuardDecides ==
  ASSUME TypeOK, [Next]_vars, NEW p \in Procs, NEW to \in {"exec", "blocked"},
         Enters(p, to)
  PROVE  /\ pc[p] = "check" /\ log' = log /\ now' = now
         /\ to = "blocked" <=> Cardinality(Failures(mem[p])) >= Limit
<1> USE DEF Enters, TypeOK, Goto
<1>1. CheckGuard(p)
  <2>1. ASSUME NEW q \in Procs, Load(q) PROVE FALSE
    BY <2>1 DEF Load
  <2>2. ASSUME NEW q \in Procs, CheckGuard(q) PROVE q = p
    BY <2>2 DEF CheckGuard
  <2>3. ASSUME NEW q \in Procs, Exec(q) PROVE FALSE
    BY <2>3 DEF Exec
  <2>4. ASSUME NEW q \in Procs, WaitLive(q) PROVE FALSE
    BY <2>4 DEF WaitLive
  <2>5. ASSUME NEW q \in Procs, Record(q) PROVE FALSE
    BY <2>5 DEF Record
  <2>6. ASSUME NEW q \in Procs, Write(q) PROVE FALSE
    BY <2>6 DEF Write
  <2>7. ASSUME NEW q \in Procs, RecordFails(q) PROVE FALSE
    BY <2>7 DEF RecordFails
  <2>8. ASSUME NEW q \in Procs, Crash(q) PROVE FALSE
    BY <2>8 DEF Crash
  <2>9. ASSUME Tick PROVE FALSE
    BY <2>9 DEF Tick
  <2>10. ASSUME UNCHANGED vars PROVE FALSE
    BY <2>10 DEF vars
  <2>11. QED
    BY <2>1, <2>2, <2>3, <2>4, <2>5, <2>6, <2>7, <2>8, <2>9, <2>10 DEF Next
<1>2. QED
  BY <1>1 DEF CheckGuard

\* The guard blocks a spawn only on three recorded failures, however the
\* attempts of processes overlap and fail (spawn_guard.go, CheckGuard).
THEOREM BlocksSoundly == Spec => BlocksOnFailures
<1> DEFINE Inv == TypeOK /\ FiniteInv /\ HistoryInv
<1>1. Init => Inv
  <2>1. Init => HistoryInv
    BY DEF Init, HistoryInv
  <2>2. QED
    BY <2>1, TypeInit
<1>2. Inv /\ [Next]_vars => Inv'
  BY TypeStep, HistoryStep
<1>3. Inv /\ [Next]_vars =>
        [\A p \in Procs : Enters(p, "blocked") => Cardinality(Failures(log)) >= Limit]_vars
  <2> SUFFICES ASSUME Inv, [Next]_vars, NEW p \in Procs, Enters(p, "blocked")
               PROVE  Cardinality(Failures(log)) >= Limit
    OBVIOUS
  <2>1. pc[p] = "check" /\ Cardinality(Failures(mem[p])) >= Limit
    BY GuardDecides
  <2>2. mem[p] \subseteq log
    BY <2>1 DEF HistoryInv
  <2>3. Failures(mem[p]) \in SUBSET Failures(log) /\ Failures(log) \in SUBSET log
    BY <2>2 DEF Failures
  <2>4. IsFiniteSet(Failures(log)) /\ IsFiniteSet(Failures(mem[p]))
    BY <2>3, FS_Subset DEF FiniteInv
  <2>5. /\ Cardinality(Failures(mem[p])) <= Cardinality(Failures(log))
        /\ Cardinality(Failures(mem[p])) \in Nat /\ Cardinality(Failures(log)) \in Nat
    BY <2>3, <2>4, FS_Subset, FS_CardinalityType
  <2>6. QED
    BY <2>1, <2>5 DEF Limit
<1>4. QED
  BY <1>1, <1>2, <1>3, PTL DEF Spec, BlocksOnFailures

----------------------------------------------------------------------------
(* Attempts that follow one another lose nothing.                          *)

\* Attempts that have overlapped stay so.
LEMMA OverlapStays == [Next]_vars /\ overlapped => overlapped'
  BY DEF Next, vars, Load, CheckGuard, Exec, WaitLive, Record, Write, RecordFails, Crash, Tick

LEMMA NothingLostStep ==
  TypeOK /\ FiniteInv /\ NothingLost /\ [Next]_vars => NothingLost'
<1> SUFFICES ASSUME TypeOK, FiniteInv, NothingLost, [Next]_vars, ~overlapped'
             PROVE  NothingLost'
  BY DEF NothingLost
<1>0. ~overlapped
  BY OverlapStays
<1> USE DEF Active, Fresh
<1>1. ASSUME NEW p \in Procs, Load(p) PROVE NothingLost'
  BY <1>1 DEF Load, Goto, TypeOK, NothingLost
<1>2. ASSUME NEW p \in Procs, CheckGuard(p) PROVE NothingLost'
  BY <1>2 DEF CheckGuard, Goto, TypeOK, NothingLost
<1>3. ASSUME NEW p \in Procs, Exec(p) PROVE NothingLost'
  BY <1>3 DEF Exec, Goto, TypeOK, NothingLost
<1>4. ASSUME NEW p \in Procs, WaitLive(p) PROVE NothingLost'
  BY <1>4 DEF WaitLive, Goto, TypeOK, NothingLost
<1>5. ASSUME NEW p \in Procs, Record(p) PROVE NothingLost'
  <2>1. \A e \in mem[p] : e.at > now - Keep => e \in mem'[p]
    BY <1>5, RecordedEvents
  <2>2. /\ pc[p] = "record" /\ pc' = [pc EXCEPT ![p] = "write"]
        /\ log' = log /\ now' = now /\ ~file'.readable
    BY <1>5 DEF Record, Goto
  <2>3. \A q \in Procs : pc[q] \in Active => q = p
    BY <1>0, <2>2 DEF NothingLost
  <2>4. Fresh(log) \subseteq mem'[p]
    BY <1>0, <2>1, <2>2 DEF NothingLost
  <2>5. QED
    BY <2>2, <2>3, <2>4 DEF TypeOK, NothingLost
<1>6. ASSUME NEW p \in Procs, Write(p) PROVE NothingLost'
  <2>1. /\ log' = log \cup {e \in mem[p] : e.by = p}
        /\ file'.readable => file'.events = mem[p]
    BY <1>6, WrittenEvents
  <2>2. /\ pc[p] = "write" /\ pc' = [pc EXCEPT ![p] = "done"]
        /\ mem' = mem /\ now' = now
    BY <1>6 DEF Write, Goto
  <2>3. \A q \in Procs : pc[q] \in Active => q = p
    BY <1>0, <2>2 DEF NothingLost
  <2>4. Fresh(log) \subseteq mem[p]
    BY <1>0, <2>2 DEF NothingLost
  <2>5. Fresh(log)' \subseteq mem[p]
    BY <2>1, <2>2, <2>4
  <2>6. \A q \in Procs : pc'[q] \notin Active
    BY <2>2, <2>3 DEF TypeOK
  <2>7. QED
    BY <2>1, <2>5, <2>6 DEF NothingLost
<1>7. ASSUME NEW p \in Procs, RecordFails(p) PROVE NothingLost'
  BY <1>7 DEF RecordFails, Goto, TypeOK, NothingLost
<1>8. ASSUME NEW p \in Procs, Crash(p) PROVE NothingLost'
  BY <1>8 DEF Crash, TypeOK, NothingLost
<1>9. ASSUME Tick PROVE NothingLost'
  <2>1. log \subseteq Events /\ now \in Int /\ Keep \in Int
    BY SpawnAssumption DEF SpawnAssumption, TypeOK
  <2>2. \A e \in log : e.at \in Int
    BY <2>1, SpawnAssumption DEF Events
  <2>3. log' = log /\ now' = now + 1
    BY <1>9 DEF Tick
  <2>4. Fresh(log)' \subseteq Fresh(log)
    BY <2>1, <2>2, <2>3
  <2>5. QED
    BY <1>9, <2>4 DEF Tick, NothingLost
<1>10. ASSUME UNCHANGED vars PROVE NothingLost'
  BY <1>10 DEF vars, NothingLost
<1>11. QED
  BY <1>1, <1>2, <1>3, <1>4, <1>5, <1>6, <1>7, <1>8, <1>9, <1>10 DEF Next

\* When attempts follow one another, no daemon is spawned on three recorded
\* failures within the window, even if writes fail and processes are killed
\* (spawn_guard.go, CheckGuard and Record).
THEOREM GuardWorks == Spec => GuardCounts
<1> DEFINE Inv == TypeOK /\ FiniteInv /\ NothingLost
<1>1. Init => Inv
  <2>1. Init => NothingLost
    BY DEF Init, NothingLost, Active, Fresh
  <2>2. QED
    BY <2>1, TypeInit
<1>2. Inv /\ [Next]_vars => Inv'
  BY TypeStep, NothingLostStep
<1>3. Inv /\ [Next]_vars =>
        [\A p \in Procs : Enters(p, "exec") =>
             overlapped \/ Cardinality(Failures(log)) < Limit]_vars
  <2> SUFFICES ASSUME Inv, [Next]_vars, NEW p \in Procs, Enters(p, "exec"), ~overlapped
               PROVE  Cardinality(Failures(log)) < Limit
    OBVIOUS
  <2>1. pc[p] = "check" /\ ~(Cardinality(Failures(mem[p])) >= Limit)
    BY GuardDecides
  <2>2. Fresh(log) \subseteq mem[p]
    BY <2>1 DEF NothingLost, Active
  <2>3. log \subseteq Events /\ now \in Int
    BY DEF TypeOK
  <2>4. \A e \in log : e.at \in Int
    BY <2>3, SpawnAssumption DEF Events, SpawnAssumption
  <2>5. \A e \in log : e.at > now - Window => e.at > now - Keep
    BY <2>3, <2>4, SpawnAssumption DEF SpawnAssumption
  <2>6. Failures(log) \in SUBSET Failures(mem[p]) /\ Failures(mem[p]) \in SUBSET mem[p]
    BY <2>2, <2>5 DEF Failures, Fresh
  <2>7. IsFiniteSet(Failures(mem[p])) /\ IsFiniteSet(Failures(log))
    BY <2>6, FS_Subset DEF FiniteInv
  <2>8. /\ Cardinality(Failures(log)) <= Cardinality(Failures(mem[p]))
        /\ Cardinality(Failures(mem[p])) \in Nat /\ Cardinality(Failures(log)) \in Nat
    BY <2>6, <2>7, FS_Subset, FS_CardinalityType
  <2>9. QED
    BY <2>1, <2>8 DEF Limit
<1>4. QED
  BY <1>1, <1>2, <1>3, PTL DEF Spec, GuardCounts

LEMMA FileWholeStep ==
  TypeOK /\ FiniteInv /\ NothingLost /\ FileWhole /\ [Next]_vars => FileWhole'
<1> SUFFICES ASSUME TypeOK, FiniteInv, NothingLost, FileWhole, [Next]_vars,
                    ~overlapped', \A q \in Procs : pc'[q] \notin Broken
             PROVE  FileWhole'
  BY DEF FileWhole
<1>0. ~overlapped
  BY OverlapStays
<1> USE DEF TypeOK, Goto
<1>1. ASSUME NEW p \in Procs, Load(p) PROVE FileWhole'
  BY <1>1 DEF Load, FileWhole, Active
<1>2. ASSUME NEW p \in Procs, CheckGuard(p) PROVE FileWhole'
  BY <1>2 DEF CheckGuard, FileWhole
<1>3. ASSUME NEW p \in Procs, Exec(p) PROVE FileWhole'
  BY <1>3 DEF Exec, FileWhole
<1>4. ASSUME NEW p \in Procs, WaitLive(p) PROVE FileWhole'
  BY <1>4 DEF WaitLive, FileWhole
<1>5. ASSUME NEW p \in Procs, Record(p) PROVE FileWhole'
  <2>1. mem'[p] # {} /\ \A q \in Procs \ {p} : mem'[q] = mem[q]
    BY <1>5, RecordedEvents
  <2>2. QED
    BY <1>5, <2>1 DEF Record, FileWhole
<1>6. ASSUME NEW p \in Procs, Write(p) PROVE FileWhole'
  <2>1. pc[p] = "write" /\ pc' = [pc EXCEPT ![p] = "done"]
    BY <1>6 DEF Write
  <2>2. file.size = 0 /\ mem[p] # {}
    BY <1>0, <2>1 DEF FileWhole
  <2>3. file'.readable
    BY <1>6, <2>2, WrittenEvents
  <2>4. \A q \in Procs : pc'[q] # "write"
    BY <1>0, <2>1 DEF NothingLost, Active
  <2>5. QED
    BY <2>3, <2>4 DEF FileWhole
<1>7. ASSUME NEW p \in Procs, RecordFails(p) \/ Crash(p) PROVE FALSE
  BY <1>7 DEF RecordFails, Crash
<1>8. ASSUME Tick PROVE FileWhole'
  BY <1>8 DEF Tick, FileWhole
<1>9. ASSUME UNCHANGED vars PROVE FileWhole'
  BY <1>9 DEF vars, FileWhole
<1>10. QED
  BY <1>1, <1>2, <1>3, <1>4, <1>5, <1>6, <1>7, <1>8, <1>9 DEF Next

\* When attempts follow one another and no write fails, no attempt finds the
\* history unreadable, so the guard opens again when its window has passed
\* (spawn_guard.go, NewSpawnHistory and Record).
THEOREM StaysReadable == Spec => HistoryReadable
<1> DEFINE Inv == TypeOK /\ FiniteInv /\ NothingLost /\ FileWhole
<1>1. Init => Inv
  <2>1. Init => NothingLost /\ FileWhole
    BY DEF Init, NothingLost, FileWhole, Active, Fresh
  <2>2. QED
    BY <2>1, TypeInit
<1>2. Inv /\ [Next]_vars => Inv'
  BY TypeStep, NothingLostStep, FileWholeStep
<1>3. Inv /\ [Next]_vars =>
        [\A p \in Procs : Enters(p, "unreadable") =>
             overlapped' \/ \E q \in Procs : pc[q] \in Broken]_vars
  <2> SUFFICES ASSUME Inv, [Next]_vars, NEW p \in Procs, Enters(p, "unreadable"),
                      \A q \in Procs : pc[q] \notin Broken
               PROVE  overlapped'
    OBVIOUS
  <2>1. ~file.readable /\ overlapped' = (overlapped \/ \E q \in Procs : pc[q] \in Active)
    BY DEF Next, vars, Enters, Goto, TypeOK, Load, CheckGuard, Exec, WaitLive, Record,
           Write, RecordFails, Crash, Tick
  <2>2. QED
    BY <2>1 DEF FileWhole, Active
<1>4. QED
  BY <1>1, <1>2, <1>3, PTL DEF Spec, HistoryReadable

=============================================================================

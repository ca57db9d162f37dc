----------------------------- MODULE SpawnGuard -----------------------------
(***************************************************************************)
(* The crash-loop guard of autospawning: processes that find no daemon     *)
(* call Autospawn (internal/supervisor/autospawn.go), which consults and   *)
(* extends spawn-history.json (spawn_guard.go).  The mutex of SpawnHistory *)
(* is local to a process; the file is shared without a lock.               *)
(*                                                                         *)
(* A process autospawns at most once (client_singleton.go).  Events are    *)
(* identified with their writers; JSON is abstracted to what an overlapping*)
(* write makes of it: readable or not, and how many events long.           *)
(***************************************************************************)
EXTENDS Integers, FiniteSets

CONSTANTS
    Procs,       \* processes that autospawn
    Window,      \* ticks within which CheckGuard counts failures (10s)
    Keep,        \* ticks after which Record prunes events (60s)
    MaxTime      \* bound: the clock stops here

Limit == 3

ASSUME SpawnAssumption ==
    /\ IsFiniteSet(Procs)
    /\ Window \in Nat
    /\ Keep \in Nat
    /\ Window <= Keep
    /\ MaxTime \in Nat

VARIABLES
    pc,      \* where each process is in Autospawn
    mem,     \* SpawnHistory.events of each process
    failed,  \* the exit code a process is about to record is not zero
    file,    \* spawn-history.json
    now,     \* the clock
    log,     \* history: the events whose Record has returned nil
    overlapped  \* history: has an attempt begun while another was under way?

history == <<log, overlapped>>
vars == <<pc, mem, failed, file, now, history>>

Events == [by : Procs, at : 0 .. MaxTime, failed : BOOLEAN]
Files == [events : SUBSET Events, readable : BOOLEAN, size : Nat]

Active == {"check", "exec", "watch", "record", "write"}
Broken == {"unrecorded", "killed"}
Over == {"unreadable", "blocked", "done"} \cup Broken

TypeOK ==
    /\ pc \in [Procs -> {"off"} \cup Active \cup Over]
    /\ mem \in [Procs -> SUBSET Events]
    /\ failed \in [Procs -> BOOLEAN]
    /\ file \in Files
    /\ now \in 0 .. MaxTime
    /\ log \in SUBSET Events
    /\ overlapped \in BOOLEAN

\* A missing file is an empty history.
Init ==
    /\ pc = [p \in Procs |-> "off"]
    /\ mem = [p \in Procs |-> {}]
    /\ failed = [p \in Procs |-> FALSE]
    /\ file = [events |-> {}, readable |-> TRUE, size |-> 0]
    /\ now = 0
    /\ log = {}
    /\ overlapped = FALSE

Failures(S) == {e \in S : e.failed /\ e.at > now - Window}

Goto(p, from, to) == pc[p] = from /\ pc' = [pc EXCEPT ![p] = to]

----------------------------------------------------------------------------

\* NewSpawnHistory: an unreadable file ends the attempt.
Load(p) ==
    /\ Goto(p, "off", IF file.readable THEN "check" ELSE "unreadable")
    /\ mem' = [mem EXCEPT ![p] = IF file.readable THEN file.events ELSE {}]
    /\ overlapped' = (overlapped \/ \E q \in Procs : pc[q] \in Active)
    /\ UNCHANGED <<failed, file, log, now>>

\* Mutant: the limit is off by one.
CheckGuardLate(p) ==
    /\ Goto(p, "check", IF Cardinality(Failures(mem[p])) > Limit THEN "blocked" ELSE "exec")
    /\ UNCHANGED <<mem, failed, file, now, history>>

CheckGuard(p) ==
    /\ Goto(p, "check", IF Cardinality(Failures(mem[p])) >= Limit THEN "blocked" ELSE "exec")
    /\ UNCHANGED <<mem, failed, file, now, history>>

\* detachedExecFn forks a daemon, or fails.
Exec(p) ==
    /\ \/ Goto(p, "exec", "watch") /\ UNCHANGED failed
       \/ Goto(p, "exec", "record") /\ failed' = [failed EXCEPT ![p] = TRUE]
    /\ UNCHANGED <<mem, file, now, history>>

\* waitLive: the daemon became reachable in time, or not.
WaitLive(p) ==
    /\ Goto(p, "watch", "record")
    /\ \E live \in BOOLEAN : failed' = [failed EXCEPT ![p] = ~live]
    /\ UNCHANGED <<mem, file, now, history>>

\* Record prunes, appends and lets os.WriteFile truncate the file ...
Record(p) ==
    /\ Goto(p, "record", "write")
    /\ mem' = [mem EXCEPT ![p] = {e \in mem[p] : e.at > now - Keep}
                                   \cup {[by |-> p, at |-> now, failed |-> failed[p]]}]
    /\ file' = [events |-> {}, readable |-> FALSE, size |-> 0]
    /\ UNCHANGED <<failed, now, history>>

\* Mutant: the file is left truncated.
WriteNothing(p) ==
    /\ Goto(p, "write", "done")
    /\ log' = log \cup {e \in mem[p] : e.by = p}
    /\ UNCHANGED <<mem, failed, file, now, overlapped>>

\* ... and write from offset 0.  If another process has written since the
\* truncation, the tail of what it wrote survives a shorter text (texts of
\* equally many events differ in length by a few digits of a time stamp).
Write(p) ==
    /\ Goto(p, "write", "done")
    /\ LET n == Cardinality(mem[p])
       IN \E r \in BOOLEAN :
            /\ n > file.size => r
            /\ n < file.size => ~r
            /\ file' = [events   |-> IF r THEN mem[p] ELSE {},
                        readable |-> r,
                        size     |-> IF r THEN n ELSE file.size]
    /\ log' = log \cup {e \in mem[p] : e.by = p}
    /\ UNCHANGED <<mem, failed, now, overlapped>>

\* The error of Record is dropped: the file could not be opened, or it is
\* left truncated.
RecordFails(p) ==
    /\ \/ Goto(p, "record", "unrecorded")
       \/ Goto(p, "write", "unrecorded")
    /\ UNCHANGED <<mem, failed, file, now, history>>

\* The process is killed; a truncated file stays as it is.
Crash(p) ==
    /\ pc[p] \in Active
    /\ pc' = [pc EXCEPT ![p] = "killed"]
    /\ UNCHANGED <<mem, failed, file, now, history>>

Tick ==
    /\ now < MaxTime
    /\ now' = now + 1
    /\ UNCHANGED <<pc, mem, failed, file, history>>

Next ==
    \/ \E p \in Procs :
         \/ Load(p) \/ CheckGuard(p) \/ Exec(p) \/ WaitLive(p)
         \/ Record(p) \/ Write(p) \/ RecordFails(p) \/ Crash(p)
    \/ Tick

Spec == Init /\ [][Next]_vars

----------------------------------------------------------------------------
(* Properties.                                                             *)

Enters(p, to) == pc[p] # to /\ pc'[p] = to

\* As long as attempts follow one another, no daemon is spawned while three
\* failures or more have been recorded within the window, by whichever
\* processes, and even when writes fail and processes die (spawn_guard.go,
\* CheckGuard and Record).
GuardCounts ==
    [][\A p \in Procs : Enters(p, "exec") =>
           overlapped \/ Cardinality(Failures(log)) < Limit]_vars

\* The guard blocks a spawn only on three recorded failures: no event is
\* counted twice or invented, however the writes of processes overlap, even
\* when writes fail and processes die.
BlocksOnFailures ==
    [][\A p \in Procs : Enters(p, "blocked") => Cardinality(Failures(log)) >= Limit]_vars

\* An attempt finds the history unreadable only if attempts have overlapped,
\* a write has failed or a process was killed: otherwise the guard opens again
\* when its window has passed and does not refuse for ever
\* (spawn_guard_test.go, TestSpawnGuard_AllowsAfterWindowExpires and
\* TestSpawnGuard_PersistsAcrossInstances).
HistoryReadable ==
    [][\A p \in Procs : Enters(p, "unreadable") =>
           overlapped' \/ \E q \in Procs : pc[q] \in Broken]_vars

\* The same without the condition that attempts follow one another, which the
\* comments of spawn_guard.go do not make.
CountsUnderOverlap ==
    [][\A p \in Procs : Enters(p, "exec") => Cardinality(Failures(log)) < Limit]_vars

ReadableUnderOverlap ==
    [][\A p \in Procs : Enters(p, "unreadable") =>
           \E q \in Procs : pc[q] \in Active \cup Broken]_vars

\* Why: what a process has loaded or left in the file has been recorded.
HistoryInv ==
    /\ file.events \subseteq log
    /\ \A p \in Procs :
         /\ pc[p] \in {"check", "exec", "watch", "record"} => mem[p] \subseteq log
         /\ pc[p] = "write" => {e \in mem[p] : e.by # p} \subseteq log

\* Attempts that follow one another lose no event that is younger than Keep ...
Fresh(S) == {e \in S : e.at > now - Keep}

NothingLost ==
    ~overlapped =>
      /\ \A p, q \in Procs : pc[p] \in Active /\ pc[q] \in Active => p = q
      /\ file.readable => Fresh(log) \subseteq file.events
      /\ \A p \in Procs : pc[p] \in Active => Fresh(log) \subseteq mem[p]

\* ... and leave the file truncated only while they write it.
FileWhole ==
    ~overlapped /\ (\A p \in Procs : pc[p] \notin Broken) =>
      /\ \A p \in Procs : pc[p] = "write" => file.size = 0 /\ mem[p] # {}
      /\ file.readable \/ \E p \in Procs : pc[p] = "write"

=============================================================================

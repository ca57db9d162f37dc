--------------------------- MODULE AnalysisStore ---------------------------
(***************************************************************************)
(* The persistent cache of analysis results (pkg/store): one directory per *)
(* entry and one index, cache.json, that lists them.  Processes (the CLI,  *)
(* the daemon, MCP servers) share both; the mutex of a Store is local to   *)
(* its process.  The beautify cache patches the index from outside         *)
(* (pkg/knowledge/cache.go).                                               *)
(*                                                                         *)
(* Files follow POSIX: a process writes to the file it has opened, whatever*)
(* name that file has by then.  The text of an index is abstracted to what *)
(* an overlapping write makes of it: readable or not, and how many entries *)
(* long.                                                                   *)
(***************************************************************************)
EXTENDS Integers, FiniteSets

CONSTANTS
    Procs,       \* processes
    Ids,         \* bound: entry ids newUUIDv7 may issue
    Legacy,      \* ids with a directory of the flat layout, listed or stray
    None,
    Grace,       \* DefaultOrphanGrace, in ticks
    MaxTime,     \* bound: the clock stops here
    Sequential,  \* do operations follow one another?
    Faults,      \* may a process be killed, may a step fail?
    Patches      \* does the beautify cache patch the index?

ASSUME StoreAssumption ==
    /\ IsFiniteSet(Ids)
    /\ Legacy \subseteq Ids
    /\ None \notin Ids
    /\ Grace \in Nat \ {0}
    /\ MaxTime \in Nat
    /\ Sequential \in BOOLEAN
    /\ Faults \in BOOLEAN
    /\ Patches \in BOOLEAN

VARIABLES
    dir,        \* the entry directories, in either layout: being written, whole,
                \* or cut short by a removal
    index,      \* the file named cache.json
    tmp,        \* the file named cache.json.tmp
    issued,     \* ids that have been issued
    born,       \* the time in an id
    now,        \* the clock
    pc,         \* where each process is
    job,        \* its operation
    own,        \* the id of its Put
    mem,        \* the entries it is about to write
    todo,       \* directories it has still to visit
    fd,         \* which file it writes to
    committed,  \* history: ids whose Put has succeeded, or listed from the start
    dropped     \* history: ids that Delete or Prune was to remove

disk == <<dir, index, tmp>>
clock == <<issued, born, now>>
procVars == <<pc, job, own, mem, todo, fd>>
history == <<committed, dropped>>
vars == <<disk, clock, procVars, history>>

\* An entry of the index is its id and the layout of its CacheDir.
Places == Ids \X {"flat", "shard"}
Texts == [entries : SUBSET Places, readable : BOOLEAN, size : Nat]
Truncated == [entries |-> {}, readable |-> FALSE, size |-> 0]
NoFile == [entries |-> {}, readable |-> TRUE, size |-> 0]

Steps == {"idle", "data", "read", "remove", "collect", "gc", "migrate",
          "open", "write", "rename", "clean", "list", "patch"}
Jobs == {"none", "put", "delete", "reconcile", "patch"}

TypeOK ==
    /\ dir \in [Places -> {"none", "part", "full", "cut"}]
    /\ index \in Texts
    /\ tmp \in Texts \cup {None}
    /\ issued \subseteq Ids
    /\ born \in [Ids -> Nat]
    /\ now \in Nat
    /\ pc \in [Procs -> Steps]
    /\ job \in [Procs -> Jobs]
    /\ own \in [Procs -> Ids \cup {None}]
    /\ mem \in [Procs -> SUBSET Places]
    /\ todo \in [Procs -> SUBSET Places]
    /\ fd \in [Procs -> {"none", "tmp", "index", "gone"}]
    /\ committed \subseteq Ids
    /\ dropped \subseteq Ids

\* A missing index is an empty one.  Of the legacy directories some are
\* listed, the others are strays of runs that were interrupted.
Init ==
    /\ dir = [e \in Places |-> IF e[1] \in Legacy /\ e[2] = "flat" THEN "full" ELSE "none"]
    /\ committed \in SUBSET Legacy
    /\ index = [entries |-> committed \X {"flat"}, readable |-> TRUE,
                size |-> Cardinality(committed)]
    /\ tmp = None
    /\ issued = Legacy
    /\ born = [i \in Ids |-> 0]
    /\ now = 0
    /\ pc = [p \in Procs |-> "idle"]
    /\ job = [p \in Procs |-> "none"]
    /\ own = [p \in Procs |-> None]
    /\ mem = [p \in Procs |-> {}]
    /\ todo = [p \in Procs |-> {}]
    /\ fd = [p \in Procs |-> "none"]
    /\ dropped = {}

----------------------------------------------------------------------------

Goto(p, from, to) == pc[p] = from /\ pc' = [pc EXCEPT ![p] = to]
Starts(p, kind, to) ==
    /\ Sequential => \A q \in Procs : pc[q] = "idle"
    /\ Goto(p, "idle", to)
    /\ job' = [job EXCEPT ![p] = kind]
Holds(p, entries) == mem' = [mem EXCEPT ![p] = entries]
Visits(p, places) == todo' = [todo EXCEPT ![p] = places]
Opens(p, file) == fd' = [fd EXCEPT ![p] = file]

\* The operation is over, its variables are gone.
Returns(p) ==
    /\ pc' = [pc EXCEPT ![p] = "idle"]
    /\ job' = [job EXCEPT ![p] = "none"]
    /\ own' = [own EXCEPT ![p] = None]
    /\ Holds(p, {})
    /\ Visits(p, {})

(* Put.                                                                    *)

\* A fresh id and its directory.
Put(p, i) ==
    /\ Starts(p, "put", "data")
    /\ i \notin issued
    /\ issued' = issued \cup {i}
    /\ born' = [born EXCEPT ![i] = now]
    /\ own' = [own EXCEPT ![p] = i]
    /\ dir' = [dir EXCEPT ![<<i, "shard">>] = "part"]
    /\ UNCHANGED <<index, tmp, now, mem, todo, fd, history>>

\* Mutant: the files are written once the entry is listed.
WriteDataLater(p) ==
    /\ Goto(p, "data", "read")
    /\ UNCHANGED <<disk, clock, job, own, mem, todo, fd, history>>

\* The data files are written, the source is hashed.
WriteData(p) ==
    /\ Goto(p, "data", "read")
    /\ dir' = [dir EXCEPT ![<<own[p], "shard">>] = "full"]
    /\ UNCHANGED <<index, tmp, clock, job, own, mem, todo, fd, history>>

AddEntry(p) ==
    /\ index.readable
    /\ Goto(p, "read", "open")
    /\ Holds(p, index.entries \cup {<<own[p], "shard">>})
    /\ UNCHANGED <<disk, clock, job, own, todo, fd, history>>

(* Delete, Prune.                                                          *)

\* The entries go from the index last.
RemoveEntries(p, gone) ==
    /\ Starts(p, "delete", "remove")
    /\ index.readable
    /\ Holds(p, index.entries \ gone)
    /\ Visits(p, gone)
    /\ dropped' = dropped \cup {e[1] : e \in gone}
    /\ UNCHANGED <<disk, clock, own, fd, committed>>

Delete(p, i) ==
    LET gone == {e \in index.entries : e[1] = i}
    IN gone # {} /\ RemoveEntries(p, gone)

Prune(p, cutoff) == RemoveEntries(p, {e \in index.entries : born[e[1]] < cutoff})

\* os.RemoveAll, whose error nobody looks at.
RemoveDir(p, e) ==
    /\ pc[p] \in {"remove", "gc"}
    /\ e \in todo[p]
    /\ \/ dir' = [dir EXCEPT ![e] = "none"]
       \/ Faults /\ dir[e] # "none" /\ dir' = [dir EXCEPT ![e] = "cut"]
       \/ Faults /\ UNCHANGED dir
    /\ Visits(p, todo[p] \ {e})
    /\ UNCHANGED <<index, tmp, clock, pc, job, own, mem, fd, history>>

RemoveEnds(p) ==
    /\ todo[p] = {}
    /\ Goto(p, "remove", "open")
    /\ UNCHANGED <<disk, clock, job, own, mem, todo, fd, history>>

\* readIndex refuses an index that cannot be parsed: every operation gives up.
Refuse(p) ==
    /\ ~index.readable
    /\ pc[p] \in {"idle", "read", "collect", "list"}
    /\ Returns(p)
    /\ UNCHANGED <<disk, clock, fd, history>>

(* Reconcile.                                                              *)

Reconcile(p) ==
    /\ Starts(p, "reconcile", "collect")
    /\ index.readable
    /\ Holds(p, index.entries)
    /\ UNCHANGED <<disk, clock, own, todo, fd, history>>

\* Mutant: no grace.
CollectYoung(p) ==
    /\ index.readable
    /\ Goto(p, "collect", "gc")
    /\ Visits(p, {e \in Places :
                    /\ dir[e] # "none"
                    /\ \A f \in index.entries : f[1] # e[1]})
    /\ UNCHANGED <<disk, clock, job, own, mem, fd, history>>

\* Mutant: a directory is listed only under the path of its entry.
CollectByPath(p) ==
    /\ index.readable
    /\ Goto(p, "collect", "gc")
    /\ Visits(p, {e \in Places :
                    /\ dir[e] # "none"
                    /\ e \notin index.entries
                    /\ born[e[1]] + Grace <= now})
    /\ UNCHANGED <<disk, clock, job, own, mem, fd, history>>

\* gcOrphansLocked reads the index again: directories that it does not list,
\* under whatever path, and that are older than the grace period, go.
Collect(p) ==
    /\ index.readable
    /\ Goto(p, "collect", "gc")
    /\ Visits(p, {e \in Places :
                    /\ dir[e] # "none"
                    /\ \A f \in index.entries : f[1] # e[1]
                    /\ born[e[1]] + Grace <= now})
    /\ UNCHANGED <<disk, clock, job, own, mem, fd, history>>

CollectEnds(p) ==
    /\ todo[p] = {}
    /\ Goto(p, "gc", "migrate")
    /\ Visits(p, {e \in mem[p] : e[2] = "flat"})
    /\ UNCHANGED <<disk, clock, job, own, mem, fd, history>>

Sharded(e) == <<e[1], "shard">>
Relocated(p, e) == (mem[p] \ {e}) \cup {Sharded(e)}

\* Mutant: a directory that an interrupted run has moved is not adopted.
MoveOnly(p, e) ==
    /\ pc[p] = "migrate"
    /\ e \in todo[p]
    /\ IF dir[e] # "none"
       THEN /\ dir' = [dir EXCEPT ![Sharded(e)] = dir[e], ![e] = "none"]
            /\ Holds(p, Relocated(p, e))
       ELSE UNCHANGED <<dir, mem>>
    /\ Visits(p, todo[p] \ {e})
    /\ UNCHANGED <<index, tmp, clock, pc, job, own, fd, history>>

\* One entry of the flat layout: adopt the directory an interrupted run has
\* moved, or move it, or leave an entry without data alone.
Migrate(p, e) ==
    /\ pc[p] = "migrate"
    /\ e \in todo[p]
    /\ IF dir[Sharded(e)] # "none"
       THEN /\ dir' = [dir EXCEPT ![e] = "none"]
            /\ Holds(p, Relocated(p, e))
       ELSE IF dir[e] # "none"
       THEN /\ dir' = [dir EXCEPT ![Sharded(e)] = dir[e], ![e] = "none"]
            /\ Holds(p, Relocated(p, e))
       ELSE UNCHANGED <<dir, mem>>
    /\ Visits(p, todo[p] \ {e})
    /\ UNCHANGED <<index, tmp, clock, pc, job, own, fd, history>>

\* The move fails: the entry is skipped.
MigrateFails(p, e) ==
    /\ Faults
    /\ pc[p] = "migrate"
    /\ e \in todo[p]
    /\ dir[e] # "none" /\ dir[Sharded(e)] = "none"
    /\ Visits(p, todo[p] \ {e})
    /\ UNCHANGED <<disk, clock, pc, job, own, mem, fd, history>>

MigrateEnds(p) ==
    /\ todo[p] = {}
    /\ Goto(p, "migrate", "open")
    /\ UNCHANGED <<disk, clock, job, own, mem, todo, fd, history>>

(* writeIndex.                                                             *)

\* os.WriteFile of cache.json.tmp truncates the file, or creates it, ...
OpenTmp(p) ==
    /\ Goto(p, "open", "write")
    /\ tmp' = Truncated
    /\ Opens(p, "tmp")
    /\ UNCHANGED <<dir, index, clock, job, own, mem, todo, history>>

\* What a file that holds old may hold after the entries are written at
\* offset 0: the tail of a longer text survives, and texts of equally many
\* entries differ in length.
Overwritten(old, entries) ==
    LET n == Cardinality(entries)
        whole == [entries |-> entries, readable |-> TRUE, size |-> n]
        torn == [entries |-> {}, readable |-> FALSE, size |-> old.size]
    IN  (IF n >= old.size THEN {whole} ELSE {}) \cup (IF n <= old.size /\ old.size # 0 THEN {torn} ELSE {})

\* ... and writes, wherever the file has got to.
Write(p) ==
    /\ CASE fd[p] = "tmp"   -> tmp' \in Overwritten(tmp, mem[p]) /\ UNCHANGED index
         [] fd[p] = "index" -> index' \in Overwritten(index, mem[p]) /\ UNCHANGED tmp
         [] OTHER           -> UNCHANGED <<index, tmp>>
    /\ \/ job[p] # "patch" /\ Goto(p, "write", "rename") /\ UNCHANGED <<job, own, mem, todo>>
       \/ job[p] = "patch" /\ pc[p] = "write" /\ Returns(p)
    /\ Opens(p, "none")
    /\ UNCHANGED <<dir, clock, history>>

\* What has become of the open files when cache.json.tmp is renamed or removed.
Reopened(file) ==
    [q \in Procs |-> CASE fd[q] = "tmp" -> file
                       [] fd[q] = "index" /\ file = "index" -> "gone"
                       [] OTHER -> fd[q]]

\* os.Rename.  Whoever has opened either file goes on writing to it.  A Put
\* of the beautify cache may want another hash in its entry.
Rename(p) ==
    /\ pc[p] = "rename"
    /\ tmp # None
    /\ index' = tmp
    /\ tmp' = None
    /\ fd' = Reopened("index")
    /\ committed' = IF job[p] = "put" THEN committed \cup {own[p]} ELSE committed
    /\ \/ Returns(p)
       \/ /\ Patches /\ job[p] = "put"
          /\ Goto(p, "rename", "list")
          /\ job' = [job EXCEPT ![p] = "patch"]
          /\ UNCHANGED <<own, mem, todo>>
    /\ UNCHANGED <<dir, clock, dropped>>

\* A peer has renamed the file already, or the rename is refused ...
RenameFails(p) ==
    /\ tmp = None \/ Faults
    /\ Goto(p, "rename", "clean")
    /\ UNCHANGED <<disk, clock, job, own, mem, todo, fd, history>>

\* ... and cache.json.tmp is removed, whosever it is by now.
RemoveTmp(p) ==
    /\ pc[p] = "clean"
    /\ tmp' = None
    /\ fd' = Reopened("gone")
    /\ Returns(p)
    /\ UNCHANGED <<dir, index, clock, history>>

(* overrideEntryHash.                                                      *)

List(p) ==
    /\ index.readable
    /\ \E e \in index.entries : e[1] = own[p]
    /\ Goto(p, "list", "patch")
    /\ Holds(p, index.entries)
    /\ UNCHANGED <<disk, clock, job, own, todo, fd, history>>

\* "entry %s not found": a peer has overwritten the index.
ListFails(p) ==
    /\ index.readable
    /\ \A e \in index.entries : e[1] # own[p]
    /\ pc[p] = "list"
    /\ Returns(p)
    /\ UNCHANGED <<disk, clock, fd, history>>

\* rewriteIndex: os.WriteFile of cache.json itself, outside the mutex.
PatchIndex(p) ==
    /\ Goto(p, "patch", "write")
    /\ index' = Truncated
    /\ Opens(p, "index")
    /\ UNCHANGED <<dir, tmp, clock, job, own, mem, todo, history>>

(* Faults and time.                                                        *)

\* The process is killed, or a step fails and the operation returns an error:
\* files stay as they are.
Abandon(p) ==
    /\ Faults
    /\ pc[p] # "idle"
    /\ Returns(p)
    /\ Opens(p, "none")
    /\ UNCHANGED <<disk, clock, history>>

\* A Put takes less than the grace period.
PutSteps == {"data", "read", "open", "write", "rename"}
Putting(p) == job[p] = "put" /\ pc[p] \in PutSteps

Tick ==
    /\ now < MaxTime
    /\ \A p \in Procs : Putting(p) => now + 1 < born[own[p]] + Grace
    /\ now' = now + 1
    /\ UNCHANGED <<disk, issued, born, procVars, history>>

Next ==
    \/ \E p \in Procs :
         \/ \E i \in Ids : Put(p, i) \/ Delete(p, i)
         \/ \E cutoff \in 1 .. MaxTime : cutoff <= now /\ Prune(p, cutoff)
         \/ WriteData(p) \/ AddEntry(p) \/ Refuse(p)
         \/ Reconcile(p) \/ Collect(p)
         \/ RemoveEnds(p) \/ CollectEnds(p) \/ MigrateEnds(p)
         \/ \E e \in Places : RemoveDir(p, e) \/ Migrate(p, e) \/ MigrateFails(p, e)
         \/ OpenTmp(p) \/ Write(p) \/ Rename(p) \/ RenameFails(p) \/ RemoveTmp(p)
         \/ List(p) \/ ListFails(p) \/ PatchIndex(p)
         \/ Abandon(p)
    \/ Tick

Spec == Init /\ [][Next]_vars

----------------------------------------------------------------------------
(* Properties.                                                             *)

\* If operations follow one another, the index can be read at every moment,
\* wherever one of them is interrupted (store.go, writeIndex).
IndexReadable == index.readable

\* "a crash or concurrent writer mid-write can never leave a truncated
\* cache.json" (store.go, writeIndex): when nobody writes, it can be read.
IndexLeftReadable == (\A p \in Procs : pc[p] = "idle") => index.readable

\* An entry that has been stored stays listed, with its data, until it is
\* deleted or pruned, through interrupted operations, migrations and garbage
\* collections ("a persistent cache for analysis results", store.go).
StoredKept ==
    \A i \in committed \ dropped :
        /\ \E e \in index.entries : e[1] = i
        /\ \E e \in Places : e[1] = i /\ dir[e] = "full"

\* Both, as long as operations follow one another.
Durable == IndexReadable /\ StoredKept

\* A Reconcile that succeeds leaves every entry pointing at its data, also
\* when an earlier one was interrupted between a move and the index.
RepairsPaths ==
    [][\A p \in Procs :
         pc[p] = "rename" /\ job[p] = "reconcile" /\ index' # index =>
             \A e \in index'.entries :
                 (\E f \in Places : f[1] = e[1] /\ dir[f] # "none") => dir[e] # "none"]_vars

\* An operation takes effect on the list at once or not at all, wherever it is
\* interrupted: the list of the index and the data that is whole behave as
\* ResultStore says.
Lists(entries) == {e[1] : e \in entries}
Stored == {i \in Ids : dir[<<i, "flat">>] = "full" \/ dir[<<i, "shard">>] = "full"}
Results == INSTANCE ResultStore
               WITH listed <- Lists(index.entries), stored <- Stored, asked <- dropped
ImplementsResults == Results!Spec

\* Both, of operations that follow one another.
Recovers == RepairsPaths /\ ImplementsResults

\* However operations of several processes overlap or die, the index lists
\* no directory that is half written.
NoHalfEntries == \A e \in index.entries, f \in Places : e[1] = f[1] => dir[f] # "part"

\* Garbage collection never takes the directory of a Put that is under way: the
\* grace "protects dirs a peer process may have just created but not yet
\* committed to the index" (sweep.go).
GraceProtects ==
    [][\A p \in Procs :
         Putting(p) /\ own[p] \notin dropped => dir'[<<own[p], "shard">>] # "none"]_vars

=============================================================================

------------------------------ MODULE EnrichRun -----------------------------
(***************************************************************************)
(* Enrichment runs of one app on one host: the engines (EnrichCore: worker *)
(* pool, collector and run monitor, each in a process of its own), the     *)
(* external orchestrator that records its attempts through the record      *)
(* verbs, and the status tool, over enrich_runs, enrich_attempts and       *)
(* module_enrichment.                                                      *)
(*                                                                         *)
(* One action is one SQL statement or transaction, or one step of a        *)
(* goroutine.  A counter is modelled by the set of outcomes it counts, a   *)
(* run row is named after the process that inserts it, and the age of its  *)
(* heartbeat by whether it exceeds StaleAfter.  A module is enriched once  *)
(* its module_enrichment row is written, together with modules.summary;    *)
(* the text may be empty, which only a single answer is refused for        *)
(* (enrich.go:240).  Deadlines of the calls and the copies of a summary to *)
(* other apps are not modelled.                                            *)
(***************************************************************************)
EXTENDS Integers, FiniteSets, Sequences

CONSTANTS
    Engines,      \* processes that run EnrichCore
    Ext,          \* the external orchestrator
    Modules,      \* module ids
    Plans,        \* what each engine is started for, what the orchestrator records
    Concurrent,   \* workers of an engine
    PromptBatch,  \* modules in one prompt
    MaxRecords,   \* bound on the attempts the orchestrator records
    MaxFaults,    \* bound on crashes, panics, failed statements and the like
    None

Runs == Engines \cup {Ext}

ASSUME EnrichAssumption ==
    /\ IsFiniteSet(Modules) /\ Modules \subseteq Nat
    /\ Plans \subseteq [kind : [Engines -> {"pending", "retry", "none"}],
                       limit : [Engines -> Nat],
                       ext : SUBSET [mod : Modules, ok : BOOLEAN]]
    /\ MaxFaults \in Nat /\ MaxRecords \in Nat
    /\ Concurrent \in Nat \ {0} /\ PromptBatch \in Nat \ {0}
    /\ Ext \notin Engines
    /\ None \notin Runs \cup {"in_progress", "completed", "interrupted"}

VARIABLES
    enriched,   \* modules with a row of module_enrichment
    status,     \* enrich_runs.status, None without a row
    stale,      \* last_heartbeat_at is older than StaleAfter
    count,      \* completed and failed, by what they count
    started,    \* the rows in the order of started_at
    attempts,   \* enrich_attempts
    pc,         \* where EnrichCore is
    run,        \* the row of its monitor; None: the monitor is nil
    batch,      \* the modules selected
    jobs,       \* chunks in the job channel
    crew,       \* idle workers
    hands,      \* what is left of the chunks of the busy ones
    out,        \* the result channel
    item,       \* the outcome whose attempt the collector has yet to insert
    done,       \* outcomes counted
    beat,       \* the counters a heartbeat has read and not yet written
    panicked,   \* workerPanicked
    cancelled,  \* engines whose context is cancelled
    plan,       \* the one of Plans that is carried out
    faults      \* faults so far

tables == <<enriched, status, stale, count, started, attempts>>
pool == <<jobs, crew, hands>>
collector == <<out, item, done>>
vars == <<tables, pc, run, batch, pool, collector, beat, panicked, cancelled, plan, faults>>

Outcome == [mod : Modules, ok : BOOLEAN]
Entry == [run : Runs, mod : Modules, ok : BOOLEAN, no : Nat]
Mods(S) == {o.mod : o \in S}
By(p, o, n) == [run |-> p, mod |-> o.mod, ok |-> o.ok, no |-> n]

\* attempt_id is a sequence and nothing else is unique: equal attempts are
\* told apart by how many there were before them.
Repeats(p, o) ==
    Cardinality({a \in attempts :
        a.what.run = p /\ a.what.mod = o.mod /\ a.what.ok = o.ok})
\* Chunks of n modules in the order of their ids; a retry has one per prompt.
Rank(m, S) == Cardinality({x \in S : x < m})
Chunk(m, S, n) == {x \in S : Rank(x, S) \div n = Rank(m, S) \div n}
BatchSize(e) == IF plan.kind[e] = "retry" THEN 1 ELSE PromptBatch
Chunks(e) == {Chunk(m, batch[e], BatchSize(e)) : m \in batch[e]}

TypeOK ==
    /\ enriched \subseteq Modules
    /\ status \in [Runs -> {None, "in_progress", "completed", "interrupted"}]
    /\ stale \in [Runs -> BOOLEAN]
    /\ count \in [Runs -> SUBSET Entry]
    /\ started \in Seq({r \in Runs : status[r] # None})
    /\ attempts \subseteq [row : {r \in Runs : status[r] # None}, what : Entry]
    /\ pc \in [Engines -> {"select", "resume", "insert", "work", "finalise", "abort",
                           "ended", "failed", "dead"}]
    /\ run \in [Engines -> {r \in Runs : status[r] # None} \cup {None}]
    /\ batch \in [Engines -> SUBSET Modules]
    /\ jobs \in [Engines -> SUBSET SUBSET Modules]
    /\ crew \in [Engines -> 0..Concurrent]
    /\ hands \in [Engines -> SUBSET SUBSET Modules]
    /\ out \in [Engines -> SUBSET Outcome]
    /\ item \in [Engines -> SUBSET Outcome]
    /\ done \in [Engines -> SUBSET Outcome]
    /\ beat \in [Engines -> SUBSET (SUBSET Outcome)]
    /\ panicked \subseteq Engines
    /\ cancelled \subseteq Engines
    /\ plan \in Plans
    /\ faults \in 0..MaxFaults

Init ==
    /\ enriched = {}
    /\ status = [r \in Runs |-> None]
    /\ stale = [r \in Runs |-> FALSE]
    /\ count = [r \in Runs |-> {}]
    /\ started = <<>>
    /\ attempts = {}
    /\ pc = [e \in Engines |-> "select"]
    /\ run = [e \in Engines |-> None]
    /\ batch = [e \in Engines |-> {}]
    /\ jobs = [e \in Engines |-> {}]
    /\ crew = [e \in Engines |-> Concurrent]
    /\ hands = [e \in Engines |-> {}]
    /\ out = [e \in Engines |-> {}]
    /\ item = [e \in Engines |-> {}]
    /\ done = [e \in Engines |-> {}]
    /\ beat = [e \in Engines |-> {}]
    /\ panicked = {}
    /\ cancelled = {}
    /\ plan \in Plans
    /\ faults = 0

Goto(e, l) == pc' = [pc EXCEPT ![e] = l]

----------------------------------------------------------------------------
(* EnrichCore: selection and StartMonitor.                                 *)

\* ORDER BY id LIMIT n.
Limited(S, n) == {m \in S : Rank(m, S) < n}

\* The modules with neither a summary nor an enrichment of their body.
SelectPending(e) ==
    /\ pc[e] = "select" /\ plan.kind[e] = "pending"
    /\ batch' = [batch EXCEPT ![e] = Limited(Modules \ enriched, plan.limit[e])]
    /\ Goto(e, "resume")
    /\ UNCHANGED <<tables, run, pool, collector, beat, panicked, cancelled>>

\* Retry: the modules with a failed attempt in an earlier run, in a new run.
SelectRetry(e, r) ==
    LET failed == {m \in Modules : \E a \in attempts :
                       a.row = r /\ a.what.mod = m /\ ~a.what.ok}
    IN  /\ pc[e] = "select" /\ plan.kind[e] = "retry"
        /\ failed # {}
        /\ batch' = [batch EXCEPT ![e] = failed]
        /\ Goto(e, "insert")
        /\ UNCHANGED <<tables, run, pool, collector, beat, panicked, cancelled>>

\* The job channel is filled and closed, workers and monitor are started.
Begin(e, r) ==
    /\ run' = [run EXCEPT ![e] = r]
    /\ jobs' = [jobs EXCEPT ![e] = Chunks(e)]
    /\ Goto(e, "work")
    /\ UNCHANGED <<batch, crew, hands, collector, beat, panicked, cancelled>>

Fresh == {r \in Runs : status[r] = "in_progress" /\ ~stale[r]}

\* The newest row in progress whose heartbeat is fresh is taken over.
Resume(e) ==
    /\ pc[e] = "resume"
    /\ \E i \in DOMAIN started :
          /\ started[i] \in Fresh
          /\ \A j \in DOMAIN started : started[j] \in Fresh => j <= i
          /\ Begin(e, started[i])
    /\ UNCHANGED tables

FindNone(e) ==
    /\ pc[e] = "resume"
    /\ Fresh = {}
    /\ Goto(e, "insert")
    /\ UNCHANGED <<tables, run, batch, pool, collector, beat, panicked, cancelled>>

NewRow(r) ==
    /\ status' = [status EXCEPT ![r] = "in_progress"]
    /\ started' = Append(started, r)
    /\ UNCHANGED <<enriched, stale, count, attempts>>

InsertRun(e) ==
    /\ pc[e] = "insert"
    /\ NewRow(e)
    /\ Begin(e, e)

\* StartMonitor fails: the run goes on without a monitor.
StartFails(e) ==
    /\ pc[e] \in {"resume", "insert"}
    /\ Begin(e, None)
    /\ UNCHANGED tables

----------------------------------------------------------------------------
(* The worker pool.                                                        *)

Take(e, c) ==
    /\ pc[e] = "work" /\ crew[e] > 0
    /\ c \in jobs[e]
    /\ \A d \in jobs[e] \ {c} : \A x \in c, y \in d : x < y
    /\ jobs' = [jobs EXCEPT ![e] = @ \ {c}]
    /\ crew' = [crew EXCEPT ![e] = @ - 1]
    /\ hands' = [hands EXCEPT ![e] = @ \cup {c}]
    /\ UNCHANGED <<tables, pc, run, batch, collector, beat, panicked, cancelled>>

\* Mutant: the entries of an answer are passed on before its ids are checked.
AnswerEach(e, c, S) ==
    /\ pc[e] = "work" /\ c \in hands[e]
    /\ Cardinality(c) > 1 /\ c \in Chunks(e)
    /\ S # {}
    /\ out' = [out EXCEPT ![e] = @ \cup {[mod |-> m, ok |-> TRUE] : m \in S}]
    /\ hands' = [hands EXCEPT ![e] = IF S = c THEN @ \ {c} ELSE @]
    /\ crew' = [crew EXCEPT ![e] = IF S = c THEN @ + 1 ELSE @]
    /\ UNCHANGED <<tables, pc, run, batch, jobs, item, done, beat, panicked, cancelled>>

\* One answer for a whole chunk, S being the modules it has an entry for; an
\* answer that misses one is dropped, and the chunk goes through AnswerOne.
AnswerBatch(e, c, S) ==
    /\ pc[e] = "work" /\ c \in hands[e]
    /\ Cardinality(c) > 1 /\ c \in Chunks(e)
    /\ S = c
    /\ out' = [out EXCEPT ![e] = @ \cup {[mod |-> m, ok |-> TRUE] : m \in c}]
    /\ hands' = [hands EXCEPT ![e] = @ \ {c}]
    /\ crew' = [crew EXCEPT ![e] = @ + 1]
    /\ UNCHANGED <<tables, pc, run, batch, jobs, item, done, beat, panicked, cancelled>>

\* callSingle for the next module of a chunk of one or of a fallback: an
\* answer, or a call or parse error.
AnswerOne(e, c, m, ok) ==
    /\ pc[e] = "work" /\ c \in hands[e]
    /\ m \in c /\ \A x \in c : m <= x
    /\ out' = [out EXCEPT ![e] = @ \cup {[mod |-> m, ok |-> ok]}]
    /\ hands' = [hands EXCEPT ![e] = (@ \ {c}) \cup ({c \ {m}} \ {{}})]
    /\ crew' = [crew EXCEPT ![e] = IF c = {m} THEN @ + 1 ELSE @]
    /\ UNCHANGED <<tables, pc, run, batch, jobs, item, done, beat, panicked, cancelled>>

\* Mutant: nobody is told of the panic.
WorkerDies(e, c) ==
    /\ pc[e] = "work" /\ c \in hands[e]
    /\ hands' = [hands EXCEPT ![e] = @ \ {c}]
    /\ UNCHANGED <<tables, pc, run, batch, jobs, crew, collector, beat, panicked, cancelled>>

\* The worker ends with what is left of its chunk.
WorkerPanics(e, c) ==
    /\ pc[e] = "work" /\ c \in hands[e]
    /\ hands' = [hands EXCEPT ![e] = @ \ {c}]
    /\ panicked' = panicked \cup {e}
    /\ UNCHANGED <<tables, pc, run, batch, jobs, crew, collector, beat, cancelled>>

----------------------------------------------------------------------------
(* The collector: write the enrichment, count the outcome, insert the      *)
(* attempt.  The counter is memory of the process: it moves with the write *)
(* that precedes it, since no one else can tell them apart.                *)

Counted(e, o, r) ==
    /\ out' = [out EXCEPT ![e] = @ \ {o}]
    /\ done' = [done EXCEPT ![e] = @ \cup {r}]
    /\ item' = [item EXCEPT ![e] = IF run[e] = None THEN {} ELSE {r}]
    /\ UNCHANGED <<pc, run, batch, pool, beat, panicked, cancelled>>

\* Mutant: the write is left to a goroutine nobody waits for.
WriteLater(e, o) ==
    /\ pc[e] = "work" /\ item[e] = {} /\ o \in out[e] /\ o.ok
    /\ e \notin cancelled
    /\ Counted(e, o, o)
    /\ UNCHANGED tables

WriteSummary(e, o) ==
    /\ pc[e] = "work" /\ item[e] = {} /\ o \in out[e] /\ o.ok
    /\ e \notin cancelled
    /\ enriched' = enriched \cup {o.mod}
    /\ Counted(e, o, o)
    /\ UNCHANGED <<status, stale, count, started, attempts>>

\* The call failed, or the transaction does.
CountFailure(e, o) ==
    /\ pc[e] = "work" /\ item[e] = {} /\ o \in out[e]
    /\ Counted(e, o, [mod |-> o.mod, ok |-> FALSE])
    /\ UNCHANGED tables

RecordAttempt(e, o) ==
    /\ o \in item[e]
    /\ item' = [item EXCEPT ![e] = {}]
    /\ attempts' = attempts \cup {[row |-> run[e], what |-> By(e, o, Repeats(e, o))]}
    /\ UNCHANGED <<enriched, status, stale, count, started, pc, run, batch, pool, out, done,
                   beat, panicked, cancelled>>

\* The INSERT fails: a warning.
RecordFails(e) ==
    /\ item[e] # {}
    /\ item' = [item EXCEPT ![e] = {}]
    /\ UNCHANGED <<tables, pc, run, batch, pool, out, done, beat, panicked, cancelled>>

----------------------------------------------------------------------------
(* The monitor.                                                            *)

\* Two steps: the arguments are evaluated, then the statement is executed.
ReadCounters(e) ==
    /\ pc[e] \in {"work", "finalise", "abort"} /\ run[e] # None
    /\ beat[e] = {}
    /\ beat' = [beat EXCEPT ![e] = {done[e]}]
    /\ UNCHANGED <<tables, pc, run, batch, pool, collector, panicked, cancelled>>

Flush(r, p, S) ==
    /\ count' = [count EXCEPT ![r] = {By(p, o, 0) : o \in S}]
    /\ stale' = [stale EXCEPT ![r] = FALSE]

Heartbeat(e, b) ==
    /\ b \in beat[e]
    /\ Flush(run[e], e, b)
    /\ beat' = [beat EXCEPT ![e] = {}]
    /\ UNCHANGED <<enriched, status, started, attempts, pc, run, batch, pool, collector,
                   panicked, cancelled>>

HeartbeatFails(e) ==
    /\ beat[e] # {}
    /\ beat' = [beat EXCEPT ![e] = {}]
    /\ UNCHANGED <<tables, pc, run, batch, pool, collector, panicked, cancelled>>

\* Mutants: the comparison the wrong way round, and no test of the status.
SweepableFresh(S) == {r \in S : status[r] = "in_progress" /\ ~stale[r]}
SweepableAny(S) == {r \in S : status[r] # None /\ stale[r]}

Sweepable(S) == {r \in S : status[r] = "in_progress" /\ stale[r]}

Sweep(S) ==
    /\ Sweepable(S) # {}
    /\ status' = [r \in Runs |-> IF r \in Sweepable(S) THEN "interrupted" ELSE status[r]]
    /\ UNCHANGED <<enriched, stale, count, started, attempts, pc, run, batch, pool, collector,
                   beat, panicked, cancelled>>

\* The sweeper of a live monitor spares its own row.
MonitorSweep(e) ==
    /\ pc[e] \in {"work", "finalise", "abort"} /\ run[e] # None
    /\ Sweep(Runs \ {run[e]})

\* Mutant: as many results are awaited as there are modules.
DrainedByTotal(e) == Mods(done[e]) = batch[e] /\ item[e] = {}

\* The results are closed: no job is left or no worker, and all is counted.
Drained(e) ==
    /\ jobs[e] = {} \/ crew[e] = 0
    /\ hands[e] = {} /\ out[e] = {} /\ item[e] = {}

\* The monitor's context is cancelled, if there is one.
Unwind(e) ==
    /\ pc[e] = "work" /\ Drained(e)
    /\ Goto(e, CASE run[e] = None -> "ended"
                 [] run[e] # None /\ e \in panicked -> "abort"
                 [] OTHER -> "finalise")
    /\ UNCHANGED <<tables, run, batch, pool, collector, beat, panicked, cancelled>>

\* Heartbeat and sweeper are joined, the row is left in progress.
Abort(e) ==
    /\ pc[e] = "abort" /\ beat[e] = {}
    /\ Goto(e, "failed")
    /\ UNCHANGED <<tables, run, batch, pool, collector, beat, panicked, cancelled>>

\* Mutant: the goroutines are cancelled and not joined.
FinaliseUnjoined(e) ==
    /\ pc[e] = "finalise"
    /\ status' = [status EXCEPT ![run[e]] = "completed"]
    /\ Flush(run[e], e, done[e])
    /\ Goto(e, "ended")
    /\ UNCHANGED <<enriched, started, attempts, run, batch, pool, collector, beat, panicked,
                   cancelled>>

Finalise(e) ==
    /\ pc[e] = "finalise" /\ beat[e] = {}
    /\ status' = [status EXCEPT ![run[e]] = "completed"]
    /\ Flush(run[e], e, done[e])
    /\ Goto(e, "ended")
    /\ UNCHANGED <<enriched, started, attempts, run, batch, pool, collector, beat, panicked,
                   cancelled>>

\* The UPDATE fails: a warning.
FinaliseFails(e) ==
    /\ pc[e] = "finalise" /\ beat[e] = {}
    /\ Goto(e, "ended")
    /\ UNCHANGED <<tables, run, batch, pool, collector, beat, panicked, cancelled>>

----------------------------------------------------------------------------
(* The environment.                                                        *)

Live(e) == pc[e] \in {"resume", "insert", "work", "finalise", "abort"}

\* The caller's context ends: heartbeats stop and transactions fail.
Cancel(e) ==
    /\ pc[e] = "work" /\ e \notin cancelled
    /\ cancelled' = cancelled \cup {e}
    /\ UNCHANGED <<tables, pc, run, batch, pool, collector, beat, panicked>>

Crash(e) ==
    /\ Live(e)
    /\ Goto(e, "dead")
    /\ jobs' = [jobs EXCEPT ![e] = {}]
    /\ hands' = [hands EXCEPT ![e] = {}]
    /\ out' = [out EXCEPT ![e] = {}]
    /\ item' = [item EXCEPT ![e] = {}]
    /\ beat' = [beat EXCEPT ![e] = {}]
    /\ UNCHANGED <<tables, run, batch, crew, done, panicked, cancelled>>

\* StaleAfter passes without a heartbeat.
GoStale(r) ==
    /\ status[r] # None /\ ~stale[r]
    /\ stale' = [stale EXCEPT ![r] = TRUE]
    /\ UNCHANGED <<enriched, status, count, started, attempts, pc, run, batch, pool, collector,
                   beat, panicked, cancelled>>

StatusTool == Sweep(Runs)

\* The orchestrator: enrich.start-run, write and record-attempt; the last is
\* a transaction that inserts whatever it is told and increments the counter.
\* An escalation records a failure and then a success of the same module.
StartRun ==
    /\ plan.ext # {} /\ status[Ext] = None
    /\ NewRow(Ext)
    /\ UNCHANGED <<pc, run, batch, pool, collector, beat, panicked, cancelled>>

WriteEnrichmentJSON(o) ==
    /\ o.ok /\ o.mod \notin enriched
    /\ enriched' = enriched \cup {o.mod}
    /\ UNCHANGED <<status, stale, count, started, attempts, pc, run, batch, pool, collector,
                   beat, panicked, cancelled>>

RecordExternal(o) ==
    LET a == By(Ext, o, Repeats(Ext, o))
    IN  /\ status[Ext] # None
        /\ Cardinality({b \in attempts : b.what.run = Ext}) < MaxRecords
        /\ attempts' = attempts \cup {[row |-> Ext, what |-> a]}
        /\ count' = [count EXCEPT ![Ext] = @ \cup {a}]
        /\ stale' = [stale EXCEPT ![Ext] = FALSE]
        /\ UNCHANGED <<enriched, status, started, pc, run, batch, pool, collector,
                       beat, panicked, cancelled>>

----------------------------------------------------------------------------
Start(e) ==
    \/ SelectPending(e) \/ (\E r \in Runs : SelectRetry(e, r))
    \/ Resume(e) \/ FindNone(e) \/ InsertRun(e)

Work(e) ==
    \E c \in SUBSET batch[e] :
        \/ Take(e, c)
        \/ \E S \in SUBSET c : AnswerBatch(e, c, S)
        \/ \E m \in c, ok \in BOOLEAN : AnswerOne(e, c, m, ok)

Collect(e) ==
    \/ \E o \in out[e] : WriteSummary(e, o) \/ CountFailure(e, o)
    \/ \E o \in item[e] : RecordAttempt(e, o)

\* Until the monitor's context ends.
Watching(e) == pc[e] = "work" /\ e \notin cancelled

Watch(e) ==
    \/ Watching(e) /\ (ReadCounters(e) \/ MonitorSweep(e))
    \/ \E b \in beat[e] : Heartbeat(e, b)

Finish(e) == Unwind(e) \/ Abort(e) \/ Finalise(e)

Orchestrator ==
    \/ StartRun
    \/ \E o \in plan.ext : WriteEnrichmentJSON(o) \/ RecordExternal(o)

Owned(r) == \E e \in Engines : Live(e) /\ run[e] = r

Step ==
    \/ \E e \in Engines : Start(e) \/ Work(e) \/ Collect(e) \/ Watch(e) \/ Finish(e)
    \/ \E r \in Runs : ~Owned(r) /\ GoStale(r)
    \/ StatusTool \/ Orchestrator

\* What need not happen; a row whose engine is alive grows old only when the
\* process or the database stalls for StaleAfter, and a select that finds a
\* tick ready when the context has ended may take the tick.
Mishap ==
    \/ \E e \in Engines :
          \/ StartFails(e) \/ RecordFails(e) \/ HeartbeatFails(e) \/ FinaliseFails(e)
          \/ Cancel(e) \/ Crash(e)
          \/ ~Watching(e) /\ (ReadCounters(e) \/ MonitorSweep(e))
          \/ \E c \in hands[e] : WorkerPanics(e, c)
    \/ \E r \in Runs : Owned(r) /\ GoStale(r)

Next ==
    /\ \/ Step /\ UNCHANGED faults
       \/ Mishap /\ faults < MaxFaults /\ faults' = faults + 1
    /\ UNCHANGED plan

Spec == Init /\ [][Next]_vars

(* A call of the model ends, if only by its deadline, statements return,   *)
(* and the goroutines of an engine run: as none of their steps repeats for *)
(* ever, one condition for all of them will do.  A heartbeat that has      *)
(* begun ends.  A row nobody renews grows old, and the status tool is used *)
(* again and again.                                                        *)
Keep(A) == A /\ UNCHANGED <<plan, faults>>

Fairness ==
    /\ \A e \in Engines :
          /\ WF_vars(Keep((pc[e] # "select" /\ Start(e)) \/ Work(e) \/ Collect(e) \/ Finish(e)))
          /\ WF_vars(Keep(\E b \in beat[e] : Heartbeat(e, b)))
    /\ WF_vars(Keep(\E r \in Runs : ~Owned(r) /\ GoStale(r)))
    /\ WF_vars(Keep(StatusTool))

FairSpec == Spec /\ Fairness

----------------------------------------------------------------------------
(* Properties.                                                             *)

\* Until an engine ends, each module it has selected is in exactly one place
\* (queue, worker, result channel or count), unless a worker has panicked: a
\* fallback of a batch neither loses nor repeats one, nor does a late worker.
Places(e) == jobs[e] \cup hands[e] \cup {Mods(out[e])} \cup {Mods(done[e])}
ModulesOnce ==
    \A e \in Engines :
        /\ \A c, d \in Places(e) : c = d \/ c \cap d = {}
        /\ \A o, p \in out[e] \cup done[e] : o.mod = p.mod => o = p
        /\ pc[e] \in {"work", "finalise"} /\ e \notin panicked => UNION Places(e) = batch[e]

\* A row says "completed" only when an engine of it has counted an outcome
\* for every module it had selected, none lost to a panic.
CompletedIsComplete ==
    \A r \in Runs : status[r] = "completed" =>
        \E e \in Engines :
            run[e] = r /\ pc[e] = "ended" /\ e \notin panicked /\ Mods(done[e]) = batch[e]

\* The counters of a completed row that only its own engine has used are the
\* final ones: no heartbeat in flight puts older ones back.
Unshared(r) == r \in Engines /\ \A e \in Engines : run[e] = r => e = r
FinalCounts ==
    \A r \in Runs : status[r] = "completed" /\ Unshared(r) =>
        count[r] = {By(r, o, 0) : o \in done[r]}

\* A success that an engine has put into the audit trail is backed by an
\* enrichment of the module, also after crashes and failed transactions, and
\* it is the engine's only attempt on it.  The orchestrator's are its own.
AttemptsBacked ==
    \A a \in attempts : a.what.run \in Engines =>
        /\ a.what.ok => a.what.mod \in enriched
        /\ \A b \in attempts :
              a.what.run = b.what.run /\ a.what.mod = b.what.mod => a = b

\* A completed run is never found interrupted later.
CompletedStays ==
    [][\A r \in Runs : status[r] = "completed" => status'[r] = "completed"]_vars

\* However its workers fail, EnrichCore returns.
EngineEnds == \A e \in Engines : Live(e) ~> ~Live(e)

\* No row stays in progress: it is finalised or, when its process has died,
\* aborted or lost its last statement, swept.
RowsSettle == \A r \in Runs : status[r] = "in_progress" ~> status[r] # "in_progress"

\* "EnrichCore inspects it after the result loop and unwinds" (enrich.go, of
\* workerPanicked): a run that reports no error has counted all it selected.
PanicsReported == \A e \in Engines : pc[e] = "ended" => Mods(done[e]) = batch[e]

\* "so the counter can never silently drift from the attempts" (record.go):
\* when no engine works on a row, its counters miss none of its attempts.
CountersMatch ==
    \A a \in attempts : ~Owned(a.row) => a.what \in count[a.row]
=============================================================================

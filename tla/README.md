# Formal models of unravel-oss

TLA+ models, model-checking configurations and machine-checked proofs for the
parts of unravel-oss where processes, goroutines, connections and files meet:
the supervisor daemon, its IPC server and client, the files daemons and MCP
processes share, the guard against spawn loops, the store of analysis results,
the ledger and the enrichment runs of the knowledge base, the HAR transport and
the registry of MCP instances. The reference is the Go code under `src/`; `PROJECT.json` maps every
definition that models code to the lines it stands for.

Run a model with `tlc -config X.cfg MCModule.tla`, check proofs with
`tlapm ModuleProofs.tla`.

## 1. The system

unravel-oss analyses applications (APK, Electron, .NET, Java, ...) and serves
its analyses to AI agents over MCP. Most of the repository is decompilers,
parsers and transpilers: sequential transformations that share nothing. What
runs concurrently is the machinery around them.

| Component | State it keeps | Operations | Meets others through |
|---|---|---|---|
| Supervisor lifecycle (`internal/supervisor/supervisor.go`, `cmd/daemon.go`) | listener, token file, DB pool, host lock, `stopOnce`, `wg`, last activity | Start, Stop, acceptLoop, idleWatcher, heartbeatReaper | owns the IPC server; ends its process |
| IPC server (`internal/ipc/bus_server.go`) | `draining`, `handlerWG`, one verb loop per connection | hello, verbLoop, dispatch, Shutdown | newline-delimited JSON on a Unix socket |
| Registry (`agent.go`, `session.go`, `workspace.go`, `heartbeat.go`) | three maps, a mutex each; the pins of rows | register, connect, heartbeat, activate and their opposites; the reaper | verbs dispatched in goroutines of their own |
| Host singleton (`filelock_unix.go`, `listen_posix.go`, `tokenfile_posix.go`, `client_singleton.go`) | `daemon.lock`, `daemon.sock`, `token` | lock, remove stale socket and bind, write token; dial, autospawn, poll, hello | files shared by every process of a host |
| Spawn guard (`spawn_guard.go`, `autospawn.go`) | `spawn-history.json` | load, CheckGuard, exec, wait, Record | a file that is not locked |
| IPC client (`bus_client.go`) | `nextID`, `pending`, `closed`, the reader | Call, readLoop, Close | one connection, many callers |
| Analysis store (`pkg/store`, `pkg/knowledge/cache.go`) | entry directories, `cache.json` | Put, Delete, Prune, Reconcile, the beautify cache's patch | files shared by CLI, daemon and MCP servers |
| Idle timer (`internal/idle`) | a `time.AfterFunc` and a mutex | Reset, Stop, onIdle | a callback into MCP servers |
| MCP instance registry (`pkg/mcp/lifecycle`) | one JSON record per process | register, touch, list, clean | files; signals to processes |
| HAR transport (`pkg/mcp/har_transport.go`) | one table of pending requests for both directions | Read, Write, Close | wraps an MCP connection |
| CDP client, capture session, file watcher (`pkg/capture`) | pending calls, listeners, bounded event channel | Connect, Listen, SendAndWait, Emit, Close, Stop | a browser's WebSocket |
| Knowledge ledger (`pkg/knowledge/kb`, `cmd/kb_gc.go`) | `kb_apps`, `kb_aliases`, `knowledge_sources` in PostgreSQL | ingest, merge, gc | transactions of concurrent processes |
| KB enrichment (`pkg/knowledge/kbenrich`) | run rows, attempts and summaries in PostgreSQL; a pool of workers, a collector, a monitor | start, resume, heartbeat, sweep, record, finalise, abort | other runs, the orchestrator and the status tool, through the database |
| Other caches, knowledge store, sandbox, archive reader, decompilers, command line | local | local | not modelled; see section 7 |

What is hard in it:

- **Shutdown** is a negotiation: an atomic flag, a WaitGroup, a drain with a
  deadline, three goroutines, two callers of Stop and a process that may exit
  while responses are being written.
- **Processes share files without a common lock** except for the host singleton:
  tokens, sockets, spawn history and the analysis index are read, decided on
  and written in separate steps.
- **Verbs interleave** between the critical sections of three mutexes, and the
  reaper acts on what it read earlier.
- **One connection carries many calls**, some of which give up before their
  answer arrives, through buffers that fill.
- **Processes are killed** between the steps of what looks like one operation.
- **Transactions** at READ COMMITTED decide on rows that others change, and rely
  on locks of which some cover one of two apps only.
- **A pool** hands modules from queue to worker to collector while workers panic,
  contexts end, and a heartbeat writes counters that are changing.

What makes each part correct is stated as the properties of section 3. The list
of hazards in `PROJECT.json` names the line at which each one bites and the
properties that would show it; a hazard nobody covers carries a note that says
why.

## 2. Plan

| Order | Modules | State |
|---|---|---|
| 1 | `SupervisorLifecycle` | modelled, checked, safety proved |
| 2 | `SupervisorRegistry` | modelled, checked, safety proved |
| 3 | `HostSingleton` | modelled, checked, safety proved |
| 4 | `SpawnGuard` | modelled, checked, proved |
| 5 | `RpcCalls` (abstract), `BusClient` | modelled, checked, safety and refinement proved |
| 6 | `ResultStore` (abstract), `AnalysisStore` | modelled, checked, safety and refinement proved |
| 7 | `McpInstances`: idle timer, instance records, parent watcher and cleaner in one | modelled, checked, safety proved |
| 8 | `HarConn`: both directions in one table, Close under traffic, pruning | modelled, checked, safety proved |
| 9 | `KbHistory` (abstract), `KbLedger`: ingest, merge and gc as transactions | modelled, checked, safety and refinement proved |
| 10 | `EnrichRun`: worker pool, collector, run monitor, orchestrator, sweep | modelled, checked, safety proved |

`McpInstances` composes the idle timer with the registry, because a server's
end, which the timer begins, is what the registry has to survive. Three
refinements are checked and proved: `BusClient` implements `RpcCalls`, `KbLedger`
implements `KbHistory`, and `AnalysisStore`, while its operations follow one
another, implements `ResultStore`.

What could follow, in this order: an abstract host service (at most one server,
each accepted call answered or its connection ended) refined by `HostSingleton`
and `SupervisorLifecycle` together; the bodies and diffs that an ingest writes.
Every safety property, action property and refinement that a run checks has a
theorem; what has none is liveness.

## 3. The modules

Every module takes its parameters as CONSTANTS with a named ASSUME, has one
action per step of the code, and is split from its MC module (model values,
symmetry) and its Proofs module. In comments, *Mutant* marks an operator that
no specification uses: it is an action with a plausible mistake in it, and the
property named in `PROJECT.json` is violated if it takes the action's place.
Where one question has several parts, the parts are named and a conjunction of
them is what the run checks; it is given in brackets below.

### SupervisorLifecycle

One daemon from the return of `Start` to the end of its process. `conn` is the
server's view of a connection (backlog, hello, open, closed), `req` the place
of an envelope in `verbLoop` or `dispatch`, `reply` what its client was sent;
`handlerWG`, `waiter`, `draining`, `drainTimedOut` are the drain; `stopPc`
follows the function inside `stopOnce`, `caller` the two goroutines that may
call `Stop`, `life` the three goroutines of `wg`. The steps keep the order of
the code: the verb loop tests `draining`, adds to the WaitGroup and tests
again; `Stop` closes the listener, removes the token, drains, joins, closes the
pool, releases the lock.

- `PoolOutlivesHandlers`: no handler runs on a closed pool, unless the drain
  timed out and the code says so.
- `CleanHandover`: whoever finds the lock free finds no listener, token or
  working goroutine of the old daemon.
- `ExitAfterTeardown`: a caller that did not begin `Stop` still does not end the
  process half-way.
- `AnswersSurviveExit`: a call whose handler has returned is not robbed of its
  answer by the end of the process (`handlerWG.Done` comes after the write).
- `SignalExits`, `IdleReleases` (`StopCompletes`): a signal ends the process; an
  idle exit, where it is configured, gives up the lock. It does not end the
  process: `serveDaemon` goes on waiting for its context (`cmd/daemon.go:109`).
- `HandshakeBounded`, `CallsAnswered` (`ClientsServed`): with the last, the
  liveness of section 5.
- `NoWaitGroupReuse`, `IdleExits` (violated): see section 6.

`exitWhenIdle` is fixed by the initial state to one of `IdleConfigs`: the run
checks both values, since `cmd/daemon.go` leaves the flag unset and the package's
tests set it.

### SupervisorRegistry

`agents`, `sessions`, `rows` are the keys of the three maps, `agentOf`, `wsOf`,
`appOf`, `agentSet` the fields of their records, `stale` the sessions whose
heartbeat is old. `at[t]` is the frame of goroutine t: the step between two
critical sections it is at, with its local variables. The reaper is one more
goroutine.

- `OneRowPerApp`, `RowsArePinned` (`RowsConsistent`): however activations, deactivations,
  unregistrations and reaps interleave, an app has at most one row and no row
  is left without a pin.
- `NoResurrection`: a detached session never comes back.
- `StaleReaped`: a silent session goes in the end, also one that a race has left
  without its agent.
- `SessionsOwned`, `PinsOwned`, `BindingsCounted`, `ReapsOnlyStale` (violated):
  see section 6.

### HostSingleton

The daemons and MCP processes of a host, and the three files they meet in. A
daemon is identified with its token; `sockPath` is whose socket the path names,
`listening` whose listener is open, so a stale socket, a socket of a dead
daemon and a socket that has been replaced are different states. `Ghost` is a
daemon that died before. Clients dial, spawn, poll, read the token and send the
hello in separate steps.

- `EndpointOwned`: at most one daemon listens, it holds the lock, and the path
  names it.
- `TokenOwned`: the token on disk is the listener's, until a daemon whose start
  failed half-way has cleaned up (`TokenKept`, without that condition, is
  violated: section 6).
- `RightToken`: a client that has found a token after it dialled presents the
  right one, whatever fails.
- `RacesHarmless`: clients that spawn at once all end up connected, unless they
  give up or daemons are stopped, fail or die.

### SpawnGuard

`Autospawn` as each process runs it: load the history, check, exec, watch the
child, record. `file` is the text of the history, `mem` each process's copy.
`Write` distinguishes what an overlapping write makes of the file: whole, or a
shorter text over a longer one, which no reader can parse.

Attempts overlap freely; the history variable `overlapped` remembers that one
has begun while another was under way.

- `BlocksOnFailures` (proved, in no run): no block without three recorded
  failures, whatever overlaps, fails or dies.
- `GuardCounts`: as long as attempts follow one another, no spawn after three
  recorded failures in the window, whatever fails or dies.
- `HistoryReadable`: an attempt finds an unreadable history only if attempts
  have overlapped, a write has failed or a process was killed.
- `CountsUnderOverlap`, `ReadableUnderOverlap` (violated): the same without
  the condition on overlap; see section 6.

### RpcCalls and BusClient

`RpcCalls` is what a caller may rely on: a call begins, its handler is started
at most once, and it returns the result of that execution or an error.
`BusClient` has the mutex-protected table, the counter, `readLoop`, the channel
of each call, cancellation, `Close`, and the server's side as far as a client
observes it: bounded socket buffers, dispatch in any order, refusals written by
the verb loop itself, a drain, the end of the connection.

- `ImplementsRpc`: `BusClient` implements `RpcCalls` under the mapping
  `Progress`, `Outcome`, `executed`. `executed` counts the executions of each
  call, so that a second one is a step `RpcCalls` does not allow, not a stutter.
- `ReaderNeverBlocks` (with the next, `TableSound`): a delivery always finds room in its channel, also for a
  call that has given up.
- `NoLeak`: the table holds calls under way only, each under its own id.
- `CallsReturn`: the liveness of section 5, of calls and of `Close`. It is
  stated up to `ReaderLost`: a line that is too long ends `readLoop` while the
  connection stays up.
- `EveryCallReturns` (without that condition), `PendingGetServerGone`
  (violated): see section 6.

### ResultStore and AnalysisStore

`dir` is the state of each entry's directory in either layout (flat or
sharded), `index` and `tmp` the two files, with their text abstracted to the
entries it lists, whether it can be parsed, and its length in entries. `fd`
says which *file* a process has open: a rename moves a file under the feet of
whoever writes to it. `committed` and `dropped` are history.

- `IndexReadable`, `StoredKept` (`Durable`): if operations follow one another, at every
  moment and wherever one is interrupted, the index can be parsed, and what has
  been stored is listed and has its data.
- `RepairsPaths` (with the next, `Recovers`): a Reconcile repairs what an
  interrupted one left.
- `ImplementsResults`: as long as operations follow one another the store behaves
  like `ResultStore`, with the entries of the index for `listed`, the directories
  that are whole in either layout for `stored` and `dropped` for `asked`. Each
  operation takes effect on the list at once, with the rename of its index, or
  not at all, wherever it is interrupted, and what was removed does not come back.
- `NoHalfEntries`: the index lists no directory that is still being written,
  under any overlap.
- `GraceProtects`: garbage collection spares a Put that is under way. This
  rests on `Tick`: a Put takes less than the grace period (an hour).
- `IndexLeftReadable` (violated): see section 6.

### KbHistory and KbLedger

`KbHistory` says what the knowledge base promises about the captures of an app:
a lineage of snapshots to which a capture appends, to whose end a merge appends
the loser's, and from which a purge removes. It keeps the order as a relation
(`before`) rather than as a sequence, so that the refinement is a matter of sets
and can be proved; in `KbLedger` it is `Before`, the order of the epochs of one
app. `KbLedger` has the tables. One
action is one SQL statement of `ingest.Run`, `identity.MergeIDs` or `kb gc`: `pc`
is the statement a worker executes next, `tgt`, `num` and `moved` what its
transaction has read. What PostgreSQL contributes is named in one place:
`Ingesting`, `Joining`, `Aliasing`, `Dropping` and `HasEpochLock` say which
locks a transaction holds at which statement, `Waits` who waits for whom.
`RollBack` ends a transaction at any statement.

- `NoEpochClash` (with the next, `EpochsSerial`): neither an ingest nor a merge, which moves a whole lineage to
  new epochs, ever meets an epoch that is taken.
- `PrevFound`: an ingest finds the epoch before its own unless a purge has run.
- `LostOnlyInWindow`: a merge deletes, through the cascade of its last
  statement, only snapshots committed after its UPDATE.
- `DeadlockOnlyInCircles`: transactions deadlock only if merges do (A into B
  beside B into A).
- `HistoryRefined`: the ledger implements `KbHistory`.
- `NothingLost`, `NamesResolve` (violated): see section 6.

### EnrichRun

Several engines (`EnrichCore`, each a process with a selection, a queue of
chunks, `Concurrent` workers, a collector and a monitor), the external
orchestrator with its record verbs, and the status tool. `count[r]` is the pair
of counters of a run row, modelled by the set of outcomes they count, so that a
counter that is too low, or counts twice, can be told from one that is right.
`enriched` is the set of modules with a row of
`module_enrichment`, whose text may be empty when it comes from a batch (only the
answer to a single prompt is refused for it). `done` is what the engine has counted, `beat` the counters its heartbeat has
read but not yet written, `item` the outcome the collector is about to record.
A chunk is answered as a whole or, when the batch fails, module by module.
`Mishap` is what a fault may be: a crash, a cancellation, a panic of a worker, a
statement that fails, a tick of the monitor that is late.

- `ModulesOnce`: each selected module is in one place until it is counted,
  whatever falls back, unless a worker panics.
- `CompletedIsComplete`: a row says `completed` only if an engine has counted
  everything it selected.
- `FinalCounts`: no heartbeat in flight puts older counters into a completed row
  (`runHeartbeat` is joined before the finalising statement).
- `AttemptsBacked`: a success that an engine has put into the audit trail is
  backed by an enrichment of its module, and no engine records two attempts of
  one module. The orchestrator's attempts are its own: `record-attempt` inserts
  whatever it is told, and an escalation records a failure and then a success.
- `CompletedStays`: no sweep, resume or insert takes a completed row back.
- `EngineEnds`, `RowsSettle`: the liveness of section 5.
- `CountersMatch`, `PanicsReported` (violated): see section 6.

### HarConn

`pending` is the table of `harConn`, keyed by the *text* of an ID as `idString`
makes it, for calls of both directions; `stage` is how far the transport is with
a call (an incoming one is read, then recorded, and Close may come in between), `rec` the record `closeRecord` has taken out, `text` the blocks of each
file, `later` the files whose last change came after that of a file: a prune
deletes those that have `MaxFiles` or more of them. `closed` is the table set to
nil. Two history variables keep what the properties must
excuse: calls that shared a key while both were pending, and records another
process has pruned.

- `OneAnswer`: a record is answered once, by a response or by the note of Close:
  no two blocks of it are answers.
- `RightAnswer`, `OrphansExplained` (`AnswersFiled`): a response is in the record
  of its own call, unless keys clashed; it has no record only after a clash or
  after Close.
- `Flushed` (with the types, `CloseSettles`): Close leaves no call without a note,
  and the table stays empty.
- `OrphansFlushed`, `NoPanic` (violated): see section 6.

### McpInstances

`unravel mcp` servers, one JSON record per PID, and `unravel mcp clean`. A
server is the goroutines that end it (idle timer, parent watcher, client's EOF,
all by one cancel), the middleware that touches its record and resets its timer
for each request, the handlers at work (`busy`), and the deferred Close.
`timer[s]` tells a timer that runs from a callback that has fired and waits for
the mutex `Reset` holds. `Register` and `Serving` ask for the parent's PID one
after the other, and the parent may die before, between and after: `recorded`
are the servers whose record names their parent, `watched` those whose watcher
runs. `CloseFails` cannot remove the file and forgets the path all the same. PIDs
are reused, also by cleaners, though not those of the parents. A cleaner lists,
judges and removes in separate steps. The host is a Unix, where an orphan is
adopted and its parent's PID reads 1.

- `ClosedStaysGone` (with the types, `RegistrySound`): a server that has closed or
  ended writes no record, although requests may still be in hand, and the one it
  may have left, because its file could not be removed, is not renewed.
- `CleanSparesLive`: without force, a live server with a live parent loses its
  record only to a PID that has changed hands in between.
- `Relisted`, `DeadGo` (`ListConverges`): the record of a live server comes back as
  long as requests keep coming, that of a dead one goes unless its PID lives on.
- `ServerEnds`: a server that loses the parent it watches, or gets no more
  requests, ends unless a handler works for ever. A server whose parent dies
  before the watcher starts is watched by nobody (`server.go:37-40`) and ends
  when its client leaves or when it is idle; the code promises no more.
- `IdleMeansIdle`, `ForceSparesLive` (violated): see section 6.

The modules describe separate parts on purpose. `HostSingleton` treats a serving
daemon as one state, `SupervisorLifecycle` one daemon as if it were alone;
`CleanHandover` is what the second promises and the order of `CloseListener`,
`RemoveToken`, `ReleaseLock` is what the first relies on. `SpawnGuard` stands
between a client's `spawn` and a daemon's `probe` in `HostSingleton`, where it
appears as the choice `AutospawnFails`.

## 4. Runs and bounds

| Run | Shows | Bounds |
|---|---|---|
| `lifecycle` | shutdown under every interleaving, failing Accept included; exit on a signal, release when idle, handshakes, answers | both values of `ExitWhenIdle`, 1 connection with the token, 2 envelopes, one of them a notification that wedges its handler |
| `registry_concurrent` | rows, pins, resurrection and reaping with two handlers and the reaper | 2 agents, 1 silent session, 2 row ids, 1 app |
| `host_singleton` | lock, socket path, tokens and autospawn races with failing starts, signals, kills and a dead predecessor's files | 3 daemons, 2 clients |
| `spawn_guard` | the guard with overlap, failing writes and kills | 4 attempts, 2 ticks |
| `bus_client` | refinement, reader, table, progress with every fault | 2 calls, buffers of one envelope |
| `store_crash` | interruption at every step, migration, repair and the refinement | 1 process at a time, 2 legacy entries, 1 new, 2 ticks |
| `store_overlap` | overlap of Put, Delete, Prune, Reconcile and the patch | 2 processes, 1 legacy entry, 1 new, 2 ticks |
| `kb_ledger` | epochs, lineages, deadlocks and the refinement | 3 transactions out of 8 jobs (plain and forced ingests, merges in a circle and in a chain, purges), 3 apps, 3 old rows |
| `enrich_run` | pool, counters, audit trail, terminal statuses and progress | 2 engines in 5 combinations of plans, 3 modules, 2 workers, prompts of 2, 2 attempts of the orchestrator, 1 fault |
| `har_conn` | records under concurrent calls, Close and a prune | 2 incoming and 2 outgoing calls, a notification, 3 of them with one key; 2 files kept, 1 prune |
| `mcp_instances` | records, cleaner, idle exit and progress | 2 servers in a row, the first with requests and a timer, 2 PIDs, 1 cleaner, 1 fault |
| `kb_lost_capture` | the finding of section 6 | as `kb_ledger` |

Why these are enough to be interesting:

- `MaxReqs = 2` lets one handler hold up the drain while the next envelope meets
  each of the two tests of `draining`. `MaxAgents = 1` has both values the idle
  watcher tells apart. `IdleTimeout = 1` tick: the clock saturates at the limit.
- Ids (agents, sessions, rows, entries, daemons) are issued once and never
  reused, as `newID` and `newUUIDv7` promise, and finite: when they run out the
  model stops issuing them. Two of each suffice for a conflict; the third daemon
  is the one that comes after a handover. `registry_concurrent` has one session,
  which two handlers and the reaper work on at once; the proofs are for any number.
- The guard blocks at three failures, so the fourth attempt is the one it is
  about. `Window < Keep` as in the code (10 s of 60 s), and the clock runs up
  to `MaxTime = Keep`, so that events leave the window and are pruned.
- `BufLen = 1` makes every write that could block block: with two calls a
  request can fill one buffer and a response the other while the second call
  writes and the verb loop refuses. What does not depend on the number of calls
  (the types, `TableSound`, `ImplementsRpc`) is proved for any.
- `Grace = 2` lets the clock move while a Put is under way and still pass the
  grace period of older entries; `Grace = 1` in `store_crash` makes every
  directory of an interrupted Put collectable by the next Reconcile.
- The eight jobs of `MCKbLedger` contain a circle of merges (A and B
  into each other) and a chain (A into B, B into C); a lineage of two epochs
  shows whether a merge keeps its order. Three transactions are the fewest in
  which an ingest meets both a merge and what a purge or another merge leaves.
- The plans of `MCEnrichRun` are two engines on one module (who resumes whose
  row?), a run and its retry, a run of two chunks and one fallback, a run beside
  the orchestrator, and a retry of what the orchestrator recorded. One fault is
  enough for each of its properties to depend on it; `EnrichPanic.cfg` has two.
  With two workers one fault leaves one of them: that the run ends when all have
  panicked with chunks in the queue needs `Concurrent = 1` (it does).
- In `MCHarConn` the peer numbers its calls with strings and uses its first ID
  again once it has been answered, while this side counts: three of the four
  calls have the key `1`, two of them in different directions at the same time;
  the fourth shares its key with nobody.
- `MaxLive = 1` in `mcp_instances` makes the second server start when the first
  has ended, with either PID; the cleaner may take the first server's, too. Only
  the first has requests and a timer, so that the second, which nothing but its
  parent and its client ends, shows the rest; one fault is a kill, a failed
  write or a failed removal, by the server or by the cleaner.

Types: the type invariants of the eight modules with a Proofs module of their own
are proved, and in no run; those of `HarConn`
and `McpInstances` are part of `CloseSettles` and `RegistrySound` and are proved
with them.

Deadlock is checked everywhere but in the configurations of `SpawnGuard`,
`KbLedger`, `EnrichRun` and `HarConn` (when every attempt, transaction, run or
call is over, nothing is left to do; a deadlock of transactions is what
`DeadlockOnlyInCircles` is about), and in those of section 6 whose point is that
the system stops. `Quiet` in `HostSingleton` and `BusClient` and `Gone` in `SupervisorLifecycle` are the
states in which everything has ended; there the system may stutter, and any
other state without a successor is reported.

## 5. Fairness

Liveness is checked under `FairSpec`, which adds for each module:

- weak fairness of goroutines that have something to do: Go's scheduler runs
  every runnable goroutine, and the steps in question do not depend on a lock
  that another goroutine may take for ever;
- weak fairness of timers (the hello deadline, the drain timeout, the tickers):
  they fire when their time has come;
- strong fairness of `IdleWatcherExits`: the watcher selects between its ticker
  and the closed stop channel, and when both are ready Go chooses at random, so
  the second is not passed over for ever although it is taken away by the
  handling of each tick;
- weak fairness of handlers, except those in `Wedged`, which stand for handlers
  that never return;
- in `SupervisorRegistry`, weak fairness of `GoStale`: a `Silent` session's
  heartbeat gets old;
- in `EnrichRun`, weak fairness of an engine's start (once it is under way), its
  workers, its collector and its end: a model call ends with an answer or at its
  deadline, a statement returns or fails; of a heartbeat that has read its
  counters; of the ageing of a row whose process no longer works on it; and of
  the status tool, whose sweep is the only one left when all engines have died.
  Without somebody who asks for the status, `RowsSettle` does not hold, and the
  code does not claim it;
- in `McpInstances`, weak fairness of a server's goroutines, of its timer when
  no request is in hand, of time, of a cleaner's steps, and of cleaners that
  start: `DeadGo` is what `mcp clean` is for. Nothing is assumed of handlers:
  `Run` waits for those at work when its context is cancelled, so its return is
  strongly fair only in the states in which none is, and `ServerEnds` has
  the condition that such states keep coming.

Nothing is assumed of clients, signals, cancellation, `Close`, kills, failures
or peers. `CallsReturn` and `CallsAnswered` exclude the calls in `Wedged`; `HostSingleton`
assumes that processes run on, and nothing about commands. `Relisted` assumes
that requests keep coming, in its own statement.
`SpawnGuard`, `AnalysisStore`, `KbLedger` and `HarConn` have no liveness property:
every loop of theirs is over a finite set, and nothing waits but for locks, of
which `DeadlockOnlyInCircles` speaks.

## 6. Findings

One run, `kb_lost_capture`, states what a comment says of the program and the
code violates; `PROJECT.json` quotes the lines. `MergeIDs` takes the advisory lock
of the winner only. An ingest that has resolved the loser before the merge may
commit its snapshot between the merge's UPDATE of the loser's rows and its DELETE
of the loser's app, whose cascade deletes the snapshot; `merge.go:15-18` says that
a merge rewrites *any* row still pointing at the loser.

Further configurations each show, by a counterexample, the boundary of one of
the guarantees above, or another such disagreement; they are not among the runs.
Where the table says *in* a configuration, its property is replaced by the one
named (under PROPERTY if it is a formula about steps).

| Configuration, property | What it shows |
|---|---|
| `SupervisorWaitGroup.cfg`, `NoWaitGroupReuse` | An `Add` between the waiter's wake-up and its return makes the runtime panic during shutdown; the window is small and real (`bus_server.go:207-213`). |
| `SupervisorIdleDaemon.cfg`, `IdleExits` | An idle daemon does not go away. `cmd/daemon.go:82` does not set `ExitWhenIdle`, although `supervisor.go:42` says the production daemon binary sets it; and with the flag set, the idle exit closes the listener and gives up the lock, but `serveDaemon` stays blocked on its context (`cmd/daemon.go:109`) until a signal comes. |
| `RegistryOrphan.cfg`, `SessionsOwned` | A `session.connect` that races the unregister of its agent leaves a session without an agent until the reaper takes it. |
| `RegistryBindings.cfg`, `BindingsCounted` | Pins are counted by agent, bindings kept by session: one deactivation deletes the row another session is bound to. |
| `RegistryPins.cfg`, `PinsOwned` | Activating a second app forgets the first pin: after `agent.unregister` its row stays pinned for ever. |
| in `RegistryOrphan.cfg`, `ReapsOnlyStale` | A heartbeat between the reaper's scan and its detach does not save a session. |
| `HostFailedStart.cfg`, `TokenKept` | The cleanup of a start that failed at bind removes the token of the peer that has taken the lock since. |
| `SpawnLostUpdate.cfg`, `CountsUnderOverlap` | Overlapping attempts overwrite each other's events, and a fourth daemon is spawned within the window. |
| in `SpawnLostUpdate.cfg`, `ReadableUnderOverlap` | Two overlapping writes leave a history that no later attempt can read, although nothing has failed. |
| `BusClientLostReader.cfg`, `EveryCallReturns` | After a response longer than 16 MiB `readLoop` has ended but the client is not closed: later calls are written and wait for ever unless their context ends. |
| `BusClientClose.cfg`, `PendingGetServerGone` | A call that is pending when `Close` is called gets an `*ErrorBody`, not `ErrServerGone` (`bus_client.go:160-161`). |
| `StoreLostEntry.cfg`, `StoredKept` | Concurrent Puts of two processes lose an entry. |
| in `StoreLostEntry.cfg`, `IndexLeftReadable` | All processes write the same `cache.json.tmp`: concurrent writers can leave an index that cannot be parsed, which the comment of `writeIndex` excludes. |
| `StorePatchCrash.cfg`, `IndexLeftReadable` | A process killed while the beautify cache rewrites the index in place leaves it truncated. |
| in `KbLostCapture.cfg`, `NamesResolve` | After A has been merged into B and B into C, the alias of A is gone: `kb_aliases` references `kb_apps` with ON DELETE CASCADE, and `merge.go` re-points no older alias, although the migration (`000004_kb_identity.up.sql:14-16`) calls merges non-destructive for read paths. |
| `EnrichCounters.cfg`, `CountersMatch` | An engine that resumes a row on which the orchestrator has recorded attempts overwrites the row's counters with its own (`record.go:160-162` excludes a drift). The program's own caller of `EnrichCore`, `Retry`, sets `ForceNewRun` and does not resume; others of this exported function may. |
| `EnrichPanic.cfg`, `PanicsReported` | When the run's row could not be inserted, the monitor is nil and a worker's panic is inspected by nobody (`enrich.go:729` against `629-633`): `EnrichCore` loses the modules of a chunk and returns no error. |
| `HarOrphans.cfg`, `OrphansFlushed` | Of two pending calls with one key, the first is never answered nor flushed. |
| in `HarOrphans.cfg`, `NoPanic` | A message recorded after Close writes to a nil map. |
| `McpIdleRace.cfg`, `IdleMeansIdle` | A reset that meets a callback waiting for the timer's mutex does not stop it: the server ends right after a request. |
| in `McpIdleRace.cfg`, `ForceSparesLive` | `Clean` with force removes records of live servers with live parents (`lifecycle.go:239-241`). |

Disagreements met on the way that no model shows: `external.go:248-252` speaks of
placeholder answers with an empty summary that are persisted, and `220-222` refuses
them; `record.go:91` lists the status `interrupted`, which the CHECK on
`enrich_attempts` does not admit; a run whose context was cancelled is finalised as
`completed` with its modules counted as failed.

## 7. What is proved, checked only, and left out

**Proved** with TLAPS, for all values of the constants that satisfy the
module's assumption:

| Module | Theorems | Argument |
|---|---|---|
| `SupervisorLifecycleProofs` | `TypeCorrect`, `PoolSafe`, `HandoverSafe`, `ExitSafe`, `AnswersSafe` | `DrainInv`: the WaitGroup counts exactly the tracked requests, and once the drain is over none can be added, although a verb loop may still back out; `StopInv`: the resources match the step `Stop` has reached; `ReplyInv`: an answered request has a reply before it is done. The properties alone are not inductive: they say nothing of the counter. |
| `SupervisorRegistryProofs` | `TypeCorrect`, `RowsAreConsistent` (from `OneRow`, `RowsPinned`), `SessionsStayGone` | `FrameOK`: what a goroutine remembers at each step has been issued; `RowInv`: rows are pinned, and by one app each, whatever is under way |
| `HostSingletonProofs` | `TypeCorrect`, `EndpointSafe`, `TokenSafe`, `RightTokenSafe` | `LockInv`: the lock's holder is the daemon between the two ends of its critical section, and the path names whoever bound it last; `TokenInv`: only the lock's holder writes the token, a failed start can only remove it |
| `SpawnGuardProofs` | `TypeCorrect`, `BlocksSoundly`, `GuardWorks`, `StaysReadable` | `HistoryInv`: every event in a file or a memory was recorded; `NothingLost`: until attempts overlap, no recorded event is missing; `FileWhole`: until then, and until something fails, nobody's write is torn |
| `BusClientProofs` | `TypeCorrect`, `TableIsSound` (from `ReaderFree`, `TableExact`), `Refinement` | `IdInv`: ids in flight are distinct and belong to their calls; `NotYetInv`: nothing of a call exists before it is sent; `ResultInv`: a result in flight is that of the handler of its call. Each step of `BusClient` is one of `RpcCalls` or a stutter. |
| `AnalysisStoreProofs` | `TypeCorrect`, `ListsWholeEntries`, `CollectsOnlyOrphans`; with `Sequential`, `~Patches` `StoreDurable`, `ReconcileRepairs`, `ResultsAreWhole`, `StoreRecovers` | `WrittenInv`: every list in a file or a memory names written directories only, and those stay written because ids are fresh; `GraceInv`: a Put is younger than the grace period, whatever is being collected older; `OneWriter`, `KeptInv`: the one process at work holds a list that contains everything to be kept, and `cache.json.tmp` is whole when it is renamed; `PathInv`: what is listed in the new layout has nothing left in the old, where nothing creates a directory, and an entry the migration has visited points at its data; `WritesInv`, for the refinement: the list an operation is about to write differs from the index by what the operation is for, so that the rename is one step of `ResultStore` and every other step at most touches directories |
| `KbLedgerProofs` | `TypeCorrect`, `EpochsStaySerial` (from `EpochsNeverClash`, `BaseIsFound`), `LostInWindow`, `DeadlocksAreCircles`, `LedgerKeepsHistory`, `HistoriesAreOrders` | `LedgerInv`: at most one transaction holds the epoch lock of an app and none drops an app another is joining; every epoch of an app is below the one its lock's holder has allocated, and until a purge the one before it is there; what a merge has left to the cascade is `exposed`. In a stuck set nobody waits for an index entry, because its owner holds an epoch lock the waiting one holds too; whoever waits for that lock waits for a merge that is about to drop its loser, and so round the circle. Of the statements only the three commits touch a lineage, and each is one step of `KbHistory`: a capture's epoch and a merge's offset are still above all others. |
| `HostSingletonProofs`, of `McpInstances` | `McpInvariant`, `RegistryIsSound`, `CleanSpares` | `McpInv`: a process has a PID exactly while it lives; a record on file is of an open instance or was left by a server that has closed or ended; what a cleaner without force is about to remove has lost its parent or its PID, for good |
| `HostSingletonProofs`, of `HarConn` | `HarInvariant`, `AnsweredOnce`, `AnsweredRightly`, `CloseIsFinal` | `HarInv`: the table is keyed by calls that wait; a record leaves it into one pair of hands; until then its file holds the request and nothing else; a call that waits is in the table unless its key was shared or Close has come |
| `EnrichRunProofs` | `RunTypeCorrect`, `CountedOnce`, `CompletedOnlyComplete`, `CountsAreFinal`, `AttemptsAreBacked`, `CompletedForGood` | `TypeInv`: idle and busy workers add up, so that the pool's size is kept; `RunInv`: a module is in one of queue, hands, channel and count, and the three that are left are empty when the channel is closed; `LedgerInv`: whatever an engine has recorded or is about to has its enrichment, and a completed row was finalised by an engine that has ended and whose heartbeat is joined. |

`HostSingletonProofs` is about the processes of one host and extends the three
modules that describe them; their names are therefore disjoint (`McpInit`,
`HarInit`, `Nothing`, `NoCall`, ...). The theorems of each of the three are about
its own specification.

The assumptions `Sequential` and `~Patches` of the store, and the conditions in
`TokenOwned`, `GuardCounts` and `HistoryReadable`, are the boundary of each
guarantee: the configurations of section 6 show that without them it fails.

**Model-checked only**: every liveness property (out of the prover's reach:
`StopCompletes`, `ClientsServed`, `StaleReaped`, `RacesHarmless`, `CallsReturn`,
`EngineEnds`, `RowsSettle`, `ListConverges`, `ServerEnds`) and the counterexamples.

**Not modelled**: failures of `supervisor.New`; the peer-credential check (a
rejected hello covers its effect); `Notify`, `NewAuthClient` and errors of
marshalling, which change no state; the refusal to spawn from test binaries;
read-only verbs and `session.rebind_cwd`; the length check of the socket path;
named pipes and locks of Windows; dry runs, the backfill of sizes, lookups by
hash and the check of entry names in the store. The identity of time in the
store: an entry's time in the id and its `CreatedAt` are one tick. Removal of a
tree is one step that may fail half-way.

Of the ledger: modules, bodies, facts and diffs, which an ingest writes in the
same transaction; the files `kb gc` removes after its own; and the other writers
of `knowledge_sources` (import, `sources.Begin`, the recorded epochs, which read
MAX without the lock, and the backfill). Of the enrichment: resumption by an
explicit run id, deadlines of single calls, the copies of a summary to other
apps, drift detection and `RecordCost`, which prices attempts and inserts a
`success` for a priced module that has none: `AttemptsBacked` is about the
attempts of engines and of the record verbs. Of the idle timer: `Stop`, which no
caller uses. Of the HAR transport: failures of the file system, which it
swallows.

Of the repository's other parts, parsers, decompilers and transpilers are
sequential functions over large inputs, which share no state and follow no
protocol: comparing their output with a reference is the work of their golden
tests, and a model would restate them. The CDP client is a request table like
that of the IPC client. The capture session and the file watcher show the order
in which the operating system reports events. The other caches are files named
by their content and maps under one mutex.

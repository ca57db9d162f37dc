------------------------ MODULE SupervisorLifecycle ------------------------
(***************************************************************************)
(* One running supervisor daemon, from the moment Start has returned to    *)
(* the end of its process: the IPC server's connection and verb loops      *)
(* (internal/ipc/bus_server.go), the lifecycle goroutines and the shutdown *)
(* sequence (internal/supervisor/supervisor.go) and the process body that  *)
(* drives them (cmd/daemon.go).                                            *)
(*                                                                         *)
(* Goroutines are interleaved at the granularity of the shared memory they *)
(* touch: the atomic flag draining, the handler WaitGroup, the stop        *)
(* channel, the sync.Once around Stop.  Payloads, verb names and the text  *)
(* of errors are abstracted away.                                          *)
(***************************************************************************)
EXTENDS Integers, FiniteSets

CONSTANTS
    Conns,          \* connections clients may open
    MaxReqs,        \* bound: envelopes a client sends on one connection
    TokenHolders,   \* connections whose client presents the right token
    Notifications,  \* requests sent without an ID: they get no response
    Wedged,         \* requests whose handler may never return
    MaxAgents,      \* bound: agents registered at one time
    IdleTimeout,    \* Config.IdleTimeout, in ticks of the model's clock
    IdleConfigs,    \* values Config.ExitWhenIdle may have been built with
    AcceptMayFail   \* may ln.Accept fail while the listener is open?

Requests == Conns \X (1 .. MaxReqs)

ASSUME LifecycleAssumption ==
    /\ IsFiniteSet(Conns)
    /\ MaxReqs \in Nat \ {0}
    /\ TokenHolders \subseteq Conns
    /\ Notifications \subseteq Requests
    /\ Wedged \subseteq Requests
    /\ MaxAgents \in Nat
    /\ IdleTimeout \in Nat \ {0}
    /\ IdleConfigs \subseteq BOOLEAN
    /\ AcceptMayFail \in BOOLEAN

VARIABLES
    conn,         \* state of each connection, seen from the server
    req,          \* where each request is in verbLoop or dispatch
    reply,        \* what the client of each request was sent
    handlerWG,    \* counter of Server.handlerWG
    waiter,       \* the goroutine of Shutdown blocked in handlerWG.Wait
    draining,     \* Server.draining
    drainTimedOut,\* Shutdown gave up on its context
    stopPc,       \* progress of the function run by Supervisor.stopOnce
    caller,       \* the two goroutines that may call Stop
    life,         \* the three goroutines of Supervisor.wg
    listening,    \* Supervisor.ln is open
    tokenFile,    \* <SocketDir>/token exists
    poolClosed,   \* Supervisor.db has been closed
    lockHeld,     \* the host-singleton lock is held
    agents,       \* len(Supervisor.agents)
    idleFor,      \* ticks since lastActivity (or startedAt), up to IdleTimeout
    ctxDone,      \* the context of serveDaemon is cancelled
    proc,         \* the daemon process
    exitWhenIdle  \* Config.ExitWhenIdle: cmd/daemon.go:82 leaves it FALSE

connVars == <<conn, req, reply>>
drainVars == <<handlerWG, waiter, draining, drainTimedOut>>
stopVars == <<stopPc, caller, life>>
resources == <<listening, tokenFile, poolClosed, lockHeld>>
idleVars == <<agents, idleFor>>
procVars == <<ctxDone, proc, exitWhenIdle>>
vars == <<connVars, drainVars, stopVars, resources, idleVars, procVars>>

Callers == {"signal", "idle"}
Goroutines == {"accept", "idle", "heartbeat"}

ConnStates == {"none", "backlog", "auth", "open", "closed"}
InLoop == {"read", "admitted", "counted"}  \* verbLoop holds the envelope
Tracked == {"counted", "running", "returned"}  \* between Add(1) and Done
ReqStates == InLoop \cup Tracked \cup {"unread", "done", "refused"}
Replies == {"none", "result", "error", "unavailable", "lost"}
WaiterStates == {"none", "starting", "waiting", "woken", "returned"}
StopSteps == {"none", "listener", "token", "shutdown", "drain",
              "lifecycle", "pool", "lock", "done"}

Calls == Requests \ Notifications
InFlight == {r \in Requests : req[r] \in Tracked}
Alive == proc = "alive"
StopChClosed == stopPc # "none"

TypeOK ==
    /\ conn \in [Conns -> ConnStates]
    /\ req \in [Requests -> ReqStates]
    /\ reply \in [Requests -> Replies]
    /\ handlerWG \in Int
    /\ waiter \in WaiterStates
    /\ draining \in BOOLEAN
    /\ drainTimedOut \in BOOLEAN
    /\ stopPc \in StopSteps
    /\ caller \in [Callers -> {"none", "called", "returned"}]
    /\ life \in [Goroutines -> {"run", "zeroAgents", "exited"}]
    /\ listening \in BOOLEAN
    /\ tokenFile \in BOOLEAN
    /\ poolClosed \in BOOLEAN
    /\ lockHeld \in BOOLEAN
    /\ agents \in 0 .. MaxAgents
    /\ idleFor \in 0 .. IdleTimeout
    /\ ctxDone \in BOOLEAN
    /\ proc \in {"alive", "exited", "crashed"}
    /\ exitWhenIdle \in IdleConfigs

----------------------------------------------------------------------------
(* Start has returned nil: the lock is held, the token is on disk, the     *)
(* listener is bound and the three goroutines have been added to sv.wg.    *)
Init ==
    /\ conn = [c \in Conns |-> "none"]
    /\ req = [r \in Requests |-> "unread"]
    /\ reply = [r \in Requests |-> "none"]
    /\ handlerWG = 0
    /\ waiter = "none"
    /\ draining = FALSE
    /\ drainTimedOut = FALSE
    /\ stopPc = "none"
    /\ caller = [p \in Callers |-> "none"]
    /\ life = [g \in Goroutines |-> "run"]
    /\ listening = TRUE
    /\ tokenFile = TRUE
    /\ poolClosed = FALSE
    /\ lockHeld = TRUE
    /\ agents = 0
    /\ idleFor = 0
    /\ ctxDone = FALSE
    /\ proc = "alive"
    /\ exitWhenIdle \in IdleConfigs

----------------------------------------------------------------------------
(* Connections.                                                            *)

Become(c, from, to) ==
    /\ Alive
    /\ conn[c] \in from
    /\ conn' = [conn EXCEPT ![c] = to]
    /\ UNCHANGED <<req, reply, drainVars, stopVars, resources, idleVars, procVars>>

\* A client connects: the kernel queues the connection on the listener.
Dial(c) == listening /\ Become(c, {"none"}, "backlog")

\* Serve accepts and starts ServeConn.
Accept(c) == listening /\ life["accept"] = "run" /\ Become(c, {"backlog"}, "auth")

\* authenticate: peer credentials, one sys.hello before the read deadline,
\* the right token.  Anything else closes the connection: a foreign peer,
\* another verb or a wrong token, which any client may send ...
Authenticate(c) == c \in TokenHolders /\ Become(c, {"auth"}, "open")
RejectHello(c) == Become(c, {"auth"}, "closed")
\* Mutant: no read deadline on the handshake.
NoDeadline(c) == FALSE

HelloReadFails(c) == Become(c, {"auth"}, "closed")  \* ... EOF, or the deadline

\* verbLoop returns on EOF or on a read error; it can do so only between
\* two envelopes.
LoopIsReading(c) == \A i \in 1 .. MaxReqs : req[<<c, i>>] \notin InLoop
HangUp(c) == LoopIsReading(c) /\ Become(c, {"open"}, "closed")

----------------------------------------------------------------------------
(* verbLoop and dispatch.  A request goes                                  *)
(*   unread -> read -> admitted -> counted -> running -> returned -> done  *)
(* or leaves to refused at one of the two tests of draining.               *)

\* ReadEnvelope returns the next envelope of the connection: activity.
ReadEnvelope(r) ==
    /\ Alive
    /\ conn[r[1]] = "open"
    /\ LoopIsReading(r[1])
    /\ req[r] = "unread"
    /\ \A i \in 1 .. (r[2] - 1) : req[<<r[1], i>>] # "unread"
    /\ req' = [req EXCEPT ![r] = "read"]
    /\ idleFor' = 0
    /\ UNCHANGED <<conn, reply, drainVars, stopVars, resources, agents, procVars>>

\* A repeated sys.hello is activity too, and is answered at once.
ReHello(c) ==
    /\ Alive
    /\ conn[c] = "open"
    /\ LoopIsReading(c)
    /\ idleFor' = 0
    /\ UNCHANGED <<connVars, drainVars, stopVars, resources, agents, procVars>>

\* A response reaches the client unless the connection is gone; a
\* notification has none.
Respond(r, body) ==
    reply' = [reply EXCEPT ![r] =
                IF r \in Notifications THEN "none"
                ELSE IF conn[r[1]] = "open" THEN body ELSE "lost"]

\* The first test of draining.
Admit(r) ==
    /\ Alive
    /\ req[r] = "read"
    /\ ~draining
    /\ req' = [req EXCEPT ![r] = "admitted"]
    /\ UNCHANGED <<conn, reply, drainVars, stopVars, resources, idleVars, procVars>>

Refuse(r) ==
    /\ Alive
    /\ req[r] = "read"
    /\ draining
    /\ req' = [req EXCEPT ![r] = "refused"]
    /\ Respond(r, "unavailable")
    /\ UNCHANGED <<conn, drainVars, stopVars, resources, idleVars, procVars>>

\* handlerWG.Add(1).
AddHandler(r) ==
    /\ Alive
    /\ req[r] = "admitted"
    /\ req' = [req EXCEPT ![r] = "counted"]
    /\ handlerWG' = handlerWG + 1
    /\ UNCHANGED <<conn, reply, waiter, draining, drainTimedOut, stopVars, resources,
                   idleVars, procVars>>

\* Mutant: draining is not tested again after Add.
GoDispatchUnchecked(r) ==
    /\ Alive
    /\ req[r] = "counted"
    /\ req' = [req EXCEPT ![r] = "running"]
    /\ UNCHANGED <<conn, reply, drainVars, stopVars, resources, idleVars, procVars>>

\* The second test of draining: start the dispatch goroutine ...
GoDispatch(r) ==
    /\ Alive
    /\ req[r] = "counted"
    /\ ~draining
    /\ req' = [req EXCEPT ![r] = "running"]
    /\ UNCHANGED <<conn, reply, drainVars, stopVars, resources, idleVars, procVars>>

\* handlerWG.Done(): the counter reaching zero releases the waiter.
Done ==
    /\ handlerWG' = handlerWG - 1
    /\ waiter' = IF handlerWG = 1 /\ waiter = "waiting" THEN "woken" ELSE waiter

\* ... or take the count back and refuse.
BackOut(r) ==
    /\ Alive
    /\ req[r] = "counted"
    /\ draining
    /\ req' = [req EXCEPT ![r] = "refused"]
    /\ Done
    /\ Respond(r, "unavailable")
    /\ UNCHANGED <<conn, draining, drainTimedOut, stopVars, resources, idleVars, procVars>>

\* The handler returns (or panics, or the verb is unknown) and the response
\* is written.  agent.register and agent.unregister change the agent count.
HandlerReturns(r) ==
    /\ Alive
    /\ req[r] = "running"
    /\ req' = [req EXCEPT ![r] = "returned"]
    /\ \E body \in {"result", "error"} :
         /\ Respond(r, body)
         /\ agents' \in IF body = "error" THEN {agents}
                        ELSE {agents - 1, agents, agents + 1} \cap (0 .. MaxAgents)
    /\ UNCHANGED <<conn, drainVars, stopVars, resources, idleFor, procVars>>

\* Mutant: Done is called before the response is written.
DoneBeforeReply(r) ==
    /\ Alive
    /\ req[r] \in {"running", "returned"}
    /\ req' = [req EXCEPT ![r] = "done"]
    /\ Done
    /\ UNCHANGED <<conn, reply, draining, drainTimedOut, stopVars, resources, idleVars,
                   procVars>>

\* The deferred handlerWG.Done of dispatch.
DispatchDone(r) ==
    /\ Alive
    /\ req[r] = "returned"
    /\ req' = [req EXCEPT ![r] = "done"]
    /\ Done
    /\ UNCHANGED <<conn, reply, draining, drainTimedOut, stopVars, resources, idleVars,
                   procVars>>

----------------------------------------------------------------------------
(* Stop.  sync.Once: the first caller runs the sequence below, any other   *)
(* blocks until that sequence has ended.                                   *)

\* serveDaemon has seen ctx.Done and calls Stop.
SignalStop ==
    /\ Alive
    /\ ctxDone
    /\ caller["signal"] = "none"
    /\ caller' = [caller EXCEPT !["signal"] = "called"]
    /\ UNCHANGED <<stopPc, life, connVars, drainVars, resources, idleVars, procVars>>

\* stopOnce.Do of the first caller: close(stopCh).
StopBegins ==
    /\ Alive
    /\ stopPc = "none"
    /\ \E p \in Callers : caller[p] = "called"
    /\ stopPc' = "listener"
    /\ UNCHANGED <<caller, life, connVars, drainVars, resources, idleVars, procVars>>

\* Mutant: a flag instead of sync.Once, so the second caller does not wait.
StopReturnsEarly(p) ==
    /\ Alive
    /\ caller[p] = "called"
    /\ stopPc # "none"
    /\ caller' = [caller EXCEPT ![p] = "returned"]
    /\ UNCHANGED <<stopPc, life, connVars, drainVars, resources, idleVars, procVars>>

StopReturns(p) ==
    /\ Alive
    /\ caller[p] = "called"
    /\ stopPc = "done"
    /\ caller' = [caller EXCEPT ![p] = "returned"]
    /\ UNCHANGED <<stopPc, life, connVars, drainVars, resources, idleVars, procVars>>

\* ln.Close: queued connections are dropped.
CloseListener ==
    /\ Alive
    /\ stopPc = "listener"
    /\ stopPc' = "token"
    /\ listening' = FALSE
    /\ conn' = [c \in Conns |-> IF conn[c] = "backlog" THEN "closed" ELSE conn[c]]
    /\ UNCHANGED <<req, reply, caller, life, tokenFile, poolClosed, lockHeld, drainVars,
                   idleVars, procVars>>

RemoveToken ==
    /\ Alive
    /\ stopPc = "token"
    /\ stopPc' = "shutdown"
    /\ tokenFile' = FALSE
    /\ UNCHANGED <<caller, life, listening, poolClosed, lockHeld, connVars, drainVars,
                   idleVars, procVars>>

\* Server.Shutdown: set draining, then start the waiting goroutine.
BeginShutdown ==
    /\ Alive
    /\ stopPc = "shutdown"
    /\ stopPc' = "drain"
    /\ draining' = TRUE
    /\ waiter' = "starting"
    /\ UNCHANGED <<handlerWG, drainTimedOut, caller, life, connVars, resources, idleVars,
                   procVars>>

\* handlerWG.Wait: return at once on a zero counter, sleep otherwise.
Wait ==
    /\ Alive
    /\ waiter = "starting"
    /\ waiter' = IF handlerWG = 0 THEN "returned" ELSE "waiting"
    /\ UNCHANGED <<handlerWG, draining, drainTimedOut, connVars, stopVars, resources,
                   idleVars, procVars>>

\* The woken waiter finds the counter at zero and Wait returns ...
WaitReturns ==
    /\ Alive
    /\ waiter = "woken"
    /\ handlerWG = 0
    /\ waiter' = "returned"
    /\ UNCHANGED <<handlerWG, draining, drainTimedOut, connVars, stopVars, resources,
                   idleVars, procVars>>

\* ... or another Add has come in between: the Go runtime panics ("WaitGroup
\* is reused before previous Wait has returned"), nobody recovers, the
\* process dies and the kernel takes its descriptors.
ProcessDies(how) ==
    /\ proc' = how
    /\ listening' = FALSE
    /\ lockHeld' = FALSE
    /\ conn' = [c \in Conns |-> IF conn[c] = "none" THEN "none" ELSE "closed"]

WaitPanics ==
    /\ Alive
    /\ waiter = "woken"
    /\ handlerWG # 0
    /\ ProcessDies("crashed")
    /\ UNCHANGED <<req, reply, drainVars, stopVars, tokenFile, poolClosed, idleVars,
                   ctxDone, exitWhenIdle>>

\* Shutdown returns nil when the waiter has closed done ...
Drained ==
    /\ Alive
    /\ stopPc = "drain"
    /\ waiter = "returned"
    /\ stopPc' = "lifecycle"
    /\ UNCHANGED <<caller, life, connVars, drainVars, resources, idleVars, procVars>>

\* Mutant: the drain is not bounded.
NoDrainTimeout == FALSE

\* ... or an error once drainTimeout has passed; Stop goes on regardless.
DrainTimeout ==
    /\ Alive
    /\ stopPc = "drain"
    /\ stopPc' = "lifecycle"
    /\ drainTimedOut' = TRUE
    /\ UNCHANGED <<handlerWG, waiter, draining, caller, life, connVars, resources,
                   idleVars, procVars>>

\* Mutant: Stop does not wait for the lifecycle goroutines.
LifecycleNotJoined ==
    /\ Alive
    /\ stopPc = "lifecycle"
    /\ stopPc' = "pool"
    /\ UNCHANGED <<caller, life, connVars, drainVars, resources, idleVars, procVars>>

\* sv.wg.Wait.
LifecycleJoined ==
    /\ Alive
    /\ stopPc = "lifecycle"
    /\ \A g \in Goroutines : life[g] = "exited"
    /\ stopPc' = "pool"
    /\ UNCHANGED <<caller, life, connVars, drainVars, resources, idleVars, procVars>>

ClosePool ==
    /\ Alive
    /\ stopPc = "pool"
    /\ stopPc' = "lock"
    /\ poolClosed' = TRUE
    /\ UNCHANGED <<caller, life, listening, tokenFile, lockHeld, connVars, drainVars,
                   idleVars, procVars>>

ReleaseLock ==
    /\ Alive
    /\ stopPc = "lock"
    /\ stopPc' = "done"
    /\ lockHeld' = FALSE
    /\ UNCHANGED <<caller, life, listening, tokenFile, poolClosed, connVars, drainVars,
                   idleVars, procVars>>

----------------------------------------------------------------------------
(* The lifecycle goroutines.                                               *)

Exit(g) ==
    /\ life' = [life EXCEPT ![g] = "exited"]
    /\ UNCHANGED <<stopPc, connVars, drainVars, resources, idleVars, procVars>>

\* Serve returns the error of Accept: after ln.Close, or unexpectedly.
AcceptLoopExits ==
    /\ Alive
    /\ life["accept"] = "run"
    /\ ~listening \/ AcceptMayFail
    /\ Exit("accept")
    /\ UNCHANGED caller

HeartbeatExits ==
    /\ Alive
    /\ life["heartbeat"] = "run"
    /\ StopChClosed \/ ctxDone
    /\ Exit("heartbeat")
    /\ UNCHANGED caller

IdleWatcherExits ==
    /\ Alive
    /\ life["idle"] = "run"
    /\ StopChClosed \/ ctxDone
    /\ Exit("idle")
    /\ UNCHANGED caller

\* A tick of idleWatcher: first the agents under their lock ...
IdleSeesNoAgents ==
    /\ Alive
    /\ life["idle"] = "run"
    /\ agents = 0
    /\ life' = [life EXCEPT !["idle"] = "zeroAgents"]
    /\ UNCHANGED <<stopPc, caller, connVars, drainVars, resources, idleVars, procVars>>

\* ... then the clock.  Only ExitWhenIdle starts a goroutine that calls Stop;
\* the process itself goes on waiting for its context (cmd/daemon.go:109).
IdleStays ==
    /\ Alive
    /\ life["idle"] = "zeroAgents"
    /\ idleFor < IdleTimeout \/ ~exitWhenIdle
    /\ life' = [life EXCEPT !["idle"] = "run"]
    /\ UNCHANGED <<stopPc, caller, connVars, drainVars, resources, idleVars, procVars>>

IdleFires ==
    /\ Alive
    /\ life["idle"] = "zeroAgents"
    /\ idleFor >= IdleTimeout
    /\ exitWhenIdle
    /\ caller' = [caller EXCEPT !["idle"] = "called"]
    /\ Exit("idle")

----------------------------------------------------------------------------
(* The process and its environment.                                        *)

\* SIGINT or SIGTERM cancels the context.
Signal ==
    /\ Alive
    /\ ~ctxDone
    /\ ctxDone' = TRUE
    /\ UNCHANGED <<proc, exitWhenIdle, connVars, drainVars, stopVars, resources,
                   idleVars>>

\* serveDaemon returns what Stop returned, and the process ends.
ProcessExits ==
    /\ Alive
    /\ caller["signal"] = "returned"
    /\ ProcessDies("exited")
    /\ UNCHANGED <<req, reply, drainVars, stopVars, tokenFile, poolClosed, idleVars,
                   ctxDone, exitWhenIdle>>

Tick ==
    /\ Alive
    /\ idleFor < IdleTimeout
    /\ idleFor' = idleFor + 1
    /\ UNCHANGED <<agents, connVars, drainVars, stopVars, resources, procVars>>

Gone ==
    /\ ~Alive
    /\ UNCHANGED vars

ConnStep(c) ==
    \/ Dial(c) \/ Accept(c) \/ Authenticate(c) \/ RejectHello(c)
    \/ HelloReadFails(c) \/ HangUp(c) \/ ReHello(c)

ReqStep(r) ==
    \/ ReadEnvelope(r) \/ Admit(r) \/ Refuse(r) \/ AddHandler(r)
    \/ GoDispatch(r) \/ BackOut(r) \/ HandlerReturns(r) \/ DispatchDone(r)

StopStep ==
    \/ StopBegins \/ CloseListener \/ RemoveToken \/ BeginShutdown
    \/ Drained \/ DrainTimeout \/ LifecycleJoined \/ ClosePool \/ ReleaseLock
    \/ \E p \in Callers : StopReturns(p)

WaiterStep == Wait \/ WaitReturns \/ WaitPanics

LifeStep ==
    \/ AcceptLoopExits \/ HeartbeatExits
    \/ IdleWatcherExits \/ IdleSeesNoAgents \/ IdleStays \/ IdleFires

Next ==
    \/ \E c \in Conns : ConnStep(c)
    \/ \E r \in Requests : ReqStep(r)
    \/ StopStep
    \/ WaiterStep
    \/ LifeStep
    \/ SignalStop \/ Signal \/ ProcessExits \/ Tick
    \/ Gone

Spec == Init /\ [][Next]_vars

----------------------------------------------------------------------------
(* Fairness: what the server itself does goes on; what clients, signals    *)
(* and wedged handlers do is never required.  A Go select picks among its  *)
(* ready cases at random, hence the strong fairness of the exit of the     *)
(* idle watcher, which also has its ticker to serve.                       *)
LoopStep(r) == Admit(r) \/ Refuse(r) \/ AddHandler(r) \/ GoDispatch(r) \/ BackOut(r)

Fairness ==
    /\ \A c \in Conns : WF_vars(Accept(c)) /\ WF_vars(HelloReadFails(c))
    /\ \A r \in Requests : WF_vars(LoopStep(r)) /\ WF_vars(DispatchDone(r))
    /\ \A r \in Requests \ Wedged : WF_vars(HandlerReturns(r))
    /\ WF_vars(StopStep)
    /\ WF_vars(WaiterStep)
    /\ WF_vars(~listening /\ AcceptLoopExits)
    /\ WF_vars(HeartbeatExits)
    /\ SF_vars(IdleWatcherExits)
    /\ WF_vars(IdleSeesNoAgents) /\ WF_vars(IdleStays \/ IdleFires)
    /\ WF_vars(SignalStop) /\ WF_vars(ProcessExits)
    /\ WF_vars(Tick)

FairSpec == Spec /\ Fairness

----------------------------------------------------------------------------
(* Safety.                                                                 *)

Serving == {r \in Requests : req[r] \in {"running", "returned"}}

\* Stop closes the database pool only after the last verb handler has
\* ended: no handler touches a closed pool unless the drain timed out
\* (supervisor.go, Stop: "so a handler never touches a closed *sql.DB").
PoolOutlivesHandlers == poolClosed /\ ~drainTimedOut => Serving = {}

\* Once a live daemon has given up the singleton lock, so that a successor
\* may start, nothing of it is left running: the listener and the pool are
\* closed, its token file is gone, the lifecycle goroutines have exited and
\* (unless the drain timed out) no handler is running.
CleanHandover ==
    Alive /\ ~lockHeld =>
        /\ ~listening /\ ~tokenFile /\ poolClosed
        /\ \A g \in Goroutines : life[g] = "exited"
        /\ drainTimedOut \/ Serving = {}

\* The process ends by itself only after the whole shutdown sequence, also
\* when an idle exit had begun it before the signal came.
ExitAfterTeardown ==
    proc = "exited" => stopPc = "done" /\ poolClosed /\ ~tokenFile

\* A call that reached its handler has been answered before the process
\* ends, unless the drain timed out or the process crashed.
AnswersSurviveExit ==
    proc = "exited" /\ ~drainTimedOut =>
        \A r \in Calls : req[r] \in {"running", "returned", "done"} => reply[r] # "none"

\* Why the safety properties hold.  The counter is exact; a waiter exists only
\* while draining; once it has been woken no handler runs, and none can start.
DrainInv ==
    /\ handlerWG = Cardinality(InFlight)
    /\ waiter # "none" => draining
    /\ waiter \in {"woken", "returned"} => Serving = {}

\* What each stage of the shutdown sequence may rely on.
StopInv ==
    /\ stopPc \in {"lifecycle", "pool", "lock", "done"} =>
         drainTimedOut \/ waiter = "returned"
    /\ poolClosed <=> stopPc \in {"lock", "done"}
    /\ listening => stopPc \in {"none", "listener"}
    /\ tokenFile => stopPc \in {"none", "listener", "token"}
    /\ stopPc \in {"pool", "lock", "done"} => \A g \in Goroutines : life[g] = "exited"
    /\ Alive /\ ~lockHeld => stopPc = "done"
    /\ \A p \in Callers : caller[p] = "returned" => stopPc = "done"
    /\ proc = "exited" => stopPc = "done"

\* A handler that has returned has answered its call.
ReplyInv == \A r \in Calls : req[r] \in {"returned", "done"} => reply[r] # "none"

\* The second test of draining is there "to avoid the Add-after-Shutdown-Wait
\* race" (bus_server.go): the WaitGroup is never reused under its waiter.
NoWaitGroupReuse == proc # "crashed"

----------------------------------------------------------------------------
(* Liveness.                                                               *)

\* A signal ends the process, wedged handlers or not.
SignalExits == ctxDone ~> ~Alive

\* A connection is accepted and leaves the handshake: it is authenticated
\* or closed, even when its client never sends sys.hello.  The one exception
\* is a connection in the backlog of a listener whose accept loop has ended
\* on an error: it waits until the daemon shuts down.
HandshakeBounded ==
    \A c \in Conns : conn[c] \in {"backlog", "auth"} ~>
        conn[c] \in {"open", "closed"} \/ (conn[c] = "backlog" /\ life["accept"] = "exited")

\* Every call that the server has read is answered, before, during and after
\* a drain, unless its handler is wedged or the process ends first.
CallsAnswered ==
    \A r \in Calls \ Wedged : req[r] = "read" ~> reply[r] # "none" \/ ~Alive

\* What the server owes a client that has connected.
ClientsServed == HandshakeBounded /\ CallsAnswered

\* A daemon configured to exit when idle that stays without agents and
\* activity gives up the singleton lock, so that a successor may start.  It
\* need not end: serveDaemon still waits for a signal (cmd/daemon.go:109).
IdleReleases ==
    exitWhenIdle /\ <>[](agents = 0 /\ idleFor = IdleTimeout) => <>~lockHeld

\* Nothing keeps Stop from its end, neither a handler nor a second caller:
\* a signal ends the process and an idle exit frees the endpoint.
StopCompletes == SignalExits /\ IdleReleases

\* What supervisor.go:38-43 promises of the production daemon: a daemon that
\* stays without agents and activity goes away.  It does not, with either
\* value of ExitWhenIdle.
IdleExits == <>[](agents = 0 /\ idleFor = IdleTimeout) => <>~Alive

=============================================================================

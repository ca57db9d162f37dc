--------------------------- MODULE HostSingleton ---------------------------
(***************************************************************************)
(* The processes of one host that share a socket directory: daemons        *)
(* started by `daemon serve` (cmd/daemon.go, supervisor.go Start and Stop) *)
(* and MCP processes that dial, autospawn and authenticate                 *)
(* (pkg/mcp/tools/client_singleton.go).  They meet in three files:         *)
(* daemon.lock (flock), daemon.sock and token.                             *)
(*                                                                         *)
(* A daemon is identified with the token it generates.  What happens       *)
(* inside a serving daemon is the subject of SupervisorLifecycle, the      *)
(* crash-loop guard that of SpawnGuard.                                    *)
(***************************************************************************)
CONSTANTS
    Daemons,      \* bound: daemon processes that may be started
    Clients,      \* MCP processes
    Ghost,        \* a daemon that crashed before the model begins
    None,         \* no process, no file
    StartFaults,  \* which steps of Start may fail: "token", "bind"
    MayStop,      \* daemons that may receive a signal
    MayCrash,     \* daemons that may be killed
    MayGiveUp     \* may a spawn be refused, or a client's budget end too early?

ASSUME HostAssumption ==
    /\ Ghost \notin Daemons
    /\ None \notin Daemons \cup {Ghost}
    /\ StartFaults \subseteq {"token", "bind"}
    /\ MayStop \subseteq Daemons
    /\ MayCrash \subseteq Daemons
    /\ MayGiveUp \in BOOLEAN

VARIABLES
    pc,         \* where each daemon process is
    lock,       \* who holds the flock on daemon.lock
    sockPath,   \* whose socket daemon.sock names
    listening,  \* daemons whose listener is open
    tokenFile,  \* whose token the file holds
    client,     \* where each client is in dialAndWrap
    target,     \* the daemon a client is connected to
    tokenRead   \* the token a client has read

files == <<lock, sockPath, tokenFile>>
clientVars == <<client, target, tokenRead>>
vars == <<pc, listening, files, clientVars>>

\* Between the flock of Start and its release.
Locked == {"token", "listen", "serving", "removeToken", "release"}
Running == Locked \cup {"probe", "lock", "cleanup"}
DaemonStates == Running \cup {"off", "exited", "failed", "crashed"}
ClientStates == {"dial", "spawn", "poll", "dialed", "hello", "connected", "failed"}

TypeOK ==
    /\ pc \in [Daemons -> DaemonStates]
    /\ lock \in Daemons \cup {None}
    /\ sockPath \in Daemons \cup {Ghost, None}
    /\ listening \subseteq Daemons
    /\ tokenFile \in Daemons \cup {Ghost, None}
    /\ client \in [Clients -> ClientStates]
    /\ target \in [Clients -> Daemons \cup {None}]
    /\ tokenRead \in [Clients -> Daemons \cup {Ghost, None}]

\* A crashed predecessor may have left its socket and its token behind.
Init ==
    /\ pc = [d \in Daemons |-> "off"]
    /\ lock = None
    /\ sockPath \in {Ghost, None}
    /\ tokenFile \in {Ghost, None}
    /\ listening = {}
    /\ client = [c \in Clients |-> "dial"]
    /\ target = [c \in Clients |-> None]
    /\ tokenRead = [c \in Clients |-> None]

Goto(d, from, to) == pc[d] = from /\ pc' = [pc EXCEPT ![d] = to]

\* A dial reaches the daemon whose socket the path names, if it is open.
Reachable == sockPath \in listening

----------------------------------------------------------------------------
(* serveDaemon and Start.                                                  *)

\* `daemon serve` by hand.
Serve(d) ==
    /\ Goto(d, "off", "probe")
    /\ UNCHANGED <<listening, files, clientVars>>

Probe(d) ==
    /\ Goto(d, "probe", IF Reachable THEN "exited" ELSE "lock")
    /\ UNCHANGED <<listening, files, clientVars>>

\* Mutant: the lock is taken over from a peer that holds it.
StealLock(d) ==
    /\ Goto(d, "lock", "token")
    /\ lock' = d
    /\ UNCHANGED <<listening, sockPath, tokenFile, clientVars>>

AcquireLock(d) ==
    /\ lock = None
    /\ Goto(d, "lock", "token")
    /\ lock' = d
    /\ UNCHANGED <<listening, sockPath, tokenFile, clientVars>>

\* Mutant: a loser cleans up as if its own start had failed.
LoserCleansUp(d) ==
    /\ lock # None
    /\ Goto(d, "lock", "exited")
    /\ tokenFile' = None
    /\ UNCHANGED <<listening, lock, sockPath, clientVars>>

\* ErrSingletonHeld: nothing to undo, the process ends with success.
LockHeldByPeer(d) ==
    /\ lock # None
    /\ Goto(d, "lock", "exited")
    /\ UNCHANGED <<listening, files, clientVars>>

WriteToken(d) ==
    /\ Goto(d, "token", "listen")
    /\ tokenFile' = d
    /\ UNCHANGED <<listening, lock, sockPath, clientVars>>

\* The file was not created, or was removed, or was written after all; Start
\* releases the lock and serveDaemon goes on to Stop.
WriteTokenFails(d) ==
    /\ "token" \in StartFaults
    /\ Goto(d, "token", "cleanup")
    /\ tokenFile' \in {tokenFile, None, d}
    /\ lock' = None
    /\ UNCHANGED <<listening, sockPath, clientVars>>

\* Listen: remove a stale socket, bind, listen.
Listen(d) ==
    /\ Goto(d, "listen", "serving")
    /\ sockPath' = d
    /\ listening' = listening \cup {d}
    /\ UNCHANGED <<lock, tokenFile, clientVars>>

\* The stale socket is removed first, unless the removal is what failed.
ListenFails(d) ==
    /\ "bind" \in StartFaults
    /\ Goto(d, "listen", "cleanup")
    /\ sockPath' \in {sockPath, None}
    /\ lock' = None
    /\ UNCHANGED <<listening, tokenFile, clientVars>>

\* Stop after a Start that failed: there is no listener and no lock any more,
\* but tokenPath is set and the file is removed.
CleanUp(d) ==
    /\ Goto(d, "cleanup", "failed")
    /\ tokenFile' = None
    /\ UNCHANGED <<listening, lock, sockPath, clientVars>>

----------------------------------------------------------------------------
(* Stop of a serving daemon, and crashes.                                  *)

\* Mutant: the lock is given up first.
UnlockFirst(d) ==
    /\ d \in MayStop
    /\ Goto(d, "serving", "removeToken")
    /\ sockPath' = None
    /\ listening' = listening \ {d}
    /\ lock' = None
    /\ UNCHANGED <<tokenFile, clientVars>>

\* ln.Close closes the socket and unlinks its path.
CloseListener(d) ==
    /\ d \in MayStop
    /\ Goto(d, "serving", "removeToken")
    /\ sockPath' = None
    /\ listening' = listening \ {d}
    /\ UNCHANGED <<lock, tokenFile, clientVars>>

RemoveToken(d) ==
    /\ Goto(d, "removeToken", "release")
    /\ tokenFile' = None
    /\ UNCHANGED <<listening, lock, sockPath, clientVars>>

\* After the drain: release the lock and end the process.
ReleaseLock(d) ==
    /\ Goto(d, "release", "exited")
    /\ lock' = None
    /\ UNCHANGED <<listening, sockPath, tokenFile, clientVars>>

\* The kernel closes the descriptors, which frees the lock; the files stay.
Crash(d) ==
    /\ d \in MayCrash
    /\ pc[d] \in Running
    /\ pc' = [pc EXCEPT ![d] = "crashed"]
    /\ lock' = IF lock = d THEN None ELSE lock
    /\ listening' = listening \ {d}
    /\ UNCHANGED <<sockPath, tokenFile, clientVars>>

----------------------------------------------------------------------------
(* dialAndWrap.                                                            *)

\* Mutant: the token is read once, before the dial succeeds.
DialWithOldToken(c) ==
    /\ client[c] \in {"dial", "poll"}
    /\ \/ /\ ~Reachable
          /\ tokenRead' = [tokenRead EXCEPT ![c] = tokenFile]
          /\ UNCHANGED <<client, target>>
       \/ /\ Reachable
          /\ client' = [client EXCEPT ![c] = IF tokenRead[c] = None THEN "dialed" ELSE "hello"]
          /\ target' = [target EXCEPT ![c] = sockPath]
          /\ UNCHANGED tokenRead
    /\ UNCHANGED <<pc, listening, files>>

\* Dial now, or (the first time only) go and spawn a daemon.
Dial(c) ==
    /\ client[c] \in {"dial", "poll"}
    /\ Reachable
    /\ client' = [client EXCEPT ![c] = "dialed"]
    /\ target' = [target EXCEPT ![c] = sockPath]
    /\ UNCHANGED <<pc, listening, files, tokenRead>>

DialRefused(c) ==
    /\ client[c] = "dial"
    /\ ~Reachable
    /\ client' = [client EXCEPT ![c] = "spawn"]
    /\ UNCHANGED <<pc, listening, files, target, tokenRead>>

Autospawn(c, d) ==
    /\ client[c] = "spawn"
    /\ Goto(d, "off", "probe")
    /\ client' = [client EXCEPT ![c] = "poll"]
    /\ UNCHANGED <<listening, files, target, tokenRead>>

\* The executable does not start, which is not fatal (a peer may be spawning
\* the daemon), or the crash-loop guard refuses the spawn, which is.
AutospawnFails(c) ==
    /\ MayGiveUp
    /\ client[c] = "spawn"
    /\ \E to \in {"poll", "failed"} : client' = [client EXCEPT ![c] = to]
    /\ UNCHANGED <<pc, listening, files, target, tokenRead>>

\* waitLive and pollDial come to the end of their budgets.
GiveUp(c) ==
    /\ MayGiveUp
    /\ client[c] = "poll"
    /\ ~Reachable
    /\ client' = [client EXCEPT ![c] = "failed"]
    /\ UNCHANGED <<pc, listening, files, target, tokenRead>>

\* newAuthClientFn reads the token of whoever has written it last.
ReadToken(c) ==
    /\ client[c] = "dialed"
    /\ tokenRead' = [tokenRead EXCEPT ![c] = tokenFile]
    /\ client' = [client EXCEPT ![c] = IF tokenFile = None THEN "failed" ELSE "hello"]
    /\ UNCHANGED <<pc, listening, files, target>>

\* sys.hello: the server compares tokens.  A daemon that is closing its
\* listener may still have accepted the connection, or have dropped it.
HelloAccepted(c) ==
    /\ client[c] = "hello"
    /\ pc[target[c]] \in {"serving", "removeToken", "release"}
    /\ tokenRead[c] = target[c]
    /\ client' = [client EXCEPT ![c] = "connected"]
    /\ UNCHANGED <<pc, listening, files, target, tokenRead>>

HelloFails(c) ==
    /\ client[c] = "hello"
    /\ pc[target[c]] # "serving" \/ tokenRead[c] # target[c]
    /\ client' = [client EXCEPT ![c] = "failed"]
    /\ UNCHANGED <<pc, listening, files, target, tokenRead>>

----------------------------------------------------------------------------

StartStep(d) ==
    \/ Probe(d) \/ AcquireLock(d) \/ LockHeldByPeer(d)
    \/ WriteToken(d) \/ WriteTokenFails(d) \/ Listen(d) \/ ListenFails(d)
    \/ CleanUp(d)

StopStep(d) == RemoveToken(d) \/ ReleaseLock(d)

ClientStep(c) ==
    \/ Dial(c) \/ DialRefused(c) \/ AutospawnFails(c) \/ GiveUp(c)
    \/ ReadToken(c) \/ HelloAccepted(c) \/ HelloFails(c)
    \/ \E d \in Daemons : Autospawn(c, d)

\* Every client has its answer and every daemon has settled.
Quiet ==
    /\ \A c \in Clients : client[c] \in {"spawn", "poll", "connected", "failed"}
    /\ \A d \in Daemons : pc[d] \in {"off", "serving", "exited", "failed", "crashed"}
    /\ UNCHANGED vars

Next ==
    \/ \E d \in Daemons :
         Serve(d) \/ StartStep(d) \/ CloseListener(d) \/ StopStep(d) \/ Crash(d)
    \/ \E c \in Clients : ClientStep(c)
    \/ Quiet

Spec == Init /\ [][Next]_vars

\* Processes that run go on running; commands, signals and crashes are
\* not required.
Fairness ==
    /\ \A d \in Daemons : WF_vars(StartStep(d)) /\ WF_vars(StopStep(d))
    /\ \A c \in Clients : WF_vars(ClientStep(c))

FairSpec == Spec /\ Fairness

----------------------------------------------------------------------------
(* Properties.                                                             *)

\* A daemon that listens holds the lock and is the one daemon.sock leads to:
\* two daemons never listen at once, and nobody's socket is hijacked, even
\* when starts fail and daemons crash (listen_posix.go: "the remove cannot
\* hijack another daemon's listener").
EndpointOwned == \A d \in listening : lock = d /\ sockPath = d

\* The token on disk is that of the daemon that listens, so that whoever can
\* dial it can authenticate; "autospawn races and manual re-invocation are
\* harmless" (cmd/daemon.go).
TokenKept == \A d \in listening : tokenFile = d

\* That is so until a daemon whose start has failed half-way cleans up; before
\* that, no race of starts, stops, crashes and failing starts disturbs it.
TokenOwned == (\A d \in Daemons : pc[d] # "failed") => TokenKept

\* A client that has dialled before it read the token holds the right one for
\* as long as the daemon it is connected to serves, whatever crashed daemons
\* have left on disk and whatever failed starts have removed.
RightToken ==
    \A c \in Clients :
        client[c] = "hello" /\ pc[target[c]] = "serving" => tokenRead[c] = target[c]

\* Any number of clients that autospawn at once are all connected in the end,
\* unless one gives up polling, is refused the spawn, or the daemons are
\* disturbed otherwise: those that lose the race do no harm.
Disturbed ==
    \E d \in Daemons : pc[d] \in {"removeToken", "release", "failed", "crashed"}

GaveUp(c) == client[c] = "failed" /\ target[c] = None

RacesHarmless ==
    \A c \in Clients : <>(client[c] = "connected" \/ GaveUp(c) \/ Disturbed)

=============================================================================

----------------------------- MODULE McpInstances -----------------------------
(***************************************************************************)
(* The stdio servers of `unravel mcp`, the registry of their instances     *)
(* (one file per PID) and `unravel mcp clean`.  A server registers,        *)
(* touches its record and resets its idle timer for every request, ends    *)
(* when the timer fires, its parent dies or its client leaves, and then    *)
(* removes its record; a killed one leaves it behind.  Cleaners list and   *)
(* remove records; PIDs are used again, though not those of the parents.   *)
(* The host is a Unix, where an orphan is adopted.                         *)
(*                                                                         *)
(* Of the time since the last activity only this is kept: whether a second *)
(* has passed, and whether a record is older than staleThreshold.  A write *)
(* to the registry is atomic (a rename); its temporary file is nobody      *)
(* else's.                                                                 *)
(***************************************************************************)
EXTENDS Integers, FiniteSets

CONSTANTS
    Servers,     \* server processes, numbered in the order they start
    Cleaners,    \* processes of `unravel mcp clean`, one after another
    Pids,        \* PIDs of both
    Callers,     \* servers whose client sends requests
    Timed,       \* servers with an idle timeout
    MaxLive,     \* bound on the servers that live at once
    MaxFaults,   \* bound on kills, failed writes and failed removals
    Nothing

Procs == Servers \cup Cleaners

ASSUME InstancesAssumption ==
    /\ Callers \subseteq Servers /\ Timed \subseteq Servers
    /\ Servers \cap Cleaners = {} /\ Nothing \notin Procs \cup Pids
    /\ Pids \subseteq Nat /\ Servers \subseteq Nat
    /\ MaxFaults \in Nat /\ MaxLive \in Nat \ {0}

VARIABLES
    phase,      \* where Serve is
    pid,        \* the PID of a live process, Nothing for others
    orphaned,   \* servers whose parent is dead
    recorded,   \* servers whose record names their parent
    watched,    \* servers that watch their parent
    open,       \* instances with a path: registered and not closed
    fresh,      \* instances touched within a second
    request,    \* the request the middleware has in hand
    busy,       \* servers with a handler at work
    timer,      \* [armed, fired]: it runs; a callback waits for its mutex
    stopped,    \* timers that are stopped
    cancelled,  \* servers whose context is cancelled
    file,       \* the registry, by PID
    force,      \* the flag of a Clean
    unread,     \* what its List has yet to read
    seen,       \* the entries it has yet to judge
    doomed,     \* the one it is about to remove
    faults      \* faults so far

idle == <<timer, stopped>>
parent == <<orphaned, recorded, watched>>
server == <<phase, parent, open, fresh, request, busy, idle, cancelled>>
cleaner == <<force, unread, seen, doomed>>
mcpVars == <<server, pid, file, cleaner, faults>>

Entry == [of : Servers, stale : BOOLEAN]
Seen == [pid : Pids, of : Servers, stale : BOOLEAN]

Alive(p) == pid[p] # Nothing
Used == {pid[p] : p \in {q \in Procs : Alive(q)}}
OnFile(s) == \E p \in Pids : file[p] # Nothing /\ file[p].of = s

McpTypeOK ==
    /\ phase \in [Servers -> {"new", "starting", "registered", "serving", "stopping",
                           "closed", "exited", "killed"}]
    /\ pid \in [Procs -> Pids \cup {Nothing}]
    /\ \A p, q \in Procs : p # q /\ Alive(p) => pid[p] # pid[q]
    /\ orphaned \subseteq Servers /\ recorded \subseteq Servers /\ watched \subseteq Servers
    /\ open \subseteq Servers
    /\ fresh \subseteq Servers
    /\ request \in [Servers -> {"none", "received", "touched"}]
    /\ busy \subseteq Servers
    /\ timer \in [Servers -> [armed : BOOLEAN, fired : BOOLEAN]]
    /\ \A s \in stopped : s \in cancelled
    /\ cancelled \subseteq Servers
    /\ file \in [Pids -> Entry \cup {Nothing}]
    /\ \A p \in Pids : file[p] # Nothing /\ Alive(file[p].of) => pid[file[p].of] = p
    /\ force \in [Cleaners -> BOOLEAN]
    /\ unread \in [Cleaners -> SUBSET Pids]
    /\ seen \in [Cleaners -> SUBSET Seen]
    /\ doomed \in [Cleaners -> Seen \cup {Nothing}]
    /\ faults \in 0..MaxFaults

McpInit ==
    /\ phase = [s \in Servers |-> "new"]
    /\ pid = [p \in Procs |-> Nothing]
    /\ orphaned = {} /\ recorded = {} /\ watched = {}
    /\ open = {}
    /\ fresh = {}
    /\ request = [s \in Servers |-> "none"]
    /\ busy = {}
    /\ timer = [s \in Servers |-> [armed |-> FALSE, fired |-> FALSE]]
    /\ stopped = {}
    /\ cancelled = {}
    /\ file = [p \in Pids |-> Nothing]
    /\ force = [c \in Cleaners |-> FALSE]
    /\ unread = [c \in Cleaners |-> {}]
    /\ seen = [c \in Cleaners |-> {}]
    /\ doomed = [c \in Cleaners |-> Nothing]
    /\ faults = 0

Enter(s, l) == phase' = [phase EXCEPT ![s] = l]
Fault == faults < MaxFaults /\ faults' = faults + 1

----------------------------------------------------------------------------
(* Serve and the registry's Instance.                                      *)

Start(s, p) ==
    /\ phase[s] = "new" /\ \A t \in Servers : t < s => phase[t] # "new"
    /\ Cardinality({t \in Servers : Alive(t)}) < MaxLive
    /\ p \in Pids \ Used
    /\ pid' = [pid EXCEPT ![s] = p]
    /\ Enter(s, "starting")
    /\ UNCHANGED <<parent, open, fresh, request, busy, idle, cancelled, file, cleaner, faults>>

Write(s) == file' = [file EXCEPT ![pid[s]] = [of |-> s, stale |-> FALSE]]

\* The PID of a parent that has died is 1 by now, which Clean asks nothing of.
Register(s) ==
    /\ phase[s] = "starting"
    /\ Enter(s, "registered")
    /\ recorded' = recorded \cup ({s} \ orphaned)
    /\ open' = open \cup {s}
    /\ fresh' = fresh \cup {s}
    /\ Write(s)
    /\ UNCHANGED <<orphaned, watched, pid, request, busy, idle, cancelled, cleaner, faults>>

\* The registry is off for this instance.
RegisterFails(s) ==
    /\ phase[s] = "starting" /\ Fault
    /\ Enter(s, "registered")
    /\ UNCHANGED <<parent, pid, open, fresh, request, busy, idle, cancelled, file, cleaner>>

\* The tools, the idle timer and the watcher, which watches no parent whose
\* PID is 1 by now.
Serving(s) ==
    /\ phase[s] = "registered"
    /\ Enter(s, "serving")
    /\ watched' = watched \cup ({s} \ orphaned)
    /\ timer' = IF s \in Timed
                  THEN [timer EXCEPT ![s] = [armed |-> TRUE, fired |-> FALSE]]
                  ELSE timer
    /\ UNCHANGED <<orphaned, recorded, pid, open, fresh, request, busy, stopped, cancelled,
                   file, cleaner, faults>>

\* The middleware: Touch, then the reset of the timer.
Receive(s) ==
    /\ s \in Callers
    /\ phase[s] = "serving" /\ request[s] = "none"
    /\ request' = [request EXCEPT ![s] = "received"]
    /\ UNCHANGED <<phase, parent, open, busy, fresh, idle, cancelled, pid, file, cleaner,
                   faults>>

Touched(s) ==
    /\ request[s] = "received" /\ Alive(s)
    /\ request' = [request EXCEPT ![s] = "touched"]
    /\ UNCHANGED <<phase, parent, open, busy, idle, cancelled, pid, cleaner>>

\* Mutant: only a record that exists is written.
TouchUpdates(s) ==
    /\ Touched(s)
    /\ IF s \in open \ fresh
         THEN fresh' = fresh \cup {s} /\ IF OnFile(s) THEN Write(s) ELSE UNCHANGED file
         ELSE UNCHANGED <<fresh, file>>
    /\ UNCHANGED faults

Touch(s) ==
    /\ Touched(s)
    /\ IF s \in open \ fresh
         THEN fresh' = fresh \cup {s} /\ Write(s)
         ELSE UNCHANGED <<fresh, file>>
    /\ UNCHANGED faults

TouchFails(s) ==
    /\ Touched(s)
    /\ s \in open \ fresh
    /\ fresh' = fresh \cup {s}
    /\ Fault
    /\ UNCHANGED file

\* Mutant: the timer is stopped and not started again.
ResetStops(s) ==
    /\ request[s] = "touched" /\ Alive(s)
    /\ request' = [request EXCEPT ![s] = "none"]
    /\ busy' = busy \cup {s}
    /\ timer' = IF s \in stopped THEN timer ELSE [timer EXCEPT ![s].armed = FALSE]
    /\ UNCHANGED <<phase, parent, open, fresh, stopped, cancelled, pid, file, cleaner, faults>>

\* Timer.Reset, and the handler begins; a callback that waits is not called off.
Reset(s) ==
    /\ request[s] = "touched" /\ Alive(s)
    /\ request' = [request EXCEPT ![s] = "none"]
    /\ busy' = busy \cup {s}
    /\ timer' = IF s \in Timed \ stopped
                  THEN [timer EXCEPT ![s] = [armed |-> TRUE, fired |-> @.fired]]
                  ELSE timer
    /\ UNCHANGED <<phase, parent, open, fresh, stopped, cancelled, pid, file, cleaner, faults>>

HandlersReturn(s) ==
    /\ s \in busy
    /\ busy' = busy \ {s}
    /\ UNCHANGED <<phase, parent, open, fresh, request, idle, cancelled, pid, file, cleaner,
                   faults>>

Expire(s) ==
    /\ timer[s].armed /\ Alive(s)
    /\ timer' = [timer EXCEPT ![s] = [armed |-> FALSE, fired |-> TRUE]]
    /\ UNCHANGED <<phase, parent, open, fresh, request, busy, stopped, cancelled, pid, file,
                   cleaner,
                   faults>>

\* onIdle; a callback that comes later finds the timer stopped and does
\* nothing, so none is kept.
Callback(s) ==
    /\ timer[s].fired /\ Alive(s)
    /\ timer' = [timer EXCEPT ![s] = [armed |-> FALSE, fired |-> FALSE]]
    /\ stopped' = stopped \cup {s}
    /\ cancelled' = cancelled \cup {s}
    /\ UNCHANGED <<phase, parent, open, fresh, request, busy, pid, file, cleaner, faults>>

WatchParent(s) ==
    /\ phase[s] = "serving" /\ s \in (orphaned \cap watched) \ cancelled
    /\ cancelled' = cancelled \cup {s}
    /\ UNCHANGED <<phase, parent, open, fresh, request, busy, idle, pid, file, cleaner,
                   faults>>

\* Run returns: the context is cancelled, or the client has gone.  Closing the
\* session waits for handlers at work, though no promise of this is relied on.
Unwind(s) ==
    /\ phase[s] = "serving" /\ s \in cancelled
    /\ Enter(s, "stopping")
    /\ UNCHANGED <<parent, open, fresh, request, busy, idle, cancelled, pid, file, cleaner,
                   faults>>

ClientLeaves(s) ==
    /\ phase[s] = "serving" /\ s \notin cancelled
    /\ Enter(s, "stopping")
    /\ UNCHANGED <<parent, open, fresh, request, busy, idle, cancelled, pid, file, cleaner,
                   faults>>

Remove(p) == file' = [file EXCEPT ![p] = Nothing]

\* Mutant: the path is kept.
CloseKeepsPath(s) ==
    /\ phase[s] = "stopping"
    /\ Enter(s, "closed")
    /\ IF s \in open THEN Remove(pid[s]) ELSE UNCHANGED file
    /\ UNCHANGED <<parent, open, fresh, request, busy, idle, cancelled, pid, cleaner, faults>>

\* The deferred Close; handlers may still be running.
Close(s) ==
    /\ phase[s] = "stopping"
    /\ Enter(s, "closed")
    /\ open' = open \ {s}
    /\ IF s \in open THEN Remove(pid[s]) ELSE UNCHANGED file
    /\ UNCHANGED <<parent, fresh, request, busy, idle, cancelled, pid, cleaner, faults>>

\* The file cannot be removed: the path is forgotten all the same.
CloseFails(s) ==
    /\ phase[s] = "stopping" /\ s \in open
    /\ Fault
    /\ Enter(s, "closed")
    /\ open' = open \ {s}
    /\ UNCHANGED <<parent, fresh, request, busy, idle, cancelled, pid, file, cleaner>>

Leave(s, l) ==
    /\ Enter(s, l)
    /\ pid' = [pid EXCEPT ![s] = Nothing]
    /\ request' = [request EXCEPT ![s] = "none"]
    /\ busy' = busy \ {s}
    /\ watched' = watched \ {s}
    /\ timer' = [timer EXCEPT ![s] = [armed |-> FALSE, fired |-> FALSE]]
    /\ open' = open \ {s}
    /\ fresh' = fresh \ {s}
    /\ stopped' = stopped \ {s}
    /\ cancelled' = cancelled \ {s}
    /\ UNCHANGED <<orphaned, recorded, file, cleaner>>

Exit(s) == phase[s] = "closed" /\ Leave(s, "exited") /\ UNCHANGED faults

----------------------------------------------------------------------------
(* Clean; the directory is read in the order of the PIDs.                  *)

\* A process, and ReadDir.
CleanStart(c, p, f) ==
    /\ ~Alive(c)
    /\ p \in Pids \ Used
    /\ pid' = [pid EXCEPT ![c] = p]
    /\ force' = [force EXCEPT ![c] = f]
    /\ unread' = [unread EXCEPT ![c] = {q \in Pids : file[q] # Nothing}]
    /\ UNCHANGED <<server, file, seen, doomed, faults>>

ReadEntry(c, p) ==
    /\ p \in unread[c] /\ \A q \in unread[c] : p <= q
    /\ unread' = [unread EXCEPT ![c] = @ \ {p}]
    /\ seen' = [seen EXCEPT ![c] =
                    IF file[p] = Nothing THEN @
                    ELSE @ \cup {[pid |-> p, of |-> file[p].of, stale |-> file[p].stale]}]
    /\ UNCHANGED <<server, pid, file, force, doomed, faults>>

\* Mutant: silence is enough.
EligibleSilent(c, e) ==
    \/ e.pid \notin Used
    \/ e.stale
    \/ force[c]

Eligible(c, e) ==
    \/ e.pid \notin Used
    \/ e.of \in recorded \cap orphaned /\ e.stale
    \/ force[c]

Judge(c, e) ==
    /\ unread[c] = {} /\ doomed[c] = Nothing
    /\ e \in seen[c] /\ \A d \in seen[c] : e.pid <= d.pid
    /\ seen' = [seen EXCEPT ![c] = @ \ {e}]
    /\ doomed' = [doomed EXCEPT ![c] = IF e.pid # pid[c] /\ Eligible(c, e) THEN e ELSE Nothing]
    /\ UNCHANGED <<server, pid, file, force, unread, faults>>

RemoveEntry(c) ==
    /\ doomed[c] # Nothing
    /\ Remove(doomed[c].pid)
    /\ doomed' = [doomed EXCEPT ![c] = Nothing]
    /\ UNCHANGED <<server, pid, force, unread, seen, faults>>

RemoveFails(c) ==
    /\ doomed[c] # Nothing
    /\ Fault
    /\ doomed' = [doomed EXCEPT ![c] = Nothing]
    /\ UNCHANGED <<server, pid, file, force, unread, seen>>

CleanEnd(c) ==
    /\ Alive(c) /\ unread[c] = {} /\ seen[c] = {} /\ doomed[c] = Nothing
    /\ pid' = [pid EXCEPT ![c] = Nothing]
    /\ force' = [force EXCEPT ![c] = FALSE]
    /\ UNCHANGED <<server, file, unread, seen, doomed, faults>>

----------------------------------------------------------------------------
(* The environment.                                                        *)

\* It matters no more when the server and its record are gone.
ParentDies(s) ==
    /\ Alive(s) \/ OnFile(s)
    /\ s \notin orphaned
    /\ orphaned' = orphaned \cup {s}
    /\ UNCHANGED <<phase, recorded, watched, open, fresh, request, busy, idle, cancelled, pid,
                   file, cleaner, faults>>

Kill(s) ==
    /\ Alive(s) /\ Fault
    /\ Leave(s, "killed")

SecondPasses(s) ==
    /\ s \in fresh
    /\ fresh' = fresh \ {s}
    /\ UNCHANGED <<phase, parent, open, request, busy, idle, cancelled, pid, file, cleaner,
                   faults>>

\* staleThreshold passes since the activity on record.
GoStale(p) ==
    /\ file[p] # Nothing /\ ~file[p].stale
    /\ file[p].of \notin fresh
    /\ file' = [file EXCEPT ![p] = [of |-> @.of, stale |-> TRUE]]
    /\ UNCHANGED <<server, pid, cleaner, faults>>

ServerStep(s) ==
    \/ \E p \in Pids : Start(s, p)
    \/ Register(s) \/ RegisterFails(s) \/ Serving(s)
    \/ Receive(s) \/ Touch(s) \/ TouchFails(s) \/ Reset(s) \/ HandlersReturn(s)
    \/ Expire(s) \/ Callback(s) \/ WatchParent(s)
    \/ Unwind(s) \/ ClientLeaves(s) \/ Close(s) \/ CloseFails(s) \/ Exit(s)
    \/ ParentDies(s) \/ Kill(s) \/ SecondPasses(s)

CleanerStep(c) ==
    \/ \E p \in Pids, f \in BOOLEAN : CleanStart(c, p, f)
    \/ \E p \in Pids : ReadEntry(c, p)
    \/ \E e \in seen[c] : Judge(c, e)
    \/ RemoveEntry(c) \/ RemoveFails(c) \/ CleanEnd(c)

McpNext ==
    \/ \E s \in Servers : ServerStep(s)
    \/ \E c \in Cleaners : CleanerStep(c)
    \/ \E p \in Pids : GoStale(p)

McpSpec == McpInit /\ [][McpNext]_mcpVars

(* Every goroutine of a server runs, and time passes; a timer expires if   *)
(* no request comes.  A server without requests or timer needs none of the *)
(* conditions about them.  A handler may work for ever; Run returns if     *)
(* there are moments enough when none does.  Somebody cleans again and     *)
(* again, and a Clean that has begun ends.                                 *)
McpFairness ==
    /\ \A s \in Servers :
          /\ WF_mcpVars(Register(s) \/ Serving(s) \/ Callback(s) \/ WatchParent(s)
                     \/ Close(s) \/ Exit(s))
          /\ SF_mcpVars(s \notin busy /\ Unwind(s))
    /\ \A s \in Callers : WF_mcpVars(Touch(s) \/ Reset(s)) /\ WF_mcpVars(SecondPasses(s))
    /\ \A s \in Timed : WF_mcpVars(request[s] = "none" /\ Expire(s))
    /\ \A c \in Cleaners :
          /\ WF_mcpVars((\E p \in Pids : ReadEntry(c, p)) \/ (\E e \in seen[c] : Judge(c, e))
                     \/ RemoveEntry(c) \/ CleanEnd(c))
          /\ WF_mcpVars(\E p \in Pids, f \in BOOLEAN : CleanStart(c, p, f))

McpFairSpec == McpSpec /\ McpFairness

----------------------------------------------------------------------------
(* Properties.                                                             *)

\* A server that has closed its record or is dead writes none any more, also
\* when handlers are still at work or the file could not be removed: its
\* entry, if one is left, is not renewed, and one that is gone stays away.
Gone(s) == phase[s] \in {"closed", "exited", "killed"}
ClosedStaysGone ==
    [][\A s \in Servers, p \in Pids :
          Gone(s) /\ file'[p] # Nothing /\ file'[p].of = s =>
              /\ file[p] # Nothing /\ file[p].of = s
              /\ file[p].stale => file'[p].stale]_mcpVars

\* The registry holds records of servers that have had their PID, and none of
\* them is written by a server that has closed.
RegistrySound == []McpTypeOK /\ ClosedStaysGone

\* "leaves entries with a living parent intact" (lifecycle_test.go): without
\* force, Clean removes the record of a live server with a live parent only
\* if the PID has changed hands since it read the record.
CleanSparesLive ==
    [][\A c \in Cleaners :
          LET e == doomed[c]
          IN  RemoveEntry(c) /\ ~force[c] /\ file[e.pid] # Nothing =>
                  LET s == file[e.pid].of
                  IN  ~Alive(s) \/ s \in orphaned \/ s # e.of]_mcpVars

\* The record of a live server that was removed all the same comes back as
\* long as requests keep coming.
Relisted ==
    \A s \in Callers :
        ([]<>(request[s] = "received")) =>
            (phase[s] = "serving" /\ s \in open /\ ~OnFile(s)
                ~> phase[s] # "serving" \/ OnFile(s))

\* The record of a dead server goes, unless its PID lives on.
DeadGo ==
    \A p \in Pids :
        (file[p] # Nothing /\ ~Alive(file[p].of)) ~> (file[p] = Nothing \/ p \in Used)

\* What List shows converges to the servers that live.
ListConverges == Relisted /\ DeadGo

\* A server that loses the parent it watches, or gets no more requests, ends
\* unless a handler works for ever: a reset that meets a waiting callback
\* leaves neither a dead timer nor a live one.  Who loses its parent before the
\* watcher starts is watched by nobody.
ServerEnds ==
    /\ \A s \in Servers :
          ([]<>(s \notin busy)) => (s \in orphaned \cap watched ~> ~Alive(s))
    /\ \A s \in Timed :
          (<>[](request[s] = "none" /\ s \notin busy)) =>
              []<>(phase[s] \in {"new", "exited", "killed"})

\* "every incoming JSON-RPC request (...) resets the countdown" (server.go,
\* of newServerWithIdle): no idle exit once the timer has been reset.
IdleMeansIdle == [][\A s \in Servers : Callback(s) => ~timer[s].armed]_mcpVars

\* "removes any entry whose parent or self is dead" (lifecycle.go, of force).
ForceSparesLive ==
    [][\A c \in Cleaners :
          LET e == doomed[c]
          IN  RemoveEntry(c) /\ file[e.pid] # Nothing /\ file[e.pid].of = e.of =>
                  ~Alive(e.of) \/ e.of \in orphaned]_mcpVars
=============================================================================

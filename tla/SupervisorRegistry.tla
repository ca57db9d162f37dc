------------------------ MODULE SupervisorRegistry ------------------------
(***************************************************************************)
(* The in-memory registry of a supervisor: agents, their sessions and the  *)
(* workspaces the agents pin (internal/supervisor/agent.go, session.go,    *)
(* workspace.go) and the reaper of stale sessions (heartbeat.go).          *)
(*                                                                         *)
(* The server runs every verb in a goroutine of its own, and each map has  *)
(* a mutex of its own, so a handler is atomic only from one Lock to the    *)
(* matching Unlock: those are the steps of this module.  Read-only verbs   *)
(* (list, show) and session.rebind_cwd, which touches a field no other     *)
(* verb reads, are left out.                                               *)
(***************************************************************************)

CONSTANTS
    Threads,     \* dispatch goroutines that run at the same time
    Agents,      \* bound: agent ids newID may issue
    Sessions,    \* bound: session ids newID may issue
    Workspaces,  \* bound: workspace ids newID may issue
    Apps,        \* application names
    ConnectWs,   \* workspace ids a client may pass to session.connect
    Silent,      \* sessions whose client may stop sending heartbeats
    Reaper,      \* the goroutine of heartbeatReaper
    None         \* the empty string

ASSUME RegistryAssumption ==
    /\ Reaper \notin Threads
    /\ None \notin Agents \cup Sessions \cup Workspaces \cup Apps
    /\ ConnectWs \subseteq Workspaces
    /\ Silent \subseteq Sessions

VARIABLES
    agents,      \* keys of Supervisor.agents
    registered,  \* agent ids issued so far
    sessions,    \* keys of Supervisor.sessions
    agentOf,     \* SessionRecord.AgentID; None until the id is issued
    wsOf,        \* SessionRecord.WorkspaceID
    stale,       \* sessions whose last heartbeat is older than heartbeatTimeout
    rows,        \* keys of Supervisor.workspaces
    appOf,       \* WorkspaceRecord.App; None until the id is issued
    agentSet,    \* WorkspaceRecord.AgentSet
    at           \* for each goroutine, its step and its local variables

agentVars == <<agents, registered>>
sessionVars == <<sessions, agentOf, wsOf, stale>>
workspaceVars == <<rows, appOf, agentSet>>
vars == <<agentVars, sessionVars, workspaceVars, at>>

Procs == Threads \cup {Reaper}
Steps == {"idle", "insert", "collect", "detach", "unpin", "pin", "bind"}

\* A goroutine between two requests, and one that is at a given step.
Idle == [pc |-> "idle", agent |-> None, sess |-> None, app |-> None, ws |-> None,
         victims |-> {}]
Free(t) == at[t] = Idle
Goto(t, frame) == at' = [at EXCEPT ![t] = frame]

TypeOK ==
    /\ agents \subseteq registered /\ registered \subseteq Agents
    /\ sessions \subseteq Sessions
    /\ agentOf \in [Sessions -> Agents \cup {None}]
    /\ wsOf \in [Sessions -> Workspaces \cup {None}]
    /\ stale \subseteq Sessions
    /\ rows \subseteq Workspaces
    /\ appOf \in [Workspaces -> Apps \cup {None}]
    /\ agentSet \in [Workspaces -> SUBSET Agents]
    /\ at \in [Procs -> [pc : Steps, agent : Agents \cup {None},
                         sess : Sessions \cup {None}, app : Apps \cup {None},
                         ws : Workspaces \cup {None}, victims : SUBSET Sessions]]

Init ==
    /\ agents = {}
    /\ registered = {}
    /\ sessions = {}
    /\ agentOf = [s \in Sessions |-> None]
    /\ wsOf = [s \in Sessions |-> None]
    /\ stale = {}
    /\ rows = {}
    /\ appOf = [w \in Workspaces |-> None]
    /\ agentSet = [w \in Workspaces |-> {}]
    /\ at = [t \in Procs |-> Idle]

----------------------------------------------------------------------------
(* agent.register, agent.unregister.                                       *)

Register(t, a) ==
    /\ Free(t)
    /\ a \notin registered
    /\ agents' = agents \cup {a}
    /\ registered' = registered \cup {a}
    /\ UNCHANGED <<sessionVars, workspaceVars, at>>

\* Unregistering an unknown agent is an error and changes nothing.
Unregister(t, a) ==
    /\ Free(t)
    /\ a \in agents
    /\ agents' = agents \ {a}
    /\ Goto(t, [Idle EXCEPT !.pc = "collect", !.agent = a])
    /\ UNCHANGED <<registered, sessionVars, workspaceVars>>

\* The sessions of the agent, collected under the read lock.
CollectVictims(t) ==
    /\ at[t].pc = "collect"
    /\ Goto(t, [Idle EXCEPT !.pc = "detach",
                            !.victims = {s \in sessions : agentOf[s] = at[t].agent}])
    /\ UNCHANGED <<agentVars, sessionVars, workspaceVars>>

----------------------------------------------------------------------------
(* session.connect, session.disconnect, session.heartbeat.                 *)

\* The agent is looked up under agentsMu ...
Connect(t, a) ==
    /\ Free(t)
    /\ a \in agents
    /\ Goto(t, [Idle EXCEPT !.pc = "insert", !.agent = a])
    /\ UNCHANGED <<agentVars, sessionVars, workspaceVars>>

\* ... and the session inserted under sessionsMu, with the workspace id the
\* client sent, whatever it is.
InsertSession(t, s, w) ==
    /\ at[t].pc = "insert"
    /\ agentOf[s] = None
    /\ w \in ConnectWs \cup {None}
    /\ sessions' = sessions \cup {s}
    /\ agentOf' = [agentOf EXCEPT ![s] = at[t].agent]
    /\ wsOf' = [wsOf EXCEPT ![s] = w]
    /\ Goto(t, Idle)
    /\ UNCHANGED <<agentVars, stale, workspaceVars>>

\* The goroutine is about to run detachSession on these sessions.
Disconnect(t, s) ==
    /\ Free(t)
    /\ Goto(t, [Idle EXCEPT !.pc = "detach", !.victims = {s}])
    /\ UNCHANGED <<agentVars, sessionVars, workspaceVars>>

\* detachSession, first half: take one session out of the map.  One that is
\* gone already is skipped; one with a workspace leaves its pin to remove.
DetachSession(t, s) ==
    /\ at[t].pc = "detach"
    /\ s \in at[t].victims
    /\ sessions' = sessions \ {s}
    /\ Goto(t, IF s \in sessions /\ wsOf[s] # None
               THEN [at[t] EXCEPT !.victims = @ \ {s}, !.pc = "unpin",
                                  !.agent = agentOf[s], !.ws = wsOf[s]]
               ELSE [at[t] EXCEPT !.victims = @ \ {s}])
    /\ UNCHANGED <<agentVars, agentOf, wsOf, stale, workspaceVars>>

DetachEnds(t) ==
    /\ at[t].pc = "detach"
    /\ at[t].victims = {}
    /\ Goto(t, Idle)
    /\ UNCHANGED <<agentVars, sessionVars, workspaceVars>>

Heartbeat(t, s) ==
    /\ Free(t)
    /\ s \in sessions
    /\ stale' = stale \ {s}
    /\ UNCHANGED <<agentVars, sessions, agentOf, wsOf, workspaceVars, at>>

----------------------------------------------------------------------------
(* workspace.activate, workspace.deactivate.                               *)

\* Resolve the session to its agent, under the read lock ...
Activate(t, s, app) ==
    /\ Free(t)
    /\ s \in sessions
    /\ Goto(t, [Idle EXCEPT !.pc = "pin", !.sess = s, !.app = app, !.agent = agentOf[s]])
    /\ UNCHANGED <<agentVars, sessionVars, workspaceVars>>

RowsOf(app) == {w \in rows : appOf[w] = app}

\* Mutant: only the row the session is bound to already is found.
PinBound(t, w) ==
    /\ at[t].pc = "pin"
    /\ LET own == {v \in RowsOf(at[t].app) : v = wsOf[at[t].sess]}
       IN IF own # {} THEN w \in own ELSE appOf[w] = None
    /\ rows' = rows \cup {w}
    /\ appOf' = [appOf EXCEPT ![w] = at[t].app]
    /\ agentSet' = [agentSet EXCEPT ![w] = @ \cup {at[t].agent}]
    /\ Goto(t, [at[t] EXCEPT !.pc = "bind", !.ws = w])
    /\ UNCHANGED <<agentVars, sessionVars>>

\* ... find or create the app's row and pin it, under workspacesMu ...
PinWorkspace(t, w) ==
    /\ at[t].pc = "pin"
    /\ IF RowsOf(at[t].app) # {} THEN w \in RowsOf(at[t].app) ELSE appOf[w] = None
    /\ rows' = rows \cup {w}
    /\ appOf' = [appOf EXCEPT ![w] = at[t].app]
    /\ agentSet' = [agentSet EXCEPT ![w] = @ \cup {at[t].agent}]
    /\ Goto(t, [at[t] EXCEPT !.pc = "bind", !.ws = w])
    /\ UNCHANGED <<agentVars, sessionVars>>

\* Mutant: the record is put back into the map as it was resolved.
BindStoredSession(t) ==
    /\ at[t].pc = "bind"
    /\ sessions' = sessions \cup {at[t].sess}
    /\ wsOf' = [wsOf EXCEPT ![at[t].sess] = at[t].ws]
    /\ Goto(t, Idle)
    /\ UNCHANGED <<agentVars, agentOf, stale, workspaceVars>>

\* ... and bind the row to the session if the session is still there.
BindSession(t) ==
    /\ at[t].pc = "bind"
    /\ wsOf' = IF at[t].sess \in sessions
               THEN [wsOf EXCEPT ![at[t].sess] = at[t].ws] ELSE wsOf
    /\ Goto(t, Idle)
    /\ UNCHANGED <<agentVars, sessions, agentOf, stale, workspaceVars>>

\* Unbind the session; a session without a workspace is an error.
Deactivate(t, s) ==
    /\ Free(t)
    /\ s \in sessions
    /\ wsOf[s] # None
    /\ wsOf' = [wsOf EXCEPT ![s] = None]
    /\ Goto(t, [Idle EXCEPT !.pc = "unpin", !.agent = agentOf[s], !.ws = wsOf[s]])
    /\ UNCHANGED <<agentVars, sessions, agentOf, stale, workspaceVars>>

\* detachAgentFromWorkspace: unpin, and delete the row with its last agent.
DetachAgentFromWorkspace(t) ==
    LET w == at[t].ws
        rest == agentSet[w] \ {at[t].agent}
    IN  /\ at[t].pc = "unpin"
        /\ IF w \in rows
           THEN /\ agentSet' = [agentSet EXCEPT ![w] = rest]
                /\ rows' = IF rest = {} THEN rows \ {w} ELSE rows
           ELSE UNCHANGED <<agentSet, rows>>
        /\ Goto(t, [at[t] EXCEPT !.pc = "detach"])
        /\ UNCHANGED <<agentVars, sessionVars, appOf>>

----------------------------------------------------------------------------
(* The reaper and the clock.                                               *)

\* heartbeatTimeout passes without a heartbeat of the session.
GoStale(s) ==
    /\ s \in sessions \cap Silent
    /\ stale' = stale \cup {s}
    /\ UNCHANGED <<agentVars, sessions, agentOf, wsOf, workspaceVars, at>>

\* Mutant: sessions of agents that are gone are left alone.
ReapOwned ==
    /\ Free(Reaper)
    /\ Goto(Reaper, [Idle EXCEPT !.pc = "detach",
                                 !.victims = {s \in sessions \cap stale : agentOf[s] \in agents}])
    /\ UNCHANGED <<agentVars, sessionVars, workspaceVars>>

\* reapStaleSessions: collect under the read lock, then detach one by one.
ReapStaleSessions ==
    /\ Free(Reaper)
    /\ Goto(Reaper, [Idle EXCEPT !.pc = "detach", !.victims = sessions \cap stale])
    /\ UNCHANGED <<agentVars, sessionVars, workspaceVars>>

----------------------------------------------------------------------------

\* A client's request reaches an idle dispatch goroutine.
Request(t) ==
    \/ \E a \in Agents : Register(t, a) \/ Unregister(t, a) \/ Connect(t, a)
    \/ \E s \in Sessions : Disconnect(t, s) \/ Heartbeat(t, s) \/ Deactivate(t, s)
    \/ \E s \in Sessions, app \in Apps : Activate(t, s, app)

\* detachSession and what the cascades and the reaper do with it.
DetachStep(t) ==
    \/ \E s \in Sessions : DetachSession(t, s)
    \/ DetachAgentFromWorkspace(t)
    \/ DetachEnds(t)

\* A handler goes on with its next critical section.
HandlerStep(t) ==
    \/ CollectVictims(t)
    \/ \E s \in Sessions, w \in ConnectWs \cup {None} : InsertSession(t, s, w)
    \/ \E w \in Workspaces : PinWorkspace(t, w)
    \/ BindSession(t)
    \/ DetachStep(t)

ReaperStep == ReapStaleSessions \/ DetachStep(Reaper)

Next ==
    \/ \E t \in Threads : Request(t) \/ HandlerStep(t)
    \/ ReaperStep
    \/ \E s \in Sessions : GoStale(s)

Spec == Init /\ [][Next]_vars

\* Handlers and the reaper go on, and time passes; clients owe nothing.
Fairness ==
    /\ \A t \in Threads : WF_vars(HandlerStep(t))
    /\ WF_vars(ReaperStep)
    /\ \A s \in Sessions : WF_vars(GoStale(s))

FairSpec == Spec /\ Fairness

----------------------------------------------------------------------------
(* Properties.                                                             *)

\* Workspaces are keyed by app: however activations interleave there is one
\* row per app (workspace.go: "one row per distinct app").
OneRowPerApp == \A v, w \in rows : appOf[v] = appOf[w] => v = w

\* A row lives exactly as long as some agent pins it: activations that race
\* with the last unpin never leave an empty row behind, nor does a pin
\* survive in a row that has been deleted.
RowsArePinned == \A w \in Workspaces : w \in rows <=> agentSet[w] # {}

RowsConsistent == OneRowPerApp /\ RowsArePinned

\* A session that has been disconnected or reaped never comes back, whatever
\* activation or heartbeat was under way.
NoResurrection ==
    [][\A s \in Sessions : agentOf[s] # None /\ s \notin sessions => s \notin sessions']_vars

Quiescent == \A t \in Threads : Free(t)

\* Between requests, every session belongs to a registered agent: "unregistering
\* an agent cleans up its sessions" (lifecycle_test.go).
SessionsOwned == Quiescent => \A s \in sessions : agentOf[s] \in agents

\* ... "(and their workspace pins) automatically".
PinsOwned == Quiescent /\ Free(Reaper) => \A w \in rows : agentSet[w] \subseteq agents

\* Between requests, a session that is bound to a workspace is bound to a row
\* that exists and counts its agent: "workspace ref-counts stay consistent"
\* (heartbeat.go).
BindingsCounted ==
    Quiescent /\ Free(Reaper) =>
        \A s \in sessions : wsOf[s] # None =>
            wsOf[s] \in rows /\ agentOf[s] \in agentSet[wsOf[s]]

\* The reaper takes away only a session whose heartbeat is too old at that
\* moment (heartbeat.go: "sessions whose LastHeartbeat is older than this
\* are reaped").
ReapsOnlyStale ==
    [][\A s \in sessions \ sessions' :
          at'[Reaper] # at[Reaper] => s \in stale]_vars

\* No session stays stale for ever, not even one whose agent is gone: it is
\* reaped or its client sends heartbeats again.
StaleReaped == \A s \in Sessions : []<>~(s \in sessions /\ s \in stale)

=============================================================================

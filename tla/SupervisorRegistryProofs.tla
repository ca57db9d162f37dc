--------------------- MODULE SupervisorRegistryProofs ---------------------
(***************************************************************************)
(* Proofs about SupervisorRegistry, for any number of concurrent handlers, *)
(* agents, sessions, workspaces and apps.                                  *)
(***************************************************************************)
EXTENDS SupervisorRegistry, TLAPS

(* What a handler carries from one critical section to the next.           *)
FrameOK ==
    /\ \A s \in sessions : agentOf[s] \in Agents
    /\ \A t \in Procs :
         /\ at[t].pc \in {"insert", "pin", "unpin"} => at[t].agent \in Agents
         /\ at[t].pc = "pin" => at[t].app \in Apps
         /\ at[t].pc \in {"bind", "unpin"} => at[t].ws \in Workspaces
         /\ at[t].pc \in {"pin", "bind"} => at[t].sess \in Sessions

Frame == [pc : Steps, agent : Agents \cup {None}, sess : Sessions \cup {None},
          app : Apps \cup {None}, ws : Workspaces \cup {None},
          victims : SUBSET Sessions]

LEMMA TypeStep == TypeOK /\ FrameOK /\ [Next]_vars => (TypeOK /\ FrameOK)'
<1>. SUFFICES ASSUME TypeOK, FrameOK, [Next]_vars PROVE (TypeOK /\ FrameOK)'
  OBVIOUS
<1>. USE RegistryAssumption
     DEF RegistryAssumption, TypeOK, FrameOK, Procs, Steps, Idle, Free
<1>1. ASSUME NEW t \in Threads, NEW a \in Agents, Register(t, a)
      PROVE  (TypeOK /\ FrameOK)'
  BY <1>1 DEF Register, Goto, agentVars, sessionVars, workspaceVars
<1>2. ASSUME NEW t \in Threads, NEW a \in Agents, Unregister(t, a)
      PROVE  (TypeOK /\ FrameOK)'
  BY <1>2 DEF Unregister, Goto, agentVars, sessionVars, workspaceVars
<1>3. ASSUME NEW t \in Threads, NEW a \in Agents, Connect(t, a)
      PROVE  (TypeOK /\ FrameOK)'
  BY <1>3 DEF Connect, Goto, agentVars, sessionVars, workspaceVars
<1>4. ASSUME NEW t \in Threads, NEW s \in Sessions, Disconnect(t, s)
      PROVE  (TypeOK /\ FrameOK)'
  BY <1>4 DEF Disconnect, Goto, agentVars, sessionVars, workspaceVars
<1>5. ASSUME NEW t \in Threads, NEW s \in Sessions, Heartbeat(t, s)
      PROVE  (TypeOK /\ FrameOK)'
  BY <1>5 DEF Heartbeat, Goto, agentVars, sessionVars, workspaceVars
<1>6. ASSUME NEW t \in Threads, NEW s \in Sessions, Deactivate(t, s)
      PROVE  (TypeOK /\ FrameOK)'
  BY <1>6 DEF Deactivate, Goto, agentVars, sessionVars, workspaceVars
<1>7. ASSUME NEW t \in Threads, NEW s \in Sessions, NEW app \in Apps, Activate(t, s, app)
      PROVE  (TypeOK /\ FrameOK)'
  BY <1>7 DEF Activate, Goto, agentVars, sessionVars, workspaceVars
<1>8. ASSUME NEW t \in Threads, CollectVictims(t)
      PROVE  (TypeOK /\ FrameOK)'
  BY <1>8 DEF CollectVictims, Goto, agentVars, sessionVars, workspaceVars
<1>9. ASSUME NEW t \in Threads, NEW s \in Sessions, NEW w \in ConnectWs \cup {None}, InsertSession(t, s, w)
      PROVE  (TypeOK /\ FrameOK)'
  BY <1>9 DEF InsertSession, Goto, agentVars, sessionVars, workspaceVars
<1>10. ASSUME NEW t \in Threads, NEW w \in Workspaces, PinWorkspace(t, w)
      PROVE  (TypeOK /\ FrameOK)'
  <2>1. at[t].agent \in Agents /\ at[t].app \in Apps
    BY <1>10 DEF PinWorkspace
  <2>2. at' = [at EXCEPT ![t] = [at[t] EXCEPT !.pc = "bind", !.ws = w]]
    BY <1>10 DEF PinWorkspace, Goto
  <2>3. /\ rows' \subseteq Workspaces
        /\ appOf' \in [Workspaces -> Apps \cup {None}]
        /\ agentSet' \in [Workspaces -> SUBSET Agents]
    BY <1>10, <2>1 DEF PinWorkspace
  <2>. DEFINE bound == [at[t] EXCEPT !.pc = "bind", !.ws = w]
  <2>c. at[t] \in Frame
    BY DEF Frame
  <2>a. bound \in Frame
    BY <2>c DEF Frame
  <2>b. at \in [Procs -> Frame]
    BY DEF Frame
  <2>4. at' \in [Procs -> Frame]
    BY <2>2, <2>a, <2>b DEF Procs
  <2>5. at[t].sess \in Sessions
    BY <1>10 DEF PinWorkspace
  <2>6. FrameOK'
    BY <1>10, <2>2, <2>5 DEF PinWorkspace, sessionVars
  <2>. QED
    BY <1>10, <2>3, <2>4, <2>6 DEF PinWorkspace, agentVars, sessionVars, Frame
<1>11. ASSUME NEW t \in Threads, BindSession(t)
      PROVE  (TypeOK /\ FrameOK)'
  BY <1>11 DEF BindSession, Goto, agentVars, sessionVars, workspaceVars
<1>12. ASSUME NEW t \in Procs, NEW s \in Sessions, DetachSession(t, s)
      PROVE  (TypeOK /\ FrameOK)'
  <2>. DEFINE skipped == [at[t] EXCEPT !.victims = @ \ {s}]
              unpins == [at[t] EXCEPT !.victims = @ \ {s}, !.pc = "unpin",
                                     !.agent = agentOf[s], !.ws = wsOf[s]]
  <2>a. at[t] \in Frame
    BY DEF Frame
  <2>b. skipped \in Frame /\ unpins \in Frame
    BY <2>a DEF Frame
  <2>c. at' = [at EXCEPT ![t] = IF s \in sessions /\ wsOf[s] # None THEN unpins ELSE skipped]
    BY <1>12 DEF DetachSession, Goto
  <2>1. at'[t] \in Frame /\ at' = [at EXCEPT ![t] = at'[t]]
    BY <2>b, <2>c
  <2>2. at'[t].pc = "unpin" => at'[t].agent \in Agents /\ at'[t].ws \in Workspaces
    BY <1>12 DEF DetachSession, Goto
  <2>3. at'[t].pc \in {"detach", "unpin"}
    BY <1>12 DEF DetachSession, Goto
  <2>4. at' \in [Procs -> Frame]
    BY <2>1 DEF Frame
  <2>5. FrameOK'
    BY <1>12, <2>1, <2>2, <2>3 DEF DetachSession
  <2>. QED
    BY <1>12, <2>4, <2>5 DEF DetachSession, agentVars, workspaceVars, Frame
<1>13. ASSUME NEW t \in Procs, DetachAgentFromWorkspace(t)
      PROVE  (TypeOK /\ FrameOK)'
  BY <1>13 DEF DetachAgentFromWorkspace, Goto, agentVars, sessionVars,
       workspaceVars
<1>14. ASSUME NEW t \in Procs, DetachEnds(t)
      PROVE  (TypeOK /\ FrameOK)'
  BY <1>14 DEF DetachEnds, Goto, agentVars, sessionVars, workspaceVars
<1>15. CASE ReapStaleSessions
  BY <1>15 DEF ReapStaleSessions, Goto, agentVars, sessionVars, workspaceVars
<1>16. ASSUME NEW s \in Sessions, GoStale(s)
      PROVE  (TypeOK /\ FrameOK)'
  BY <1>16 DEF GoStale, Goto, agentVars, sessionVars, workspaceVars
<1>17. CASE UNCHANGED vars
  BY <1>17 DEF vars, agentVars, sessionVars, workspaceVars
<1>. QED
  BY <1>1, <1>2, <1>3, <1>4, <1>5, <1>6, <1>7, <1>8, <1>9, <1>10, <1>11, <1>12,
       <1>13, <1>14, <1>15, <1>16, <1>17 DEF Next, Request, HandlerStep,
       DetachStep, ReaperStep, Procs

LEMMA TypedFrames == Spec => [](TypeOK /\ FrameOK)
<1>1. Init => TypeOK /\ FrameOK
  BY DEF Init, TypeOK, FrameOK, Procs, Steps, Idle
<1>. QED
  BY <1>1, TypeStep, PTL DEF Spec

(* Every variable keeps its type. *)
THEOREM TypeCorrect == Spec => []TypeOK
<1>. QED
  BY TypedFrames, PTL

(* Rows and their apps: a row has an app, and no two rows share one.       *)
RowInv ==
    /\ \A w \in rows : appOf[w] \in Apps
    /\ OneRowPerApp
    /\ RowsArePinned

LEMMA RowStep == TypeOK /\ FrameOK /\ RowInv /\ [Next]_vars => RowInv'
<1>. SUFFICES ASSUME TypeOK, FrameOK, RowInv, [Next]_vars PROVE RowInv'
  OBVIOUS
<1>0. ASSUME UNCHANGED workspaceVars PROVE RowInv'
  BY <1>0 DEF RowInv, OneRowPerApp, RowsArePinned, workspaceVars
<1>1. ASSUME NEW t \in Threads, NEW a \in Agents, Register(t, a)
      PROVE  RowInv'
  BY <1>1, <1>0 DEF Register, Goto, agentVars, sessionVars, workspaceVars
<1>2. ASSUME NEW t \in Threads, NEW a \in Agents, Unregister(t, a)
      PROVE  RowInv'
  BY <1>2, <1>0 DEF Unregister, Goto, agentVars, sessionVars, workspaceVars
<1>3. ASSUME NEW t \in Threads, NEW a \in Agents, Connect(t, a)
      PROVE  RowInv'
  BY <1>3, <1>0 DEF Connect, Goto, agentVars, sessionVars, workspaceVars
<1>4. ASSUME NEW t \in Threads, NEW s \in Sessions, Disconnect(t, s)
      PROVE  RowInv'
  BY <1>4, <1>0 DEF Disconnect, Goto, agentVars, sessionVars, workspaceVars
<1>5. ASSUME NEW t \in Threads, NEW s \in Sessions, Heartbeat(t, s)
      PROVE  RowInv'
  BY <1>5, <1>0 DEF Heartbeat, Goto, agentVars, sessionVars, workspaceVars
<1>6. ASSUME NEW t \in Threads, NEW s \in Sessions, Deactivate(t, s)
      PROVE  RowInv'
  BY <1>6, <1>0 DEF Deactivate, Goto, agentVars, sessionVars, workspaceVars
<1>7. ASSUME NEW t \in Threads, NEW s \in Sessions, NEW app \in Apps, Activate(t, s, app)
      PROVE  RowInv'
  BY <1>7, <1>0 DEF Activate, Goto, agentVars, sessionVars, workspaceVars
<1>8. ASSUME NEW t \in Threads, CollectVictims(t)
      PROVE  RowInv'
  BY <1>8, <1>0 DEF CollectVictims, Goto, agentVars, sessionVars, workspaceVars
<1>9. ASSUME NEW t \in Threads, NEW s \in Sessions, NEW w \in ConnectWs \cup {None}, InsertSession(t, s, w)
      PROVE  RowInv'
  BY <1>9, <1>0 DEF InsertSession, Goto, agentVars, sessionVars, workspaceVars
<1>10. ASSUME NEW t \in Threads, NEW w \in Workspaces, PinWorkspace(t, w)
      PROVE  RowInv'
  <2>1. at[t].agent \in Agents /\ at[t].app \in Apps
    BY <1>10 DEF PinWorkspace, FrameOK, Procs
  <2>2. \A v \in Workspaces : /\ appOf'[v] = IF v = w THEN at[t].app ELSE appOf[v]
                             /\ agentSet'[v] = IF v = w THEN agentSet[v] \cup {at[t].agent}
                                               ELSE agentSet[v]
    BY <1>10 DEF PinWorkspace, TypeOK
  <2>3. rows' = rows \cup {w} /\ rows' \subseteq Workspaces
    BY <1>10 DEF PinWorkspace, TypeOK
  <2>4. \A v \in rows : appOf[v] = at[t].app => v = w
    BY <1>10 DEF PinWorkspace, RowsOf, RowInv, OneRowPerApp
  <2>5. \A v \in rows' : appOf'[v] \in Apps
    BY <2>1, <2>2, <2>3 DEF RowInv
  <2>6. OneRowPerApp'
    <3>1. SUFFICES ASSUME NEW u \in rows', NEW v \in rows', appOf'[u] = appOf'[v]
                   PROVE  u = v
      BY DEF OneRowPerApp
    <3>2. u \in Workspaces /\ v \in Workspaces
      BY <2>3
    <3>3. CASE u = w \/ v = w
      BY <2>2, <2>3, <2>4, <3>1, <3>2, <3>3
    <3>4. CASE u # w /\ v # w
      BY <2>2, <2>3, <3>1, <3>2, <3>4 DEF RowInv, OneRowPerApp
    <3>. QED
      BY <3>3, <3>4
  <2>7. RowsArePinned'
    BY <2>1, <2>2, <2>3 DEF RowInv, RowsArePinned
  <2>. QED
    BY <2>5, <2>6, <2>7 DEF RowInv
<1>11. ASSUME NEW t \in Threads, BindSession(t)
      PROVE  RowInv'
  BY <1>11, <1>0 DEF BindSession, Goto, agentVars, sessionVars, workspaceVars
<1>12. ASSUME NEW t \in Procs, NEW s \in Sessions, DetachSession(t, s)
      PROVE  RowInv'
  BY <1>12, <1>0 DEF DetachSession, Goto, agentVars, sessionVars, workspaceVars
<1>13. ASSUME NEW t \in Procs, DetachAgentFromWorkspace(t)
      PROVE  RowInv'
  <2>. DEFINE w == at[t].ws
              rest == agentSet[w] \ {at[t].agent}
  <2>1. CASE w \notin rows
    BY <1>13, <2>1, <1>0 DEF DetachAgentFromWorkspace, workspaceVars
  <2>2. CASE w \in rows
    <3>1. w \in Workspaces
      BY <2>2 DEF TypeOK
    <3>2. rows' = (IF rest = {} THEN rows \ {w} ELSE rows) /\ appOf' = appOf
      BY <1>13, <2>2 DEF DetachAgentFromWorkspace
    <3>3. \A v \in Workspaces : agentSet'[v] = IF v = w THEN rest ELSE agentSet[v]
      BY <1>13, <2>2, <3>1 DEF DetachAgentFromWorkspace, TypeOK
    <3>4. RowsArePinned'
      BY <3>2, <3>3, <2>2 DEF RowInv, RowsArePinned
    <3>. QED
      BY <3>2, <3>4 DEF RowInv, OneRowPerApp
  <2>. QED
    BY <2>1, <2>2
<1>14. ASSUME NEW t \in Procs, DetachEnds(t)
      PROVE  RowInv'
  BY <1>14, <1>0 DEF DetachEnds, Goto, agentVars, sessionVars, workspaceVars
<1>15. CASE ReapStaleSessions
  BY <1>15, <1>0 DEF ReapStaleSessions, Goto, agentVars, sessionVars,
       workspaceVars
<1>16. ASSUME NEW s \in Sessions, GoStale(s)
      PROVE  RowInv'
  BY <1>16, <1>0 DEF GoStale, Goto, agentVars, sessionVars, workspaceVars
<1>17. CASE UNCHANGED vars
  BY <1>17, <1>0 DEF vars, agentVars, sessionVars, workspaceVars
<1>. QED
  BY <1>1, <1>2, <1>3, <1>4, <1>5, <1>6, <1>7, <1>8, <1>9, <1>10, <1>11, <1>12,
       <1>13, <1>14, <1>15, <1>16, <1>17 DEF Next, Request, HandlerStep,
       DetachStep, ReaperStep, Procs

LEMMA RowsInductive == Spec => []RowInv
<1>1. Init => RowInv
  BY DEF Init, RowInv, OneRowPerApp, RowsArePinned
<1>. QED
  BY <1>1, RowStep, TypedFrames, PTL DEF Spec

(* However many activations race, an app has one workspace row.            *)
THEOREM OneRow == Spec => []OneRowPerApp
<1>1. RowInv => OneRowPerApp
  BY DEF RowInv
<1>. QED
  BY <1>1, RowsInductive, PTL

(* A row exists exactly while an agent pins it. *)
THEOREM RowsPinned == Spec => []RowsArePinned
<1>1. RowInv => RowsArePinned
  BY DEF RowInv
<1>. QED
  BY <1>1, RowsInductive, PTL

(* Whatever activations, deactivations, unregistrations and reaps race, the
   rows are those of the pins, one for an app (workspace.go).              *)
THEOREM RowsAreConsistent == Spec => []RowsConsistent
  BY OneRow, RowsPinned, PTL DEF RowsConsistent

LEMMA GoneStep ==
  ASSUME TypeOK, [Next]_vars, NEW q \in Sessions, agentOf[q] # None, q \notin sessions
  PROVE  q \notin sessions'
<1>1. ASSUME NEW t \in Threads, NEW a \in Agents, Register(t, a)
      PROVE  q \notin sessions'
  BY <1>1 DEF Register, Goto, agentVars, sessionVars, workspaceVars
<1>2. ASSUME NEW t \in Threads, NEW a \in Agents, Unregister(t, a)
      PROVE  q \notin sessions'
  BY <1>2 DEF Unregister, Goto, agentVars, sessionVars, workspaceVars
<1>3. ASSUME NEW t \in Threads, NEW a \in Agents, Connect(t, a)
      PROVE  q \notin sessions'
  BY <1>3 DEF Connect, Goto, agentVars, sessionVars, workspaceVars
<1>4. ASSUME NEW t \in Threads, NEW s \in Sessions, Disconnect(t, s)
      PROVE  q \notin sessions'
  BY <1>4 DEF Disconnect, Goto, agentVars, sessionVars, workspaceVars
<1>5. ASSUME NEW t \in Threads, NEW s \in Sessions, Heartbeat(t, s)
      PROVE  q \notin sessions'
  BY <1>5 DEF Heartbeat, Goto, agentVars, sessionVars, workspaceVars
<1>6. ASSUME NEW t \in Threads, NEW s \in Sessions, Deactivate(t, s)
      PROVE  q \notin sessions'
  BY <1>6 DEF Deactivate, Goto, agentVars, sessionVars, workspaceVars
<1>7. ASSUME NEW t \in Threads, NEW s \in Sessions, NEW app \in Apps, Activate(t, s, app)
      PROVE  q \notin sessions'
  BY <1>7 DEF Activate, Goto, agentVars, sessionVars, workspaceVars
<1>8. ASSUME NEW t \in Threads, CollectVictims(t)
      PROVE  q \notin sessions'
  BY <1>8 DEF CollectVictims, Goto, agentVars, sessionVars, workspaceVars
<1>9. ASSUME NEW t \in Threads, NEW s \in Sessions, NEW w \in ConnectWs \cup {None}, InsertSession(t, s, w)
      PROVE  q \notin sessions'
  BY <1>9 DEF InsertSession, Goto, agentVars, sessionVars, workspaceVars
<1>10. ASSUME NEW t \in Threads, NEW w \in Workspaces, PinWorkspace(t, w)
      PROVE  q \notin sessions'
  BY <1>10 DEF PinWorkspace, Goto, agentVars, sessionVars, workspaceVars
<1>11. ASSUME NEW t \in Threads, BindSession(t)
      PROVE  q \notin sessions'
  BY <1>11 DEF BindSession, Goto, agentVars, sessionVars, workspaceVars
<1>12. ASSUME NEW t \in Procs, NEW s \in Sessions, DetachSession(t, s)
      PROVE  q \notin sessions'
  BY <1>12 DEF DetachSession, Goto, agentVars, sessionVars, workspaceVars
<1>13. ASSUME NEW t \in Procs, DetachAgentFromWorkspace(t)
      PROVE  q \notin sessions'
  BY <1>13 DEF DetachAgentFromWorkspace, Goto, agentVars, sessionVars,
       workspaceVars
<1>14. ASSUME NEW t \in Procs, DetachEnds(t)
      PROVE  q \notin sessions'
  BY <1>14 DEF DetachEnds, Goto, agentVars, sessionVars, workspaceVars
<1>15. CASE ReapStaleSessions
  BY <1>15 DEF ReapStaleSessions, Goto, agentVars, sessionVars, workspaceVars
<1>16. ASSUME NEW s \in Sessions, GoStale(s)
      PROVE  q \notin sessions'
  BY <1>16 DEF GoStale, Goto, agentVars, sessionVars, workspaceVars
<1>17. CASE UNCHANGED vars
  BY <1>17 DEF vars, agentVars, sessionVars, workspaceVars
<1>. QED
  BY <1>1, <1>2, <1>3, <1>4, <1>5, <1>6, <1>7, <1>8, <1>9, <1>10, <1>11, <1>12,
       <1>13, <1>14, <1>15, <1>16, <1>17 DEF Next, Request, HandlerStep,
       DetachStep, ReaperStep, Procs

(* A session id that has been used up never comes back. *)
THEOREM SessionsStayGone == Spec => NoResurrection
<1>1. TypeOK /\ [Next]_vars =>
        [\A s \in Sessions : agentOf[s] # None /\ s \notin sessions
                              => s \notin sessions']_vars
  BY GoneStep
<1>. QED
  BY <1>1, TypeCorrect, PTL DEF Spec, NoResurrection
=============================================================================

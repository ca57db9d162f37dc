-------------------- MODULE SupervisorLifecycleProofs --------------------
(***************************************************************************)
(* Proofs about SupervisorLifecycle, for every number of connections,      *)
(* requests and agents and every setting of the daemon's configuration.    *)
(***************************************************************************)
EXTENDS SupervisorLifecycle, FiniteSetTheorems, TLAPS

(* Type correctness is inductive by itself. *)
LEMMA TypeStep == TypeOK /\ [Next]_vars => TypeOK'
<1>. SUFFICES ASSUME TypeOK, [Next]_vars PROVE TypeOK'
  OBVIOUS
<1>. USE LifecycleAssumption
     DEF LifecycleAssumption, TypeOK, ConnStates, ReqStates, InLoop, Tracked,
         Replies, WaiterStates, StopSteps, Callers, Goroutines
<1>1. ASSUME NEW c \in Conns, Dial(c) PROVE TypeOK'
  BY <1>1 DEF Dial, Become, drainVars, stopVars, resources, idleVars, procVars
<1>2. ASSUME NEW c \in Conns, Accept(c) PROVE TypeOK'
  BY <1>2 DEF Accept, Become, drainVars, stopVars, resources, idleVars,
       procVars
<1>3. ASSUME NEW c \in Conns, Authenticate(c) PROVE TypeOK'
  BY <1>3 DEF Authenticate, Become, drainVars, stopVars, resources, idleVars,
       procVars
<1>4. ASSUME NEW c \in Conns, RejectHello(c) PROVE TypeOK'
  BY <1>4 DEF RejectHello, Become, drainVars, stopVars, resources, idleVars,
       procVars
<1>5. ASSUME NEW c \in Conns, HelloReadFails(c) PROVE TypeOK'
  BY <1>5 DEF HelloReadFails, Become, drainVars, stopVars, resources, idleVars,
       procVars
<1>6. ASSUME NEW c \in Conns, HangUp(c) PROVE TypeOK'
  BY <1>6 DEF HangUp, Become, drainVars, stopVars, resources, idleVars,
       procVars
<1>7. ASSUME NEW c \in Conns, ReHello(c) PROVE TypeOK'
  BY <1>7 DEF ReHello, connVars, drainVars, stopVars, resources, procVars
<1>8. ASSUME NEW r \in Requests, ReadEnvelope(r) PROVE TypeOK'
  BY <1>8 DEF ReadEnvelope, drainVars, stopVars, resources, procVars
<1>9. ASSUME NEW r \in Requests, Admit(r) PROVE TypeOK'
  BY <1>9 DEF Admit, drainVars, stopVars, resources, idleVars, procVars
<1>10. ASSUME NEW r \in Requests, Refuse(r) PROVE TypeOK'
  BY <1>10 DEF Refuse, Respond, drainVars, stopVars, resources, idleVars,
       procVars
<1>11. ASSUME NEW r \in Requests, AddHandler(r) PROVE TypeOK'
  BY <1>11 DEF AddHandler, stopVars, resources, idleVars, procVars
<1>12. ASSUME NEW r \in Requests, GoDispatch(r) PROVE TypeOK'
  BY <1>12 DEF GoDispatch, drainVars, stopVars, resources, idleVars, procVars
<1>13. ASSUME NEW r \in Requests, BackOut(r) PROVE TypeOK'
  BY <1>13 DEF BackOut, Done, Respond, stopVars, resources, idleVars, procVars
<1>14. ASSUME NEW r \in Requests, HandlerReturns(r) PROVE TypeOK'
  BY <1>14 DEF HandlerReturns, Respond, drainVars, stopVars, resources,
       procVars
<1>15. ASSUME NEW r \in Requests, DispatchDone(r) PROVE TypeOK'
  BY <1>15 DEF DispatchDone, Done, stopVars, resources, idleVars, procVars
<1>16. CASE StopBegins
  BY <1>16 DEF StopBegins, connVars, drainVars, resources, idleVars, procVars
<1>17. CASE CloseListener
  BY <1>17 DEF CloseListener, drainVars, idleVars, procVars
<1>18. CASE RemoveToken
  BY <1>18 DEF RemoveToken, connVars, drainVars, idleVars, procVars
<1>19. CASE BeginShutdown
  BY <1>19 DEF BeginShutdown, connVars, resources, idleVars, procVars
<1>20. CASE Drained
  BY <1>20 DEF Drained, connVars, drainVars, resources, idleVars, procVars
<1>21. CASE DrainTimeout
  BY <1>21 DEF DrainTimeout, connVars, resources, idleVars, procVars
<1>22. CASE LifecycleJoined
  BY <1>22 DEF LifecycleJoined, connVars, drainVars, resources, idleVars,
       procVars
<1>23. CASE ClosePool
  BY <1>23 DEF ClosePool, connVars, drainVars, idleVars, procVars
<1>24. CASE ReleaseLock
  BY <1>24 DEF ReleaseLock, connVars, drainVars, idleVars, procVars
<1>25. ASSUME NEW p \in Callers, StopReturns(p) PROVE TypeOK'
  BY <1>25 DEF StopReturns, connVars, drainVars, resources, idleVars, procVars
<1>26. CASE Wait
  BY <1>26 DEF Wait, connVars, stopVars, resources, idleVars, procVars
<1>27. CASE WaitReturns
  BY <1>27 DEF WaitReturns, connVars, stopVars, resources, idleVars, procVars
<1>28. CASE WaitPanics
  BY <1>28 DEF WaitPanics, ProcessDies, drainVars, stopVars, idleVars
<1>29. CASE AcceptLoopExits
  BY <1>29 DEF AcceptLoopExits, Exit, connVars, drainVars, resources, idleVars,
       procVars
<1>30. CASE HeartbeatExits
  BY <1>30 DEF HeartbeatExits, Exit, connVars, drainVars, resources, idleVars,
       procVars
<1>31. CASE IdleWatcherExits
  BY <1>31 DEF IdleWatcherExits, Exit, connVars, drainVars, resources,
       idleVars, procVars
<1>32. CASE IdleSeesNoAgents
  BY <1>32 DEF IdleSeesNoAgents, connVars, drainVars, resources, idleVars,
       procVars
<1>33. CASE IdleStays
  BY <1>33 DEF IdleStays, connVars, drainVars, resources, idleVars, procVars
<1>34. CASE IdleFires
  <2>1. exitWhenIdle' \in IdleConfigs
    BY <1>34 DEF IdleFires, Exit, procVars
  <2>2. caller' \in [Callers -> {"none", "called", "returned"}]
    BY <1>34 DEF IdleFires
  <2>3. life' \in [Goroutines -> {"run", "zeroAgents", "exited"}]
    BY <1>34 DEF IdleFires, Exit
  <2>4. UNCHANGED <<stopPc, connVars, drainVars, resources, idleVars, ctxDone, proc>>
    BY <1>34 DEF IdleFires, Exit, procVars
  <2>. QED
    BY <2>1, <2>2, <2>3, <2>4 DEF connVars, drainVars, resources, idleVars
<1>35. CASE SignalStop
  BY <1>35 DEF SignalStop, connVars, drainVars, resources, idleVars, procVars
<1>36. CASE Signal
  BY <1>36 DEF Signal, connVars, drainVars, stopVars, resources, idleVars
<1>37. CASE ProcessExits
  BY <1>37 DEF ProcessExits, ProcessDies, drainVars, stopVars, idleVars
<1>38. CASE Tick
  BY <1>38 DEF Tick, connVars, drainVars, stopVars, resources, procVars
<1>39. CASE Gone
  BY <1>39 DEF Gone, vars, connVars, drainVars, idleVars, procVars, resources,
       stopVars
<1>40. CASE UNCHANGED vars
  BY <1>40 DEF vars, connVars, drainVars, idleVars, procVars, resources,
       stopVars
<1>. QED
  BY <1>1, <1>2, <1>3, <1>4, <1>5, <1>6, <1>7, <1>8, <1>9, <1>10, <1>11, <1>12,
       <1>13, <1>14, <1>15, <1>16, <1>17, <1>18, <1>19, <1>20, <1>21, <1>22,
       <1>23, <1>24, <1>25, <1>26, <1>27, <1>28, <1>29, <1>30, <1>31, <1>32,
       <1>33, <1>34, <1>35, <1>36, <1>37, <1>38, <1>39, <1>40 DEF Next,
       ConnStep, ReqStep, StopStep, WaiterStep, LifeStep

(* Every variable keeps its type in every behaviour of the daemon. *)
THEOREM TypeCorrect == Spec => []TypeOK
<1>1. ASSUME Init PROVE TypeOK
  <2>. USE <1>1 DEF Init
  <2>1. /\ conn \in [Conns -> ConnStates]
        /\ req \in [Requests -> ReqStates]
        /\ reply \in [Requests -> Replies]
    BY DEF ConnStates, ReqStates, Replies
  <2>2. /\ handlerWG \in Int
        /\ waiter \in WaiterStates
        /\ stopPc \in StopSteps
        /\ caller \in [Callers -> {"none", "called", "returned"}]
        /\ life \in [Goroutines -> {"run", "zeroAgents", "exited"}]
    BY DEF WaiterStates, StopSteps
  <2>3. agents \in 0 .. MaxAgents /\ idleFor \in 0 .. IdleTimeout
    BY LifecycleAssumption DEF LifecycleAssumption
  <2>. QED
    BY <2>1, <2>2, <2>3 DEF TypeOK
<1>. QED
  BY <1>1, TypeStep, PTL DEF Spec

(* Only finitely many requests exist, so the tracked ones can be counted. *)
LEMMA InFlightFinite == IsFiniteSet(InFlight)
<1>1. IsFiniteSet(1 .. MaxReqs)
  BY LifecycleAssumption, FS_Interval DEF LifecycleAssumption
<1>2. IsFiniteSet(Requests)
  BY <1>1, LifecycleAssumption, FS_Product DEF LifecycleAssumption, Requests
<1>3. InFlight \in SUBSET Requests
  BY DEF InFlight
<1>. QED
  BY <1>2, <1>3, FS_Subset

(* A request that moves to state s joins, or leaves, the tracked requests  *)
(* and the ones being served.                                              *)
LEMMA RequestMoves ==
  ASSUME TypeOK, NEW r \in Requests, NEW s \in ReqStates,
         req' = [req EXCEPT ![r] = s]
  PROVE  /\ InFlight' = IF s \in Tracked THEN InFlight \cup {r} ELSE InFlight \ {r}
         /\ Serving' = IF s \in {"running", "returned"} THEN Serving \cup {r}
                       ELSE Serving \ {r}
<1>1. \A q \in Requests : req'[q] = IF q = r THEN s ELSE req[q]
  BY DEF TypeOK
<1>. QED
  BY <1>1 DEF InFlight, Serving

(* Done takes one tracked request away from the counter, and a waiter it   *)
(* wakes finds nothing running.                                            *)
LEMMA DoneStep ==
  ASSUME TypeOK, DrainInv, NEW r \in InFlight, NEW s \in ReqStates \ Tracked,
         req' = [req EXCEPT ![r] = s], draining' = draining, Done
  PROVE  DrainInv'
<1>1. r \in Requests
  BY DEF InFlight
<1>2. InFlight' = InFlight \ {r} /\ Serving' = Serving \ {r}
  BY <1>1, RequestMoves DEF Tracked
<1>3. IsFiniteSet(InFlight') /\ Cardinality(InFlight') = Cardinality(InFlight) - 1
  BY <1>2, InFlightFinite, FS_RemoveElement
<1>4. handlerWG' = Cardinality(InFlight')
  BY <1>3 DEF DrainInv, Done
<1>5. Serving' \subseteq InFlight'
  BY DEF Serving, InFlight, Tracked
<1>6. handlerWG = 1 => Serving' = {}
  BY <1>3, <1>4, <1>5, FS_EmptySet DEF DrainInv
<1>. QED
  BY <1>2, <1>4, <1>6 DEF DrainInv, Done

(* The drain protocol: the counter, the flag and the waiter stay in step.  *)
LEMMA DrainStep == TypeOK /\ DrainInv /\ [Next]_vars => DrainInv'
<1>. SUFFICES ASSUME TypeOK, DrainInv, [Next]_vars PROVE DrainInv'
  OBVIOUS
<1>0. ASSUME UNCHANGED <<req, handlerWG, waiter, draining>> PROVE DrainInv'
  BY <1>0 DEF DrainInv, InFlight, Serving
<1>1. ASSUME NEW c \in Conns, Dial(c) PROVE DrainInv'
  BY <1>1, <1>0 DEF Dial, Become, drainVars, stopVars, resources, idleVars,
       procVars
<1>2. ASSUME NEW c \in Conns, Accept(c) PROVE DrainInv'
  BY <1>2, <1>0 DEF Accept, Become, drainVars, stopVars, resources, idleVars,
       procVars
<1>3. ASSUME NEW c \in Conns, Authenticate(c) PROVE DrainInv'
  BY <1>3, <1>0 DEF Authenticate, Become, drainVars, stopVars, resources,
       idleVars, procVars
<1>4. ASSUME NEW c \in Conns, RejectHello(c) PROVE DrainInv'
  BY <1>4, <1>0 DEF RejectHello, Become, drainVars, stopVars, resources,
       idleVars, procVars
<1>5. ASSUME NEW c \in Conns, HelloReadFails(c) PROVE DrainInv'
  BY <1>5, <1>0 DEF HelloReadFails, Become, drainVars, stopVars, resources,
       idleVars, procVars
<1>6. ASSUME NEW c \in Conns, HangUp(c) PROVE DrainInv'
  BY <1>6, <1>0 DEF HangUp, Become, drainVars, stopVars, resources, idleVars,
       procVars
<1>7. ASSUME NEW c \in Conns, ReHello(c) PROVE DrainInv'
  BY <1>7, <1>0 DEF ReHello, connVars, drainVars, stopVars, resources, procVars
<1>8. ASSUME NEW r \in Requests, ReadEnvelope(r) PROVE DrainInv'
  <2>1. "read" \in ReqStates /\ "read" \notin Tracked \cup {"running", "returned"}
    BY DEF ReqStates, InLoop, Tracked
  <2>2. req' = [req EXCEPT ![r] = "read"]
    BY <1>8 DEF ReadEnvelope
  <2>3. InFlight' = InFlight \ {r} /\ Serving' = Serving \ {r}
    BY <2>1, <2>2, RequestMoves
  <2>4. r \notin InFlight /\ r \notin Serving
    BY <1>8 DEF ReadEnvelope, InFlight, Serving, Tracked
  <2>. QED
    BY <1>8, <2>3, <2>4 DEF DrainInv, ReadEnvelope, drainVars, stopVars, resources, procVars
<1>9. ASSUME NEW r \in Requests, Admit(r) PROVE DrainInv'
  <2>1. "admitted" \in ReqStates /\ "admitted" \notin Tracked \cup {"running", "returned"}
    BY DEF ReqStates, InLoop, Tracked
  <2>2. req' = [req EXCEPT ![r] = "admitted"]
    BY <1>9 DEF Admit
  <2>3. InFlight' = InFlight \ {r} /\ Serving' = Serving \ {r}
    BY <2>1, <2>2, RequestMoves
  <2>4. r \notin InFlight /\ r \notin Serving
    BY <1>9 DEF Admit, InFlight, Serving, Tracked
  <2>. QED
    BY <1>9, <2>3, <2>4 DEF DrainInv, Admit, drainVars, stopVars, resources, idleVars, procVars
<1>10. ASSUME NEW r \in Requests, Refuse(r) PROVE DrainInv'
  <2>1. "refused" \in ReqStates /\ "refused" \notin Tracked \cup {"running", "returned"}
    BY DEF ReqStates, InLoop, Tracked
  <2>2. req' = [req EXCEPT ![r] = "refused"]
    BY <1>10 DEF Refuse
  <2>3. InFlight' = InFlight \ {r} /\ Serving' = Serving \ {r}
    BY <2>1, <2>2, RequestMoves
  <2>4. r \notin InFlight /\ r \notin Serving
    BY <1>10 DEF Refuse, InFlight, Serving, Tracked
  <2>. QED
    BY <1>10, <2>3, <2>4 DEF DrainInv, Refuse, Respond, drainVars, stopVars, resources, idleVars, procVars
<1>11. ASSUME NEW r \in Requests, AddHandler(r) PROVE DrainInv'
  <2>0. "counted" \in ReqStates \cap Tracked
    BY DEF ReqStates, Tracked
  <2>1. InFlight' = InFlight \cup {r} /\ Serving' = Serving \ {r}
    BY <1>11, <2>0, RequestMoves DEF AddHandler
  <2>2. r \notin InFlight
    BY <1>11 DEF AddHandler, InFlight, Tracked
  <2>3. Cardinality(InFlight') = Cardinality(InFlight) + 1
    BY <2>1, <2>2, InFlightFinite, FS_AddElement
  <2>. QED
    BY <1>11, <2>1, <2>3 DEF DrainInv, AddHandler
<1>12. ASSUME NEW r \in Requests, GoDispatch(r) PROVE DrainInv'
  <2>1. InFlight' = InFlight \cup {r}
    BY <1>12, RequestMoves DEF GoDispatch, ReqStates, Tracked
  <2>2. r \in InFlight
    BY <1>12 DEF GoDispatch, InFlight, Tracked
  <2>. QED
    BY <1>12, <2>1, <2>2 DEF DrainInv, GoDispatch, drainVars, stopVars, resources, idleVars, procVars
<1>13. ASSUME NEW r \in Requests, BackOut(r) PROVE DrainInv'
  BY <1>13, DoneStep DEF BackOut, InFlight, ReqStates, Tracked
<1>14. ASSUME NEW r \in Requests, HandlerReturns(r) PROVE DrainInv'
  <2>1. InFlight' = InFlight \cup {r} /\ Serving' = Serving \cup {r}
    BY <1>14, RequestMoves DEF HandlerReturns, ReqStates, Tracked
  <2>2. r \in InFlight /\ r \in Serving
    BY <1>14 DEF HandlerReturns, InFlight, Serving, Tracked
  <2>. QED
    BY <1>14, <2>1, <2>2 DEF DrainInv, HandlerReturns, Respond, drainVars, stopVars, resources, procVars
<1>15. ASSUME NEW r \in Requests, DispatchDone(r) PROVE DrainInv'
  BY <1>15, DoneStep DEF DispatchDone, InFlight, ReqStates, Tracked
<1>16. CASE StopBegins
  BY <1>16, <1>0 DEF StopBegins, connVars, drainVars, resources, idleVars,
       procVars
<1>17. CASE CloseListener
  BY <1>17, <1>0 DEF CloseListener, drainVars, idleVars, procVars
<1>18. CASE RemoveToken
  BY <1>18, <1>0 DEF RemoveToken, connVars, drainVars, idleVars, procVars
<1>19. CASE BeginShutdown
  BY <1>19 DEF DrainInv, InFlight, Serving, BeginShutdown, connVars, resources, idleVars, procVars
<1>20. CASE Drained
  BY <1>20, <1>0 DEF Drained, connVars, drainVars, resources, idleVars,
       procVars
<1>21. CASE DrainTimeout
  BY <1>21, <1>0 DEF DrainTimeout, connVars, resources, idleVars, procVars
<1>22. CASE LifecycleJoined
  BY <1>22, <1>0 DEF LifecycleJoined, connVars, drainVars, resources, idleVars,
       procVars
<1>23. CASE ClosePool
  BY <1>23, <1>0 DEF ClosePool, connVars, drainVars, idleVars, procVars
<1>24. CASE ReleaseLock
  BY <1>24, <1>0 DEF ReleaseLock, connVars, drainVars, idleVars, procVars
<1>25. ASSUME NEW p \in Callers, StopReturns(p) PROVE DrainInv'
  BY <1>25, <1>0 DEF StopReturns, connVars, drainVars, resources, idleVars,
       procVars
<1>26. CASE Wait
  <2>1. Serving \subseteq InFlight
    BY DEF Serving, InFlight, Tracked
  <2>2. handlerWG = 0 => Serving = {}
    BY <2>1, InFlightFinite, FS_EmptySet DEF DrainInv
  <2>3. InFlight' = InFlight /\ Serving' = Serving
    BY <1>26 DEF InFlight, Serving, Wait, connVars, stopVars, resources, idleVars, procVars
  <2>. QED
    BY <1>26, <2>2, <2>3 DEF DrainInv, Wait
<1>27. CASE WaitReturns
  BY <1>27 DEF DrainInv, InFlight, Serving, WaitReturns, connVars, stopVars, resources, idleVars, procVars
<1>28. CASE WaitPanics
  BY <1>28, <1>0 DEF WaitPanics, ProcessDies, drainVars, stopVars, idleVars
<1>29. CASE AcceptLoopExits
  BY <1>29, <1>0 DEF AcceptLoopExits, Exit, connVars, drainVars, resources,
       idleVars, procVars
<1>30. CASE HeartbeatExits
  BY <1>30, <1>0 DEF HeartbeatExits, Exit, connVars, drainVars, resources,
       idleVars, procVars
<1>31. CASE IdleWatcherExits
  BY <1>31, <1>0 DEF IdleWatcherExits, Exit, connVars, drainVars, resources,
       idleVars, procVars
<1>32. CASE IdleSeesNoAgents
  BY <1>32, <1>0 DEF IdleSeesNoAgents, connVars, drainVars, resources,
       idleVars, procVars
<1>33. CASE IdleStays
  BY <1>33, <1>0 DEF IdleStays, connVars, drainVars, resources, idleVars,
       procVars
<1>34. CASE IdleFires
  BY <1>34, <1>0 DEF IdleFires, Exit, connVars, drainVars, resources, idleVars,
       procVars
<1>35. CASE SignalStop
  BY <1>35, <1>0 DEF SignalStop, connVars, drainVars, resources, idleVars,
       procVars
<1>36. CASE Signal
  BY <1>36, <1>0 DEF Signal, connVars, drainVars, stopVars, resources, idleVars
<1>37. CASE ProcessExits
  BY <1>37, <1>0 DEF ProcessExits, ProcessDies, drainVars, stopVars, idleVars
<1>38. CASE Tick
  BY <1>38, <1>0 DEF Tick, connVars, drainVars, stopVars, resources, procVars
<1>39. CASE Gone
  BY <1>39, <1>0 DEF Gone, vars, connVars, drainVars, idleVars, procVars,
       resources, stopVars
<1>40. CASE UNCHANGED vars
  BY <1>40, <1>0 DEF vars, connVars, drainVars, idleVars, procVars, resources,
       stopVars
<1>. QED
  BY <1>1, <1>2, <1>3, <1>4, <1>5, <1>6, <1>7, <1>8, <1>9, <1>10, <1>11, <1>12,
       <1>13, <1>14, <1>15, <1>16, <1>17, <1>18, <1>19, <1>20, <1>21, <1>22,
       <1>23, <1>24, <1>25, <1>26, <1>27, <1>28, <1>29, <1>30, <1>31, <1>32,
       <1>33, <1>34, <1>35, <1>36, <1>37, <1>38, <1>39, <1>40 DEF Next,
       ConnStep, ReqStep, StopStep, WaiterStep, LifeStep

(* The shutdown sequence: every stage finds what the stages before it left. *)
LEMMA StopSequenceStep == TypeOK /\ StopInv /\ [Next]_vars => StopInv'
<1>. SUFFICES ASSUME TypeOK, StopInv, [Next]_vars PROVE StopInv'
  OBVIOUS
<1>. USE DEF TypeOK, StopInv, Alive, Goroutines, Callers
<1>1. ASSUME NEW c \in Conns, Dial(c) PROVE StopInv'
  BY <1>1 DEF Dial, Become, drainVars, stopVars, resources, idleVars, procVars
<1>2. ASSUME NEW c \in Conns, Accept(c) PROVE StopInv'
  BY <1>2 DEF Accept, Become, drainVars, stopVars, resources, idleVars,
       procVars
<1>3. ASSUME NEW c \in Conns, Authenticate(c) PROVE StopInv'
  BY <1>3 DEF Authenticate, Become, drainVars, stopVars, resources, idleVars,
       procVars
<1>4. ASSUME NEW c \in Conns, RejectHello(c) PROVE StopInv'
  BY <1>4 DEF RejectHello, Become, drainVars, stopVars, resources, idleVars,
       procVars
<1>5. ASSUME NEW c \in Conns, HelloReadFails(c) PROVE StopInv'
  BY <1>5 DEF HelloReadFails, Become, drainVars, stopVars, resources, idleVars,
       procVars
<1>6. ASSUME NEW c \in Conns, HangUp(c) PROVE StopInv'
  BY <1>6 DEF HangUp, Become, drainVars, stopVars, resources, idleVars,
       procVars
<1>7. ASSUME NEW c \in Conns, ReHello(c) PROVE StopInv'
  BY <1>7 DEF ReHello, connVars, drainVars, stopVars, resources, procVars
<1>8. ASSUME NEW r \in Requests, ReadEnvelope(r) PROVE StopInv'
  BY <1>8 DEF ReadEnvelope, drainVars, stopVars, resources, procVars
<1>9. ASSUME NEW r \in Requests, Admit(r) PROVE StopInv'
  BY <1>9 DEF Admit, drainVars, stopVars, resources, idleVars, procVars
<1>10. ASSUME NEW r \in Requests, Refuse(r) PROVE StopInv'
  BY <1>10 DEF Refuse, Respond, drainVars, stopVars, resources, idleVars,
       procVars
<1>11. ASSUME NEW r \in Requests, AddHandler(r) PROVE StopInv'
  BY <1>11 DEF AddHandler, stopVars, resources, idleVars, procVars
<1>12. ASSUME NEW r \in Requests, GoDispatch(r) PROVE StopInv'
  BY <1>12 DEF GoDispatch, drainVars, stopVars, resources, idleVars, procVars
<1>13. ASSUME NEW r \in Requests, BackOut(r) PROVE StopInv'
  BY <1>13 DEF BackOut, Done, Respond, stopVars, resources, idleVars, procVars
<1>14. ASSUME NEW r \in Requests, HandlerReturns(r) PROVE StopInv'
  BY <1>14 DEF HandlerReturns, Respond, drainVars, stopVars, resources,
       procVars
<1>15. ASSUME NEW r \in Requests, DispatchDone(r) PROVE StopInv'
  BY <1>15 DEF DispatchDone, Done, stopVars, resources, idleVars, procVars
<1>16. CASE StopBegins
  BY <1>16 DEF StopBegins, connVars, drainVars, resources, idleVars, procVars
<1>17. CASE CloseListener
  BY <1>17 DEF CloseListener, drainVars, idleVars, procVars
<1>18. CASE RemoveToken
  BY <1>18 DEF RemoveToken, connVars, drainVars, idleVars, procVars
<1>19. CASE BeginShutdown
  BY <1>19 DEF BeginShutdown, connVars, resources, idleVars, procVars
<1>20. CASE Drained
  BY <1>20 DEF Drained, connVars, drainVars, resources, idleVars, procVars
<1>21. CASE DrainTimeout
  BY <1>21 DEF DrainTimeout, connVars, resources, idleVars, procVars
<1>22. CASE LifecycleJoined
  BY <1>22 DEF LifecycleJoined, connVars, drainVars, resources, idleVars,
       procVars
<1>23. CASE ClosePool
  BY <1>23 DEF ClosePool, connVars, drainVars, idleVars, procVars
<1>24. CASE ReleaseLock
  BY <1>24 DEF ReleaseLock, connVars, drainVars, idleVars, procVars
<1>25. ASSUME NEW p \in Callers, StopReturns(p) PROVE StopInv'
  BY <1>25 DEF StopReturns, connVars, drainVars, resources, idleVars, procVars
<1>26. CASE Wait
  BY <1>26 DEF Wait, connVars, stopVars, resources, idleVars, procVars
<1>27. CASE WaitReturns
  BY <1>27 DEF WaitReturns, connVars, stopVars, resources, idleVars, procVars
<1>28. CASE WaitPanics
  BY <1>28 DEF WaitPanics, ProcessDies, drainVars, stopVars, idleVars
<1>29. CASE AcceptLoopExits
  BY <1>29 DEF AcceptLoopExits, Exit, connVars, drainVars, resources, idleVars,
       procVars
<1>30. CASE HeartbeatExits
  BY <1>30 DEF HeartbeatExits, Exit, connVars, drainVars, resources, idleVars,
       procVars
<1>31. CASE IdleWatcherExits
  BY <1>31 DEF IdleWatcherExits, Exit, connVars, drainVars, resources,
       idleVars, procVars
<1>32. CASE IdleSeesNoAgents
  BY <1>32 DEF IdleSeesNoAgents, connVars, drainVars, resources, idleVars,
       procVars
<1>33. CASE IdleStays
  BY <1>33 DEF IdleStays, connVars, drainVars, resources, idleVars, procVars
<1>34. CASE IdleFires
  BY <1>34 DEF IdleFires, Exit, connVars, drainVars, resources, idleVars,
       procVars
<1>35. CASE SignalStop
  BY <1>35 DEF SignalStop, connVars, drainVars, resources, idleVars, procVars
<1>36. CASE Signal
  BY <1>36 DEF Signal, connVars, drainVars, stopVars, resources, idleVars
<1>37. CASE ProcessExits
  BY <1>37 DEF ProcessExits, ProcessDies, drainVars, stopVars, idleVars
<1>38. CASE Tick
  BY <1>38 DEF Tick, connVars, drainVars, stopVars, resources, procVars
<1>39. CASE Gone
  BY <1>39 DEF Gone, vars, connVars, drainVars, idleVars, procVars, resources,
       stopVars
<1>40. CASE UNCHANGED vars
  BY <1>40 DEF vars, connVars, drainVars, idleVars, procVars, resources,
       stopVars
<1>. QED
  BY <1>1, <1>2, <1>3, <1>4, <1>5, <1>6, <1>7, <1>8, <1>9, <1>10, <1>11, <1>12,
       <1>13, <1>14, <1>15, <1>16, <1>17, <1>18, <1>19, <1>20, <1>21, <1>22,
       <1>23, <1>24, <1>25, <1>26, <1>27, <1>28, <1>29, <1>30, <1>31, <1>32,
       <1>33, <1>34, <1>35, <1>36, <1>37, <1>38, <1>39, <1>40 DEF Next,
       ConnStep, ReqStep, StopStep, WaiterStep, LifeStep

(* A call whose handler has returned has its answer. *)
LEMMA ReplyStep == TypeOK /\ ReplyInv /\ [Next]_vars => ReplyInv'
<1>. SUFFICES ASSUME TypeOK, ReplyInv, [Next]_vars PROVE ReplyInv'
  OBVIOUS
<1>. USE DEF TypeOK, ReplyInv, Calls
<1>1. ASSUME NEW c \in Conns, Dial(c) PROVE ReplyInv'
  BY <1>1 DEF Dial, Become, drainVars, stopVars, resources, idleVars, procVars
<1>2. ASSUME NEW c \in Conns, Accept(c) PROVE ReplyInv'
  BY <1>2 DEF Accept, Become, drainVars, stopVars, resources, idleVars,
       procVars
<1>3. ASSUME NEW c \in Conns, Authenticate(c) PROVE ReplyInv'
  BY <1>3 DEF Authenticate, Become, drainVars, stopVars, resources, idleVars,
       procVars
<1>4. ASSUME NEW c \in Conns, RejectHello(c) PROVE ReplyInv'
  BY <1>4 DEF RejectHello, Become, drainVars, stopVars, resources, idleVars,
       procVars
<1>5. ASSUME NEW c \in Conns, HelloReadFails(c) PROVE ReplyInv'
  BY <1>5 DEF HelloReadFails, Become, drainVars, stopVars, resources, idleVars,
       procVars
<1>6. ASSUME NEW c \in Conns, HangUp(c) PROVE ReplyInv'
  BY <1>6 DEF HangUp, Become, drainVars, stopVars, resources, idleVars,
       procVars
<1>7. ASSUME NEW c \in Conns, ReHello(c) PROVE ReplyInv'
  BY <1>7 DEF ReHello, connVars, drainVars, stopVars, resources, procVars
<1>8. ASSUME NEW r \in Requests, ReadEnvelope(r) PROVE ReplyInv'
  BY <1>8 DEF ReadEnvelope, drainVars, stopVars, resources, procVars
<1>9. ASSUME NEW r \in Requests, Admit(r) PROVE ReplyInv'
  BY <1>9 DEF Admit, drainVars, stopVars, resources, idleVars, procVars
<1>10. ASSUME NEW r \in Requests, Refuse(r) PROVE ReplyInv'
  BY <1>10 DEF Refuse, Respond, drainVars, stopVars, resources, idleVars,
       procVars
<1>11. ASSUME NEW r \in Requests, AddHandler(r) PROVE ReplyInv'
  BY <1>11 DEF AddHandler, stopVars, resources, idleVars, procVars
<1>12. ASSUME NEW r \in Requests, GoDispatch(r) PROVE ReplyInv'
  BY <1>12 DEF GoDispatch, drainVars, stopVars, resources, idleVars, procVars
<1>13. ASSUME NEW r \in Requests, BackOut(r) PROVE ReplyInv'
  BY <1>13 DEF BackOut, Done, Respond, stopVars, resources, idleVars, procVars
<1>14. ASSUME NEW r \in Requests, HandlerReturns(r) PROVE ReplyInv'
  BY <1>14 DEF HandlerReturns, Respond, drainVars, stopVars, resources,
       procVars
<1>15. ASSUME NEW r \in Requests, DispatchDone(r) PROVE ReplyInv'
  BY <1>15 DEF DispatchDone, Done, stopVars, resources, idleVars, procVars
<1>16. CASE StopBegins
  BY <1>16 DEF StopBegins, connVars, drainVars, resources, idleVars, procVars
<1>17. CASE CloseListener
  BY <1>17 DEF CloseListener, drainVars, idleVars, procVars
<1>18. CASE RemoveToken
  BY <1>18 DEF RemoveToken, connVars, drainVars, idleVars, procVars
<1>19. CASE BeginShutdown
  BY <1>19 DEF BeginShutdown, connVars, resources, idleVars, procVars
<1>20. CASE Drained
  BY <1>20 DEF Drained, connVars, drainVars, resources, idleVars, procVars
<1>21. CASE DrainTimeout
  BY <1>21 DEF DrainTimeout, connVars, resources, idleVars, procVars
<1>22. CASE LifecycleJoined
  BY <1>22 DEF LifecycleJoined, connVars, drainVars, resources, idleVars,
       procVars
<1>23. CASE ClosePool
  BY <1>23 DEF ClosePool, connVars, drainVars, idleVars, procVars
<1>24. CASE ReleaseLock
  BY <1>24 DEF ReleaseLock, connVars, drainVars, idleVars, procVars
<1>25. ASSUME NEW p \in Callers, StopReturns(p) PROVE ReplyInv'
  BY <1>25 DEF StopReturns, connVars, drainVars, resources, idleVars, procVars
<1>26. CASE Wait
  BY <1>26 DEF Wait, connVars, stopVars, resources, idleVars, procVars
<1>27. CASE WaitReturns
  BY <1>27 DEF WaitReturns, connVars, stopVars, resources, idleVars, procVars
<1>28. CASE WaitPanics
  BY <1>28 DEF WaitPanics, ProcessDies, drainVars, stopVars, idleVars
<1>29. CASE AcceptLoopExits
  BY <1>29 DEF AcceptLoopExits, Exit, connVars, drainVars, resources, idleVars,
       procVars
<1>30. CASE HeartbeatExits
  BY <1>30 DEF HeartbeatExits, Exit, connVars, drainVars, resources, idleVars,
       procVars
<1>31. CASE IdleWatcherExits
  BY <1>31 DEF IdleWatcherExits, Exit, connVars, drainVars, resources,
       idleVars, procVars
<1>32. CASE IdleSeesNoAgents
  BY <1>32 DEF IdleSeesNoAgents, connVars, drainVars, resources, idleVars,
       procVars
<1>33. CASE IdleStays
  BY <1>33 DEF IdleStays, connVars, drainVars, resources, idleVars, procVars
<1>34. CASE IdleFires
  BY <1>34 DEF IdleFires, Exit, connVars, drainVars, resources, idleVars,
       procVars
<1>35. CASE SignalStop
  BY <1>35 DEF SignalStop, connVars, drainVars, resources, idleVars, procVars
<1>36. CASE Signal
  BY <1>36 DEF Signal, connVars, drainVars, stopVars, resources, idleVars
<1>37. CASE ProcessExits
  BY <1>37 DEF ProcessExits, ProcessDies, drainVars, stopVars, idleVars
<1>38. CASE Tick
  BY <1>38 DEF Tick, connVars, drainVars, stopVars, resources, procVars
<1>39. CASE Gone
  BY <1>39 DEF Gone, vars, connVars, drainVars, idleVars, procVars, resources,
       stopVars
<1>40. CASE UNCHANGED vars
  BY <1>40 DEF vars, connVars, drainVars, idleVars, procVars, resources,
       stopVars
<1>. QED
  BY <1>1, <1>2, <1>3, <1>4, <1>5, <1>6, <1>7, <1>8, <1>9, <1>10, <1>11, <1>12,
       <1>13, <1>14, <1>15, <1>16, <1>17, <1>18, <1>19, <1>20, <1>21, <1>22,
       <1>23, <1>24, <1>25, <1>26, <1>27, <1>28, <1>29, <1>30, <1>31, <1>32,
       <1>33, <1>34, <1>35, <1>36, <1>37, <1>38, <1>39, <1>40 DEF Next,
       ConnStep, ReqStep, StopStep, WaiterStep, LifeStep

(* The inductive invariant that the safety theorems rest on. *)
LEMMA Inductive == Spec => [](TypeOK /\ DrainInv /\ StopInv /\ ReplyInv)
<1>1. ASSUME Init PROVE DrainInv
  <2>1. InFlight = {} /\ Serving = {}
    BY <1>1 DEF Init, InFlight, Serving, Tracked
  <2>. QED
    BY <1>1, <2>1, FS_EmptySet DEF Init, DrainInv
<1>2. Init => StopInv
  BY DEF Init, StopInv, Alive
<1>3. Init => ReplyInv
  BY DEF Init, ReplyInv, Calls
<1>. QED
  BY <1>1, <1>2, <1>3, TypeCorrect, DrainStep, StopSequenceStep, ReplyStep, PTL DEF Spec

(* The database pool is closed only when no verb handler is running, or    *)
(* after the bounded drain has given up.                                   *)
THEOREM PoolSafe == Spec => []PoolOutlivesHandlers
<1>1. DrainInv /\ StopInv => PoolOutlivesHandlers
  BY DEF DrainInv, StopInv, PoolOutlivesHandlers
<1>. QED
  BY <1>1, Inductive, PTL

(* A live daemon without the singleton lock has nothing left running. *)
THEOREM HandoverSafe == Spec => []CleanHandover
<1>1. DrainInv /\ StopInv => CleanHandover
  BY DEF DrainInv, StopInv, CleanHandover
<1>. QED
  BY <1>1, Inductive, PTL

(* The process exits by itself only after the whole shutdown sequence. *)
THEOREM ExitSafe == Spec => []ExitAfterTeardown
<1>1. StopInv => ExitAfterTeardown
  BY DEF StopInv, ExitAfterTeardown
<1>. QED
  BY <1>1, Inductive, PTL

(* No answer of a call that reached its handler is lost to an orderly exit. *)
THEOREM AnswersSafe == Spec => []AnswersSurviveExit
<1>1. DrainInv /\ StopInv /\ ReplyInv => AnswersSurviveExit
  BY DEF DrainInv, StopInv, ReplyInv, AnswersSurviveExit, Serving, Calls
<1>. QED
  BY <1>1, Inductive, PTL
=============================================================================

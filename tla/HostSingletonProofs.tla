----------------------- MODULE HostSingletonProofs -----------------------
(***************************************************************************)
(* Proofs about the processes of one host: about HostSingleton, for any    *)
(* number of daemons and clients; about McpInstances, for any number of    *)
(* servers, cleaners and PIDs; and about HarConn, the recording transport  *)
(* of such a server, for any number of calls.                              *)
(***************************************************************************)
EXTENDS HostSingleton, McpInstances, HarConn, TLAPS

LEMMA TypeStep == TypeOK /\ [Next]_vars => TypeOK'
<1>. SUFFICES ASSUME TypeOK, [Next]_vars PROVE TypeOK'
  OBVIOUS
<1>. USE HostAssumption
     DEF HostAssumption, TypeOK, DaemonStates, Running, Locked, ClientStates
<1>0. ASSUME NEW d \in Daemons, Serve(d)
      PROVE  TypeOK'
  BY <1>0 DEF Serve, Goto, files, clientVars
<1>1. ASSUME NEW d \in Daemons, Probe(d)
      PROVE  TypeOK'
  BY <1>1 DEF Probe, Goto, Reachable, files, clientVars
<1>2. ASSUME NEW d \in Daemons, AcquireLock(d)
      PROVE  TypeOK'
  BY <1>2 DEF AcquireLock, Goto, clientVars
<1>3. ASSUME NEW d \in Daemons, LockHeldByPeer(d)
      PROVE  TypeOK'
  BY <1>3 DEF LockHeldByPeer, Goto, files, clientVars
<1>4. ASSUME NEW d \in Daemons, WriteToken(d)
      PROVE  TypeOK'
  BY <1>4 DEF WriteToken, Goto, clientVars
<1>5. ASSUME NEW d \in Daemons, WriteTokenFails(d)
      PROVE  TypeOK'
  BY <1>5 DEF WriteTokenFails, Goto, clientVars
<1>6. ASSUME NEW d \in Daemons, Listen(d)
      PROVE  TypeOK'
  BY <1>6 DEF Listen, Goto, clientVars
<1>7. ASSUME NEW d \in Daemons, ListenFails(d)
      PROVE  TypeOK'
  BY <1>7 DEF ListenFails, Goto, clientVars
<1>8. ASSUME NEW d \in Daemons, CleanUp(d)
      PROVE  TypeOK'
  BY <1>8 DEF CleanUp, Goto, clientVars
<1>9. ASSUME NEW d \in Daemons, CloseListener(d)
      PROVE  TypeOK'
  BY <1>9 DEF CloseListener, Goto, clientVars
<1>10. ASSUME NEW d \in Daemons, RemoveToken(d)
      PROVE  TypeOK'
  BY <1>10 DEF RemoveToken, Goto, clientVars
<1>11. ASSUME NEW d \in Daemons, ReleaseLock(d)
      PROVE  TypeOK'
  BY <1>11 DEF ReleaseLock, Goto, clientVars
<1>12. ASSUME NEW d \in Daemons, Crash(d)
      PROVE  TypeOK'
  BY <1>12 DEF Crash, clientVars
<1>13. ASSUME NEW c \in Clients, Dial(c)
      PROVE  TypeOK'
  BY <1>13 DEF Dial, Reachable, files
<1>14. ASSUME NEW c \in Clients, DialRefused(c)
      PROVE  TypeOK'
  BY <1>14 DEF DialRefused, Reachable, files
<1>15. ASSUME NEW c \in Clients, GiveUp(c)
      PROVE  TypeOK'
  BY <1>15 DEF GiveUp, Reachable, files
<1>16. ASSUME NEW c \in Clients, ReadToken(c)
      PROVE  TypeOK'
  BY <1>16 DEF ReadToken, files
<1>17. ASSUME NEW c \in Clients, HelloAccepted(c)
      PROVE  TypeOK'
  BY <1>17 DEF HelloAccepted, files
<1>18. ASSUME NEW c \in Clients, HelloFails(c)
      PROVE  TypeOK'
  BY <1>18 DEF HelloFails, files
<1>19. ASSUME NEW c \in Clients, NEW d \in Daemons, Autospawn(c, d)
      PROVE  TypeOK'
  BY <1>19 DEF Autospawn, Goto, files
<1>20. ASSUME NEW c \in Clients, AutospawnFails(c)
      PROVE  TypeOK'
  BY <1>20 DEF AutospawnFails, files
<1>21. CASE UNCHANGED vars
  BY <1>21 DEF vars, files, clientVars
<1>. QED
  BY <1>0, <1>1, <1>2, <1>3, <1>4, <1>5, <1>6, <1>7, <1>8, <1>9, <1>10, <1>11, <1>12,
       <1>13, <1>14, <1>15, <1>16, <1>17, <1>18, <1>19, <1>20, <1>21 DEF Next,
       StartStep, StopStep, ClientStep, Quiet

(* Every variable keeps its type. *)
THEOREM TypeCorrect == Spec => []TypeOK
<1>1. Init => TypeOK
  BY HostAssumption
  DEF HostAssumption, Init, TypeOK, DaemonStates, Running, Locked, ClientStates
<1>. QED
  BY <1>1, TypeStep, PTL DEF Spec

(* A daemon is between the flock and its release only while it holds the   *)
(* lock, and whatever it does to the socket path it does in between.       *)
LockInv ==
    /\ \A d \in Daemons : pc[d] \in Locked => lock = d
    /\ \A d \in listening : pc[d] = "serving" /\ sockPath = d

LEMMA LockStep == TypeOK /\ LockInv /\ [Next]_vars => LockInv'
<1>. SUFFICES ASSUME TypeOK, LockInv, [Next]_vars PROVE LockInv'
  OBVIOUS
<1>. USE HostAssumption DEF HostAssumption, TypeOK, LockInv, Locked
<1>0. ASSUME NEW d \in Daemons, Serve(d)
      PROVE  LockInv'
  BY <1>0 DEF Serve, Goto, files, clientVars
<1>1. ASSUME NEW d \in Daemons, Probe(d)
      PROVE  LockInv'
  BY <1>1 DEF Probe, Goto, Reachable, files, clientVars
<1>2. ASSUME NEW d \in Daemons, AcquireLock(d)
      PROVE  LockInv'
  BY <1>2 DEF AcquireLock, Goto, clientVars
<1>3. ASSUME NEW d \in Daemons, LockHeldByPeer(d)
      PROVE  LockInv'
  BY <1>3 DEF LockHeldByPeer, Goto, files, clientVars
<1>4. ASSUME NEW d \in Daemons, WriteToken(d)
      PROVE  LockInv'
  BY <1>4 DEF WriteToken, Goto, clientVars
<1>5. ASSUME NEW d \in Daemons, WriteTokenFails(d)
      PROVE  LockInv'
  BY <1>5 DEF WriteTokenFails, Goto, clientVars
<1>6. ASSUME NEW d \in Daemons, Listen(d)
      PROVE  LockInv'
  BY <1>6 DEF Listen, Goto, clientVars
<1>7. ASSUME NEW d \in Daemons, ListenFails(d)
      PROVE  LockInv'
  BY <1>7 DEF ListenFails, Goto, clientVars
<1>8. ASSUME NEW d \in Daemons, CleanUp(d)
      PROVE  LockInv'
  BY <1>8 DEF CleanUp, Goto, clientVars
<1>9. ASSUME NEW d \in Daemons, CloseListener(d)
      PROVE  LockInv'
  BY <1>9 DEF CloseListener, Goto, clientVars
<1>10. ASSUME NEW d \in Daemons, RemoveToken(d)
      PROVE  LockInv'
  BY <1>10 DEF RemoveToken, Goto, clientVars
<1>11. ASSUME NEW d \in Daemons, ReleaseLock(d)
      PROVE  LockInv'
  BY <1>11 DEF ReleaseLock, Goto, clientVars
<1>12. ASSUME NEW d \in Daemons, Crash(d)
      PROVE  LockInv'
  BY <1>12 DEF Crash, clientVars
<1>13. ASSUME NEW c \in Clients, Dial(c)
      PROVE  LockInv'
  BY <1>13 DEF Dial, Reachable, files
<1>14. ASSUME NEW c \in Clients, DialRefused(c)
      PROVE  LockInv'
  BY <1>14 DEF DialRefused, Reachable, files
<1>15. ASSUME NEW c \in Clients, GiveUp(c)
      PROVE  LockInv'
  BY <1>15 DEF GiveUp, Reachable, files
<1>16. ASSUME NEW c \in Clients, ReadToken(c)
      PROVE  LockInv'
  BY <1>16 DEF ReadToken, files
<1>17. ASSUME NEW c \in Clients, HelloAccepted(c)
      PROVE  LockInv'
  BY <1>17 DEF HelloAccepted, files
<1>18. ASSUME NEW c \in Clients, HelloFails(c)
      PROVE  LockInv'
  BY <1>18 DEF HelloFails, files
<1>19. ASSUME NEW c \in Clients, NEW d \in Daemons, Autospawn(c, d)
      PROVE  LockInv'
  BY <1>19 DEF Autospawn, Goto, files
<1>20. ASSUME NEW c \in Clients, AutospawnFails(c)
      PROVE  LockInv'
  BY <1>20 DEF AutospawnFails, files
<1>21. CASE UNCHANGED vars
  BY <1>21 DEF vars, files, clientVars
<1>. QED
  BY <1>0, <1>1, <1>2, <1>3, <1>4, <1>5, <1>6, <1>7, <1>8, <1>9, <1>10, <1>11, <1>12,
       <1>13, <1>14, <1>15, <1>16, <1>17, <1>18, <1>19, <1>20, <1>21 DEF Next,
       StartStep, StopStep, ClientStep, Quiet

LEMMA LockInductive == Spec => [](TypeOK /\ LockInv)
<1>1. Init => LockInv
  BY DEF Init, LockInv, Locked
<1>. QED
  BY <1>1, LockStep, TypeCorrect, PTL DEF Spec

(* At most one daemon listens, it holds the lock and owns the socket path, *)
(* whatever starts fail and whichever daemons crash.                       *)
THEOREM EndpointSafe == Spec => []EndpointOwned
<1>1. TypeOK /\ LockInv => EndpointOwned
  BY DEF TypeOK, LockInv, EndpointOwned, Locked
<1>. QED
  BY <1>1, LockInductive, PTL

(* Nobody but the holder of the lock writes the token; the cleanup of a     *)
(* failed start can only remove it.  So a client that finds a token after   *)
(* it has dialled finds that of the daemon it has dialled.                  *)
TokenInv ==
    /\ \A d \in Daemons : pc[d] \in {"listen", "serving"} => tokenFile \in {d, None}
    /\ (\A d \in Daemons : pc[d] # "failed") =>
         \A d \in Daemons : pc[d] \in {"listen", "serving"} => tokenFile = d
    /\ \A c \in Clients : client[c] \in {"dialed", "hello"} =>
         /\ target[c] \in Daemons
         /\ pc[target[c]] \in {"serving", "removeToken", "release", "exited", "crashed"}
    /\ RightToken

LEMMA TokenStep ==
  TypeOK /\ LockInv /\ TokenInv /\ [Next]_vars => TokenInv'
<1>. SUFFICES ASSUME TypeOK, LockInv, TokenInv, [Next]_vars PROVE TokenInv'
  OBVIOUS
<1>. USE HostAssumption
     DEF HostAssumption, TypeOK, LockInv, TokenInv, RightToken, Locked, Running
<1>0. ASSUME NEW d \in Daemons, Serve(d)
      PROVE  TokenInv'
  BY <1>0 DEF Serve, Goto, files, clientVars
<1>1. ASSUME NEW d \in Daemons, Probe(d)
      PROVE  TokenInv'
  BY <1>1 DEF Probe, Goto, Reachable, files, clientVars
<1>2. ASSUME NEW d \in Daemons, AcquireLock(d)
      PROVE  TokenInv'
  BY <1>2 DEF AcquireLock, Goto, clientVars
<1>3. ASSUME NEW d \in Daemons, LockHeldByPeer(d)
      PROVE  TokenInv'
  BY <1>3 DEF LockHeldByPeer, Goto, files, clientVars
<1>4. ASSUME NEW d \in Daemons, WriteToken(d)
      PROVE  TokenInv'
  BY <1>4 DEF WriteToken, Goto, clientVars
<1>5. ASSUME NEW d \in Daemons, WriteTokenFails(d)
      PROVE  TokenInv'
  BY <1>5 DEF WriteTokenFails, Goto, clientVars
<1>6. ASSUME NEW d \in Daemons, Listen(d)
      PROVE  TokenInv'
  BY <1>6 DEF Listen, Goto, clientVars
<1>7. ASSUME NEW d \in Daemons, ListenFails(d)
      PROVE  TokenInv'
  BY <1>7 DEF ListenFails, Goto, clientVars
<1>8. ASSUME NEW d \in Daemons, CleanUp(d)
      PROVE  TokenInv'
  BY <1>8 DEF CleanUp, Goto, clientVars
<1>9. ASSUME NEW d \in Daemons, CloseListener(d)
      PROVE  TokenInv'
  BY <1>9 DEF CloseListener, Goto, clientVars
<1>10. ASSUME NEW d \in Daemons, RemoveToken(d)
      PROVE  TokenInv'
  BY <1>10 DEF RemoveToken, Goto, clientVars
<1>11. ASSUME NEW d \in Daemons, ReleaseLock(d)
      PROVE  TokenInv'
  BY <1>11 DEF ReleaseLock, Goto, clientVars
<1>12. ASSUME NEW d \in Daemons, Crash(d)
      PROVE  TokenInv'
  BY <1>12 DEF Crash, clientVars
<1>13. ASSUME NEW c \in Clients, Dial(c)
      PROVE  TokenInv'
  BY <1>13 DEF Dial, Reachable, files
<1>14. ASSUME NEW c \in Clients, DialRefused(c)
      PROVE  TokenInv'
  BY <1>14 DEF DialRefused, Reachable, files
<1>15. ASSUME NEW c \in Clients, GiveUp(c)
      PROVE  TokenInv'
  BY <1>15 DEF GiveUp, Reachable, files
<1>16. ASSUME NEW c \in Clients, ReadToken(c)
      PROVE  TokenInv'
  BY <1>16 DEF ReadToken, files
<1>17. ASSUME NEW c \in Clients, HelloAccepted(c)
      PROVE  TokenInv'
  BY <1>17 DEF HelloAccepted, files
<1>18. ASSUME NEW c \in Clients, HelloFails(c)
      PROVE  TokenInv'
  BY <1>18 DEF HelloFails, files
<1>19. ASSUME NEW c \in Clients, NEW d \in Daemons, Autospawn(c, d)
      PROVE  TokenInv'
  BY <1>19 DEF Autospawn, Goto, files
<1>20. ASSUME NEW c \in Clients, AutospawnFails(c)
      PROVE  TokenInv'
  BY <1>20 DEF AutospawnFails, files
<1>21. CASE UNCHANGED vars
  BY <1>21 DEF vars, files, clientVars
<1>. QED
  BY <1>0, <1>1, <1>2, <1>3, <1>4, <1>5, <1>6, <1>7, <1>8, <1>9, <1>10, <1>11, <1>12,
       <1>13, <1>14, <1>15, <1>16, <1>17, <1>18, <1>19, <1>20, <1>21 DEF Next,
       StartStep, StopStep, ClientStep, Quiet

LEMMA TokenInductive == Spec => [](TypeOK /\ LockInv /\ TokenInv)
<1>1. Init => TokenInv
  BY DEF Init, TokenInv, RightToken
<1>. QED
  BY <1>1, TokenStep, LockInductive, PTL DEF Spec

(* Until a start that failed half-way has cleaned up, a daemon that listens *)
(* owns the token file too.                                                 *)
THEOREM TokenSafe == Spec => []TokenOwned
<1>1. TypeOK /\ LockInv /\ TokenInv => TokenOwned
  BY DEF TypeOK, LockInv, TokenInv, TokenOwned, TokenKept
<1>. QED
  BY <1>1, TokenInductive, PTL

(* A client never presents a wrong token to the daemon it has dialled while *)
(* that daemon serves.                                                      *)
THEOREM RightTokenSafe == Spec => []RightToken
<1>1. TokenInv => RightToken
  BY DEF TokenInv
<1>. QED
  BY <1>1, TokenInductive, PTL
----------------------------------------------------------------------------
(* The instances of `unravel mcp` and their registry.                      *)

\* A process has a PID from its start to its end, and its record open at most
\* from Register to Close.
LivesWithPid ==
    \A s \in Servers :
        /\ Alive(s) <=> phase[s] \notin {"new", "exited", "killed"}
        /\ s \in open => phase[s] \in {"registered", "serving", "stopping"}

\* A record that is not open was left by a server that has closed or ended.
RecordsOpen ==
    \A p \in Pids : file[p] # Nothing => file[p].of \in open \/ Gone(file[p].of)

\* A cleaner that lives reads records of servers that have started.
EntriesStarted ==
    \A c \in Cleaners :
        /\ \A e \in seen[c] : phase[e.of] # "new"
        /\ doomed[c] # Nothing => phase[doomed[c].of] # "new"
        /\ unread[c] # {} \/ seen[c] # {} \/ doomed[c] # Nothing => Alive(c)

\* The server of a record that is to be removed has ended, has lost its parent
\* or has never had that PID, and it stays that way.
DoomedFairly ==
    \A c \in Cleaners :
        LET e == doomed[c]
        IN  e # Nothing /\ ~force[c] => pid[e.of] # e.pid \/ e.of \in orphaned

McpInv == McpTypeOK /\ LivesWithPid /\ RecordsOpen /\ EntriesStarted /\ DoomedFairly

LEMMA UsedPids == \A q \in Procs : pid[q] # Nothing => pid[q] \in Used
BY DEF Used, Alive

LEMMA McpTypeStep ==
    ASSUME McpTypeOK, LivesWithPid, RecordsOpen, [McpNext]_mcpVars
    PROVE  McpTypeOK'
<1>. USE InstancesAssumption
     DEF InstancesAssumption, McpTypeOK, Procs, Entry, Seen, Alive, server, cleaner, idle, parent, Gone
<1>1. ASSUME NEW s \in Servers, NEW p \in Pids, Start(s, p)
      PROVE  McpTypeOK'
  <2>1. Alive(s)' /\ pid[s]' = p /\ \A q \in Procs \ {s} : pid'[q] = pid[q] /\ pid[q] # p
    BY <1>1 DEF Start, Used
  <2>2. \A q \in Pids : file[q] # Nothing => file[q].of # s
    BY <1>1 DEF Start, RecordsOpen, LivesWithPid
  <2>. QED
    BY <1>1, <2>1, <2>2 DEF Start, Enter
<1>2. ASSUME NEW s \in Servers, Register(s)
      PROVE  McpTypeOK'
  <2>1. pid[s] \in Pids
    BY <1>2 DEF Register, LivesWithPid
  <2>. QED
    BY <1>2, <2>1 DEF Register, Write, Enter
<1>3. ASSUME NEW s \in Servers, RegisterFails(s)
      PROVE  McpTypeOK'
  BY <1>3 DEF RegisterFails, Fault, Enter
<1>4. ASSUME NEW s \in Servers, Receive(s)
      PROVE  McpTypeOK'
  BY <1>4 DEF Receive
<1>5. ASSUME NEW s \in Servers, Touch(s)
      PROVE  McpTypeOK'
  <2>1. pid[s] \in Pids
    BY <1>5 DEF Touch, Touched
  <2>2. CASE s \in open \ fresh
    <3>1. file' = [file EXCEPT ![pid[s]] = [of |-> s, stale |-> FALSE]]
      BY <1>5, <2>2 DEF Touch, Write
    <3>2. file' \in [Pids -> Entry \cup {Nothing}]
      BY <2>1, <3>1
    <3>3. fresh' = fresh \cup {s}
      BY <1>5, <2>2 DEF Touch
    <3>4. \A q \in Pids :
              file'[q] # Nothing /\ pid[file'[q].of] # Nothing => pid[file'[q].of] = q
      BY <2>1, <3>1
    <3>. QED
      BY <1>5, <3>2, <3>3, <3>4 DEF Touch, Touched
  <2>3. CASE s \notin open \ fresh
    BY <1>5, <2>3 DEF Touch, Touched
  <2>. QED
    BY <2>2, <2>3
<1>6. ASSUME NEW s \in Servers, TouchFails(s)
      PROVE  McpTypeOK'
  BY <1>6 DEF TouchFails, Touched, Fault
<1>7. ASSUME NEW s \in Servers, Reset(s)
      PROVE  McpTypeOK'
  BY <1>7 DEF Reset
<1>8. ASSUME NEW s \in Servers, Expire(s)
      PROVE  McpTypeOK'
  BY <1>8 DEF Expire
<1>9. ASSUME NEW s \in Servers, Callback(s)
      PROVE  McpTypeOK'
  BY <1>9 DEF Callback
<1>10. ASSUME NEW s \in Servers, WatchParent(s)
      PROVE  McpTypeOK'
  BY <1>10 DEF WatchParent
<1>11. ASSUME NEW s \in Servers, Unwind(s)
      PROVE  McpTypeOK'
  BY <1>11 DEF Unwind, Enter
<1>12. ASSUME NEW s \in Servers, ClientLeaves(s)
      PROVE  McpTypeOK'
  BY <1>12 DEF ClientLeaves, Enter
<1>13. ASSUME NEW s \in Servers, Close(s)
      PROVE  McpTypeOK'
  BY <1>13 DEF Close, Enter, Remove
<1>14. ASSUME NEW s \in Servers, Exit(s)
      PROVE  McpTypeOK'
  BY <1>14 DEF Exit, Leave, Enter
<1>15. ASSUME NEW s \in Servers, ParentDies(s)
      PROVE  McpTypeOK'
  BY <1>15 DEF ParentDies
<1>16. ASSUME NEW s \in Servers, Kill(s)
      PROVE  McpTypeOK'
  BY <1>16 DEF Kill, Leave, Enter, Fault
<1>17. ASSUME NEW s \in Servers, SecondPasses(s)
      PROVE  McpTypeOK'
  BY <1>17 DEF SecondPasses
<1>18. ASSUME NEW c \in Cleaners, NEW p \in Pids, NEW f \in BOOLEAN, CleanStart(c, p, f)
      PROVE  McpTypeOK'
  BY <1>18 DEF CleanStart, Used
<1>19. ASSUME NEW c \in Cleaners, NEW p \in Pids, ReadEntry(c, p)
      PROVE  McpTypeOK'
  BY <1>19 DEF ReadEntry
<1>20. ASSUME NEW c \in Cleaners, NEW e \in seen[c], Judge(c, e)
      PROVE  McpTypeOK'
  BY <1>20 DEF Judge, Eligible, Used
<1>21. ASSUME NEW c \in Cleaners, RemoveEntry(c)
      PROVE  McpTypeOK'
  BY <1>21 DEF RemoveEntry, Remove
<1>22. ASSUME NEW c \in Cleaners, RemoveFails(c)
      PROVE  McpTypeOK'
  BY <1>22 DEF RemoveFails, Fault
<1>23. ASSUME NEW c \in Cleaners, CleanEnd(c)
      PROVE  McpTypeOK'
  BY <1>23 DEF CleanEnd
<1>24. ASSUME NEW p \in Pids, GoStale(p)
      PROVE  McpTypeOK'
  BY <1>24 DEF GoStale
<1>25. ASSUME NEW s \in Servers, Serving(s)
      PROVE  McpTypeOK'
  BY <1>25 DEF Serving, Enter
<1>26. ASSUME NEW s \in Servers, HandlersReturn(s)
      PROVE  McpTypeOK'
  BY <1>26 DEF HandlersReturn
<1>27. ASSUME NEW s \in Servers, CloseFails(s)
      PROVE  McpTypeOK'
  BY <1>27 DEF CloseFails, Fault, Enter
<1>28. CASE UNCHANGED mcpVars
  BY <1>28 DEF mcpVars
<1>. HIDE DEF McpTypeOK, server, cleaner, idle, parent, Gone
<1>. QED
  BY <1>1, <1>2, <1>3, <1>4, <1>5, <1>6, <1>7, <1>8, <1>9, <1>10, <1>11,
     <1>12, <1>13, <1>14, <1>15, <1>16, <1>17, <1>18, <1>19, <1>20, <1>21,
     <1>22, <1>23, <1>24, <1>25, <1>26, <1>27, <1>28 DEF McpNext, ServerStep, CleanerStep

LEMMA LivesStep ==
    ASSUME McpTypeOK, LivesWithPid, [McpNext]_mcpVars
    PROVE  LivesWithPid'
<1>. USE InstancesAssumption
     DEF InstancesAssumption, McpTypeOK, Procs, Entry, Seen, Alive, server, cleaner, idle, parent, Gone,
         LivesWithPid
<1>1. ASSUME NEW s \in Servers, NEW p \in Pids, Start(s, p)
      PROVE  LivesWithPid'
  BY <1>1 DEF Start, Enter, Alive, Used
<1>2. ASSUME NEW s \in Servers, Register(s)
      PROVE  LivesWithPid'
  BY <1>2 DEF Register, Write, Enter
<1>3. ASSUME NEW s \in Servers, RegisterFails(s)
      PROVE  LivesWithPid'
  BY <1>3 DEF RegisterFails, Fault, Enter
<1>4. ASSUME NEW s \in Servers, Receive(s)
      PROVE  LivesWithPid'
  BY <1>4 DEF Receive
<1>5. ASSUME NEW s \in Servers, Touch(s)
      PROVE  LivesWithPid'
  BY <1>5 DEF Touch, Touched, Write
<1>6. ASSUME NEW s \in Servers, TouchFails(s)
      PROVE  LivesWithPid'
  BY <1>6 DEF TouchFails, Touched, Fault
<1>7. ASSUME NEW s \in Servers, Reset(s)
      PROVE  LivesWithPid'
  BY <1>7 DEF Reset
<1>8. ASSUME NEW s \in Servers, Expire(s)
      PROVE  LivesWithPid'
  BY <1>8 DEF Expire
<1>9. ASSUME NEW s \in Servers, Callback(s)
      PROVE  LivesWithPid'
  BY <1>9 DEF Callback
<1>10. ASSUME NEW s \in Servers, WatchParent(s)
      PROVE  LivesWithPid'
  BY <1>10 DEF WatchParent
<1>11. ASSUME NEW s \in Servers, Unwind(s)
      PROVE  LivesWithPid'
  BY <1>11 DEF Unwind, Enter
<1>12. ASSUME NEW s \in Servers, ClientLeaves(s)
      PROVE  LivesWithPid'
  BY <1>12 DEF ClientLeaves, Enter
<1>13. ASSUME NEW s \in Servers, Close(s)
      PROVE  LivesWithPid'
  BY <1>13 DEF Close, Enter, Remove
<1>14. ASSUME NEW s \in Servers, Exit(s)
      PROVE  LivesWithPid'
  BY <1>14 DEF Exit, Leave, Enter
<1>15. ASSUME NEW s \in Servers, ParentDies(s)
      PROVE  LivesWithPid'
  BY <1>15 DEF ParentDies
<1>16. ASSUME NEW s \in Servers, Kill(s)
      PROVE  LivesWithPid'
  BY <1>16 DEF Kill, Leave, Enter, Fault
<1>17. ASSUME NEW s \in Servers, SecondPasses(s)
      PROVE  LivesWithPid'
  BY <1>17 DEF SecondPasses
<1>18. ASSUME NEW c \in Cleaners, NEW p \in Pids, NEW f \in BOOLEAN, CleanStart(c, p, f)
      PROVE  LivesWithPid'
  BY <1>18 DEF CleanStart, Used
<1>19. ASSUME NEW c \in Cleaners, NEW p \in Pids, ReadEntry(c, p)
      PROVE  LivesWithPid'
  BY <1>19 DEF ReadEntry
<1>20. ASSUME NEW c \in Cleaners, NEW e \in seen[c], Judge(c, e)
      PROVE  LivesWithPid'
  BY <1>20 DEF Judge, Eligible, Used
<1>21. ASSUME NEW c \in Cleaners, RemoveEntry(c)
      PROVE  LivesWithPid'
  BY <1>21 DEF RemoveEntry, Remove
<1>22. ASSUME NEW c \in Cleaners, RemoveFails(c)
      PROVE  LivesWithPid'
  BY <1>22 DEF RemoveFails, Fault
<1>23. ASSUME NEW c \in Cleaners, CleanEnd(c)
      PROVE  LivesWithPid'
  BY <1>23 DEF CleanEnd
<1>24. ASSUME NEW p \in Pids, GoStale(p)
      PROVE  LivesWithPid'
  BY <1>24 DEF GoStale
<1>25. ASSUME NEW s \in Servers, Serving(s)
      PROVE  LivesWithPid'
  BY <1>25 DEF Serving, Enter
<1>26. ASSUME NEW s \in Servers, HandlersReturn(s)
      PROVE  LivesWithPid'
  BY <1>26 DEF HandlersReturn
<1>27. ASSUME NEW s \in Servers, CloseFails(s)
      PROVE  LivesWithPid'
  BY <1>27 DEF CloseFails, Fault, Enter
<1>28. CASE UNCHANGED mcpVars
  BY <1>28 DEF mcpVars
<1>. HIDE DEF McpTypeOK, Procs, Entry, Seen, Alive, server, cleaner, idle, parent, Gone, LivesWithPid
<1>. QED
  BY <1>1, <1>2, <1>3, <1>4, <1>5, <1>6, <1>7, <1>8, <1>9, <1>10, <1>11,
     <1>12, <1>13, <1>14, <1>15, <1>16, <1>17, <1>18, <1>19, <1>20, <1>21,
     <1>22, <1>23, <1>24, <1>25, <1>26, <1>27, <1>28 DEF McpNext, ServerStep, CleanerStep

LEMMA RecordsStep ==
    ASSUME McpTypeOK, LivesWithPid, RecordsOpen, [McpNext]_mcpVars
    PROVE  RecordsOpen'
<1>. USE InstancesAssumption
     DEF InstancesAssumption, McpTypeOK, Procs, Entry, Seen, Alive, server, cleaner, idle, parent, Gone,
         LivesWithPid, RecordsOpen
<1>1. ASSUME NEW s \in Servers, NEW p \in Pids, Start(s, p)
      PROVE  RecordsOpen'
  BY <1>1 DEF Start, Enter, Alive, Used
<1>2. ASSUME NEW s \in Servers, Register(s)
      PROVE  RecordsOpen'
  BY <1>2 DEF Register, Write, Enter
<1>3. ASSUME NEW s \in Servers, RegisterFails(s)
      PROVE  RecordsOpen'
  BY <1>3 DEF RegisterFails, Fault, Enter
<1>4. ASSUME NEW s \in Servers, Receive(s)
      PROVE  RecordsOpen'
  BY <1>4 DEF Receive
<1>5. ASSUME NEW s \in Servers, Touch(s)
      PROVE  RecordsOpen'
  BY <1>5 DEF Touch, Touched, Write
<1>6. ASSUME NEW s \in Servers, TouchFails(s)
      PROVE  RecordsOpen'
  BY <1>6 DEF TouchFails, Touched, Fault
<1>7. ASSUME NEW s \in Servers, Reset(s)
      PROVE  RecordsOpen'
  BY <1>7 DEF Reset
<1>8. ASSUME NEW s \in Servers, Expire(s)
      PROVE  RecordsOpen'
  BY <1>8 DEF Expire
<1>9. ASSUME NEW s \in Servers, Callback(s)
      PROVE  RecordsOpen'
  BY <1>9 DEF Callback
<1>10. ASSUME NEW s \in Servers, WatchParent(s)
      PROVE  RecordsOpen'
  BY <1>10 DEF WatchParent
<1>11. ASSUME NEW s \in Servers, Unwind(s)
      PROVE  RecordsOpen'
  BY <1>11 DEF Unwind, Enter
<1>12. ASSUME NEW s \in Servers, ClientLeaves(s)
      PROVE  RecordsOpen'
  BY <1>12 DEF ClientLeaves, Enter
<1>13. ASSUME NEW s \in Servers, Close(s)
      PROVE  RecordsOpen'
  BY <1>13 DEF Close, Enter, Remove
<1>14. ASSUME NEW s \in Servers, Exit(s)
      PROVE  RecordsOpen'
  BY <1>14 DEF Exit, Leave, Enter
<1>15. ASSUME NEW s \in Servers, ParentDies(s)
      PROVE  RecordsOpen'
  BY <1>15 DEF ParentDies
<1>16. ASSUME NEW s \in Servers, Kill(s)
      PROVE  RecordsOpen'
  BY <1>16 DEF Kill, Leave, Enter, Fault
<1>17. ASSUME NEW s \in Servers, SecondPasses(s)
      PROVE  RecordsOpen'
  BY <1>17 DEF SecondPasses
<1>18. ASSUME NEW c \in Cleaners, NEW p \in Pids, NEW f \in BOOLEAN, CleanStart(c, p, f)
      PROVE  RecordsOpen'
  BY <1>18 DEF CleanStart, Used
<1>19. ASSUME NEW c \in Cleaners, NEW p \in Pids, ReadEntry(c, p)
      PROVE  RecordsOpen'
  BY <1>19 DEF ReadEntry
<1>20. ASSUME NEW c \in Cleaners, NEW e \in seen[c], Judge(c, e)
      PROVE  RecordsOpen'
  BY <1>20 DEF Judge, Eligible, Used
<1>21. ASSUME NEW c \in Cleaners, RemoveEntry(c)
      PROVE  RecordsOpen'
  BY <1>21 DEF RemoveEntry, Remove
<1>22. ASSUME NEW c \in Cleaners, RemoveFails(c)
      PROVE  RecordsOpen'
  BY <1>22 DEF RemoveFails, Fault
<1>23. ASSUME NEW c \in Cleaners, CleanEnd(c)
      PROVE  RecordsOpen'
  BY <1>23 DEF CleanEnd
<1>24. ASSUME NEW p \in Pids, GoStale(p)
      PROVE  RecordsOpen'
  BY <1>24 DEF GoStale
<1>25. ASSUME NEW s \in Servers, Serving(s)
      PROVE  RecordsOpen'
  BY <1>25 DEF Serving, Enter
<1>26. ASSUME NEW s \in Servers, HandlersReturn(s)
      PROVE  RecordsOpen'
  BY <1>26 DEF HandlersReturn
<1>27. ASSUME NEW s \in Servers, CloseFails(s)
      PROVE  RecordsOpen'
  BY <1>27 DEF CloseFails, Fault, Enter
<1>28. CASE UNCHANGED mcpVars
  BY <1>28 DEF mcpVars
<1>. HIDE DEF McpTypeOK, Procs, Entry, Seen, Alive, server, cleaner, idle, parent, Gone, LivesWithPid,
              RecordsOpen
<1>. QED
  BY <1>1, <1>2, <1>3, <1>4, <1>5, <1>6, <1>7, <1>8, <1>9, <1>10, <1>11,
     <1>12, <1>13, <1>14, <1>15, <1>16, <1>17, <1>18, <1>19, <1>20, <1>21,
     <1>22, <1>23, <1>24, <1>25, <1>26, <1>27, <1>28 DEF McpNext, ServerStep, CleanerStep

LEMMA EntriesStep ==
    ASSUME McpTypeOK, LivesWithPid, RecordsOpen, EntriesStarted, [McpNext]_mcpVars
    PROVE  EntriesStarted'
<1>. USE InstancesAssumption
     DEF InstancesAssumption, McpTypeOK, Procs, Entry, Seen, Alive, server, cleaner, idle, parent, Gone,
         LivesWithPid, RecordsOpen, EntriesStarted
<1>1. ASSUME NEW s \in Servers, NEW p \in Pids, Start(s, p)
      PROVE  EntriesStarted'
  BY <1>1 DEF Start, Enter, Alive, Used
<1>2. ASSUME NEW s \in Servers, Register(s)
      PROVE  EntriesStarted'
  BY <1>2 DEF Register, Write, Enter
<1>3. ASSUME NEW s \in Servers, RegisterFails(s)
      PROVE  EntriesStarted'
  BY <1>3 DEF RegisterFails, Fault, Enter
<1>4. ASSUME NEW s \in Servers, Receive(s)
      PROVE  EntriesStarted'
  BY <1>4 DEF Receive
<1>5. ASSUME NEW s \in Servers, Touch(s)
      PROVE  EntriesStarted'
  BY <1>5 DEF Touch, Touched, Write
<1>6. ASSUME NEW s \in Servers, TouchFails(s)
      PROVE  EntriesStarted'
  BY <1>6 DEF TouchFails, Touched, Fault
<1>7. ASSUME NEW s \in Servers, Reset(s)
      PROVE  EntriesStarted'
  BY <1>7 DEF Reset
<1>8. ASSUME NEW s \in Servers, Expire(s)
      PROVE  EntriesStarted'
  BY <1>8 DEF Expire
<1>9. ASSUME NEW s \in Servers, Callback(s)
      PROVE  EntriesStarted'
  BY <1>9 DEF Callback
<1>10. ASSUME NEW s \in Servers, WatchParent(s)
      PROVE  EntriesStarted'
  BY <1>10 DEF WatchParent
<1>11. ASSUME NEW s \in Servers, Unwind(s)
      PROVE  EntriesStarted'
  BY <1>11 DEF Unwind, Enter
<1>12. ASSUME NEW s \in Servers, ClientLeaves(s)
      PROVE  EntriesStarted'
  BY <1>12 DEF ClientLeaves, Enter
<1>13. ASSUME NEW s \in Servers, Close(s)
      PROVE  EntriesStarted'
  BY <1>13 DEF Close, Enter, Remove
<1>14. ASSUME NEW s \in Servers, Exit(s)
      PROVE  EntriesStarted'
  BY <1>14 DEF Exit, Leave, Enter
<1>15. ASSUME NEW s \in Servers, ParentDies(s)
      PROVE  EntriesStarted'
  BY <1>15 DEF ParentDies
<1>16. ASSUME NEW s \in Servers, Kill(s)
      PROVE  EntriesStarted'
  BY <1>16 DEF Kill, Leave, Enter, Fault
<1>17. ASSUME NEW s \in Servers, SecondPasses(s)
      PROVE  EntriesStarted'
  BY <1>17 DEF SecondPasses
<1>18. ASSUME NEW c \in Cleaners, NEW p \in Pids, NEW f \in BOOLEAN, CleanStart(c, p, f)
      PROVE  EntriesStarted'
  BY <1>18 DEF CleanStart, Used
<1>19. ASSUME NEW c \in Cleaners, NEW p \in Pids, ReadEntry(c, p)
      PROVE  EntriesStarted'
  <2>1. file[p] # Nothing => phase[file[p].of] # "new"
    BY <1>19
  <2>. QED
    BY <1>19, <2>1 DEF ReadEntry
<1>20. ASSUME NEW c \in Cleaners, NEW e \in seen[c], Judge(c, e)
      PROVE  EntriesStarted'
  BY <1>20 DEF Judge, Eligible, Used
<1>21. ASSUME NEW c \in Cleaners, RemoveEntry(c)
      PROVE  EntriesStarted'
  BY <1>21 DEF RemoveEntry, Remove
<1>22. ASSUME NEW c \in Cleaners, RemoveFails(c)
      PROVE  EntriesStarted'
  BY <1>22 DEF RemoveFails, Fault
<1>23. ASSUME NEW c \in Cleaners, CleanEnd(c)
      PROVE  EntriesStarted'
  BY <1>23 DEF CleanEnd
<1>24. ASSUME NEW p \in Pids, GoStale(p)
      PROVE  EntriesStarted'
  BY <1>24 DEF GoStale
<1>25. ASSUME NEW s \in Servers, Serving(s)
      PROVE  EntriesStarted'
  BY <1>25 DEF Serving, Enter
<1>26. ASSUME NEW s \in Servers, HandlersReturn(s)
      PROVE  EntriesStarted'
  BY <1>26 DEF HandlersReturn
<1>27. ASSUME NEW s \in Servers, CloseFails(s)
      PROVE  EntriesStarted'
  BY <1>27 DEF CloseFails, Fault, Enter
<1>28. CASE UNCHANGED mcpVars
  BY <1>28 DEF mcpVars
<1>. HIDE DEF McpTypeOK, Procs, Entry, Seen, Alive, server, cleaner, idle, parent, Gone, LivesWithPid,
              RecordsOpen, EntriesStarted
<1>. QED
  BY <1>1, <1>2, <1>3, <1>4, <1>5, <1>6, <1>7, <1>8, <1>9, <1>10, <1>11,
     <1>12, <1>13, <1>14, <1>15, <1>16, <1>17, <1>18, <1>19, <1>20, <1>21,
     <1>22, <1>23, <1>24, <1>25, <1>26, <1>27, <1>28 DEF McpNext, ServerStep, CleanerStep

LEMMA DoomedStep ==
    ASSUME McpTypeOK, LivesWithPid, EntriesStarted, DoomedFairly, [McpNext]_mcpVars
    PROVE  DoomedFairly'
<1>. USE InstancesAssumption
     DEF InstancesAssumption, McpTypeOK, Procs, Entry, Seen, Alive, server, cleaner, idle, parent, Gone,
         LivesWithPid, EntriesStarted, DoomedFairly
<1>1. ASSUME NEW s \in Servers, NEW p \in Pids, Start(s, p)
      PROVE  DoomedFairly'
  BY <1>1 DEF Start, Enter, Alive, Used
<1>2. ASSUME NEW s \in Servers, Register(s)
      PROVE  DoomedFairly'
  BY <1>2 DEF Register, Write, Enter
<1>3. ASSUME NEW s \in Servers, RegisterFails(s)
      PROVE  DoomedFairly'
  BY <1>3 DEF RegisterFails, Fault, Enter
<1>4. ASSUME NEW s \in Servers, Receive(s)
      PROVE  DoomedFairly'
  BY <1>4 DEF Receive
<1>5. ASSUME NEW s \in Servers, Touch(s)
      PROVE  DoomedFairly'
  BY <1>5 DEF Touch, Touched, Write
<1>6. ASSUME NEW s \in Servers, TouchFails(s)
      PROVE  DoomedFairly'
  BY <1>6 DEF TouchFails, Touched, Fault
<1>7. ASSUME NEW s \in Servers, Reset(s)
      PROVE  DoomedFairly'
  BY <1>7 DEF Reset
<1>8. ASSUME NEW s \in Servers, Expire(s)
      PROVE  DoomedFairly'
  BY <1>8 DEF Expire
<1>9. ASSUME NEW s \in Servers, Callback(s)
      PROVE  DoomedFairly'
  BY <1>9 DEF Callback
<1>10. ASSUME NEW s \in Servers, WatchParent(s)
      PROVE  DoomedFairly'
  BY <1>10 DEF WatchParent
<1>11. ASSUME NEW s \in Servers, Unwind(s)
      PROVE  DoomedFairly'
  BY <1>11 DEF Unwind, Enter
<1>12. ASSUME NEW s \in Servers, ClientLeaves(s)
      PROVE  DoomedFairly'
  BY <1>12 DEF ClientLeaves, Enter
<1>13. ASSUME NEW s \in Servers, Close(s)
      PROVE  DoomedFairly'
  BY <1>13 DEF Close, Enter, Remove
<1>14. ASSUME NEW s \in Servers, Exit(s)
      PROVE  DoomedFairly'
  BY <1>14 DEF Exit, Leave, Enter
<1>15. ASSUME NEW s \in Servers, ParentDies(s)
      PROVE  DoomedFairly'
  BY <1>15 DEF ParentDies
<1>16. ASSUME NEW s \in Servers, Kill(s)
      PROVE  DoomedFairly'
  BY <1>16 DEF Kill, Leave, Enter, Fault
<1>17. ASSUME NEW s \in Servers, SecondPasses(s)
      PROVE  DoomedFairly'
  BY <1>17 DEF SecondPasses
<1>18. ASSUME NEW c \in Cleaners, NEW p \in Pids, NEW f \in BOOLEAN, CleanStart(c, p, f)
      PROVE  DoomedFairly'
  BY <1>18 DEF CleanStart, Used
<1>19. ASSUME NEW c \in Cleaners, NEW p \in Pids, ReadEntry(c, p)
      PROVE  DoomedFairly'
  BY <1>19 DEF ReadEntry
<1>20. ASSUME NEW c \in Cleaners, NEW e \in seen[c], Judge(c, e)
      PROVE  DoomedFairly'
  <2>1. e.of \in Procs /\ e.pid \in Pids /\ e.pid # Nothing
    BY <1>20
  <2>2. Eligible(c, e) /\ ~force[c] => pid[e.of] # e.pid \/ e.of \in orphaned
    <3>1. pid[e.of] = e.pid => e.pid \in Used
      BY <2>1, UsedPids
    <3>. QED
      BY <3>1, Zenon DEF Eligible
  <2>3. doomed' = [doomed EXCEPT ![c] = doomed'[c]] /\ doomed'[c] \in {e, Nothing}
        /\ (doomed'[c] # Nothing => Eligible(c, e))
    BY <1>20 DEF Judge
  <2>. QED
    BY <1>20, <2>1, <2>2, <2>3 DEF Judge
<1>21. ASSUME NEW c \in Cleaners, RemoveEntry(c)
      PROVE  DoomedFairly'
  BY <1>21 DEF RemoveEntry, Remove
<1>22. ASSUME NEW c \in Cleaners, RemoveFails(c)
      PROVE  DoomedFairly'
  BY <1>22 DEF RemoveFails, Fault
<1>23. ASSUME NEW c \in Cleaners, CleanEnd(c)
      PROVE  DoomedFairly'
  BY <1>23 DEF CleanEnd
<1>24. ASSUME NEW p \in Pids, GoStale(p)
      PROVE  DoomedFairly'
  BY <1>24 DEF GoStale
<1>25. ASSUME NEW s \in Servers, Serving(s)
      PROVE  DoomedFairly'
  BY <1>25 DEF Serving, Enter
<1>26. ASSUME NEW s \in Servers, HandlersReturn(s)
      PROVE  DoomedFairly'
  BY <1>26 DEF HandlersReturn
<1>27. ASSUME NEW s \in Servers, CloseFails(s)
      PROVE  DoomedFairly'
  BY <1>27 DEF CloseFails, Fault, Enter
<1>28. CASE UNCHANGED mcpVars
  BY <1>28 DEF mcpVars
<1>. HIDE DEF McpTypeOK, Procs, Entry, Seen, Alive, server, cleaner, idle, parent, Gone, LivesWithPid,
              EntriesStarted, DoomedFairly
<1>. QED
  BY <1>1, <1>2, <1>3, <1>4, <1>5, <1>6, <1>7, <1>8, <1>9, <1>10, <1>11,
     <1>12, <1>13, <1>14, <1>15, <1>16, <1>17, <1>18, <1>19, <1>20, <1>21,
     <1>22, <1>23, <1>24, <1>25, <1>26, <1>27, <1>28 DEF McpNext, ServerStep, CleanerStep

\* Every process has its own PID; every record is that of a server with that
\* PID, if it lives, and is open or left by one that has closed or ended; and
\* what a cleaner is about to remove without force is dead or orphaned.
THEOREM McpInvariant == McpSpec => []McpInv
<1>1. McpInit => McpInv
  BY InstancesAssumption
     DEF InstancesAssumption, McpInit, McpInv, McpTypeOK, LivesWithPid, RecordsOpen,
         EntriesStarted, DoomedFairly, Procs, Alive
<1>2. McpInv /\ [McpNext]_mcpVars => McpInv'
  BY McpTypeStep, LivesStep, RecordsStep, EntriesStep, DoomedStep DEF McpInv
<1>. QED
  BY <1>1, <1>2, PTL DEF McpSpec

LEMMA WritesAreOpen ==
    ASSUME McpInv, [McpNext]_mcpVars
    PROVE  \A s \in Servers, p \in Pids :
              Gone(s) /\ file'[p] # Nothing /\ file'[p].of = s =>
                  /\ file[p] # Nothing /\ file[p].of = s
                  /\ file[p].stale => file'[p].stale
<1>. SUFFICES ASSUME NEW t \in Servers, NEW q \in Pids,
                     Gone(t), file'[q] # Nothing, file'[q].of = t
              PROVE  /\ file[q] # Nothing /\ file[q].of = t
                     /\ file[q].stale => file'[q].stale
  OBVIOUS
<1>0. file \in [Pids -> Entry \cup {Nothing}]
  BY DEF McpInv, McpTypeOK, Entry
<1>1. ASSUME NEW s \in Servers, Register(s) \/ Touch(s), file' # file
      PROVE  file'[q] = file[q]
  <2>1. file' = [file EXCEPT ![pid[s]] = [of |-> s, stale |-> FALSE]]
    BY <1>1 DEF Register, Touch, Write
  <2>2. phase[s] = "starting" \/ s \in open
    BY <1>1 DEF Register, Touch
  <2>3. s # t
    BY <2>2 DEF McpInv, LivesWithPid, Gone
  <2>. QED
    BY <1>0, <2>1, <2>3
<1>2. ASSUME NEW p \in Pids, GoStale(p)
      PROVE  /\ file[q] # Nothing /\ file[q].of = t
             /\ file[q].stale => file'[q].stale
  BY <1>0, <1>2 DEF GoStale, Entry
<1>3. ASSUME NEW p, Remove(p) PROVE file'[q] = file[q]
  BY <1>0, <1>3 DEF Remove
<1>4. file' = file \/ (\E p : Remove(p)) \/ (\E p \in Pids : GoStale(p))
          \/ \E s \in Servers : (Register(s) \/ Touch(s)) /\ file' # file
  <2>1. ASSUME NEW s \in Servers, ServerStep(s)
        PROVE  file' = file \/ (\E p : Remove(p)) \/ Register(s) \/ Touch(s)
    BY <2>1 DEF ServerStep, Start, RegisterFails, Serving, Receive, TouchFails, Reset,
                HandlersReturn, Expire, Callback, WatchParent, Unwind, ClientLeaves, Close,
                CloseFails, Exit, ParentDies, Kill, SecondPasses, Leave
  <2>2. ASSUME NEW c \in Cleaners, CleanerStep(c)
        PROVE  file' = file \/ \E p : Remove(p)
    BY <2>2 DEF CleanerStep, CleanStart, ReadEntry, Judge, RemoveEntry, RemoveFails, CleanEnd
  <2>. QED
    BY <2>1, <2>2 DEF McpNext, mcpVars
<1>. QED
  BY <1>1, <1>2, <1>3, <1>4

\* The registry (lifecycle.go) holds records of servers that have had their
\* PID; a server that has closed or ended neither writes nor renews its own,
\* whether or not the file could be removed.
THEOREM RegistryIsSound == McpSpec => RegistrySound
<1>1. McpInv => McpTypeOK
  BY DEF McpInv
<1>2. McpInv /\ [McpNext]_mcpVars =>
          [\A s \in Servers, p \in Pids :
              Gone(s) /\ file'[p] # Nothing /\ file'[p].of = s =>
                  /\ file[p] # Nothing /\ file[p].of = s
                  /\ file[p].stale => file'[p].stale]_mcpVars
  BY WritesAreOpen
<1>. QED
  BY <1>1, <1>2, McpInvariant, PTL DEF McpSpec, RegistrySound, ClosedStaysGone

\* Clean without force (lifecycle.go) does not remove the record of a live
\* server with a live parent, unless the PID changes hands under it.
THEOREM CleanSpares == McpSpec => CleanSparesLive
<1>1. McpInv =>
          \A c \in Cleaners :
              LET e == doomed[c]
              IN  RemoveEntry(c) /\ ~force[c] /\ file[e.pid] # Nothing =>
                      LET s == file[e.pid].of
                      IN  ~Alive(s) \/ s \in orphaned \/ s # e.of
  <2>. SUFFICES ASSUME McpInv, NEW c \in Cleaners, doomed[c] # Nothing,
                       ~force[c], file[doomed[c].pid] # Nothing
                PROVE  LET e == doomed[c]
                           s == file[e.pid].of
                       IN  ~Alive(s) \/ s \in orphaned \/ s # e.of
    BY DEF RemoveEntry
  <2>. DEFINE e == doomed[c]
  <2>1. e.pid \in Pids /\ (pid[e.of] # e.pid \/ e.of \in orphaned)
    BY DEF McpInv, McpTypeOK, Seen, DoomedFairly
  <2>2. Alive(file[e.pid].of) => pid[file[e.pid].of] = e.pid
    BY <2>1 DEF McpInv, McpTypeOK
  <2>. QED
    BY <2>1, <2>2
<1>. QED
  BY <1>1, McpInvariant, PTL DEF CleanSparesLive

----------------------------------------------------------------------------
(* The HAR transport.                                                      *)

Tabled(r) == \E k \in Keys : pending[k] = r
Held(r) == \E c \in Calls : stage[c] = "found" /\ rec[c] = r

\* The table is keyed by the IDs of calls that wait for their responses.
TableKeyed ==
    /\ \A c \in Calls : stage[c] \notin {"idle", "received", "ended"} => Id[c] # NoCall
    /\ \A k \in Keys :
          pending[k] # NoCall => Waiting(pending[k]) /\ IdString(pending[k]) = k

\* A record leaves the table in one pair of hands.
HeldOnce ==
    \A c \in Calls : stage[c] = "found" /\ rec[c] # NoCall =>
        /\ ~Tabled(rec[c])
        /\ \A d \in Calls : stage[d] = "found" /\ rec[d] = rec[c] => d = c
        /\ stage[rec[c]] \notin {"idle", "received", "written"}

\* A call is owed an answer until one is appended to its record: the record
\* holds no more than the request, and all of it unless it was pruned.
Owed(c) == stage[c] = "written" \/ Tabled(c) \/ Held(c)
Unanswered(f) == Len(text[f]) <= 1 /\ \A i \in DOMAIN text[f] : text[f][i] = "request"
Unrecorded(c) == stage[c] \in {"idle", "received"}
AnswerOnce(c) ==
    /\ Unrecorded(c) => text[Record(c)] = <<>>
    /\ Owed(c) => Unanswered(Record(c))
    /\ Owed(c) /\ c \notin pruned => text[Record(c)] = <<"request">>
    /\ stage[c] # "ended" => text[Orphan(c)] = <<>>
AnswersOnce == \A c \in Calls : AnswerOnce(c)

\* A call that waits is in the table under its key unless Close or a call with
\* the same key has come.
Clashes ==
    \A c, d \in Calls :
        c # d /\ Waiting(c) /\ Waiting(d) /\ Id[c].val = Id[d].val => c \in clashed
Findable ==
    \A c \in Calls :
        /\ Waiting(c) /\ ~closed /\ c \notin clashed => pending[IdString(c)] = c
        /\ stage[c] = "found" =>
               IF rec[c] = NoCall THEN c \in clashed \/ closed
               ELSE rec[c] = c \/ {c, rec[c]} \subseteq clashed

HarInv ==
    /\ HarTypeOK /\ TableKeyed /\ HeldOnce /\ AnswersOnce /\ OneAnswer
    /\ Clashes /\ Findable /\ AnswersFiled /\ Flushed

LEMMA KeyOfCall == \A c \in Calls : Id[c] # NoCall => IdString(c) \in Keys
BY DEF Keys, IdString

LEMMA AppendToSeq ==
    ASSUME NEW S, NEW s \in Seq(S), NEW b \in S
    PROVE  Append(s, b) \in Seq(S)
OBVIOUS

LEMMA AppendTyped ==
    ASSUME HarTypeOK, NEW f \in Files, NEW b \in Calls \cup {"request", "closed"},
           AppendBlock(f, b)
    PROVE  /\ text' \in [Files -> Seq(Calls \cup {"request", "closed"})]
           /\ later' \in [Files -> SUBSET Files]
<1>1. Append(text[f], b) \in Seq(Calls \cup {"request", "closed"})
  BY AppendToSeq DEF HarTypeOK
<1>. QED
  BY <1>1 DEF HarTypeOK, AppendBlock

LEMMA HarTypeStep ==
    ASSUME HarTypeOK, TableKeyed, HeldOnce, [HarNext]_harVars
    PROVE  HarTypeOK'
<1>. USE HarAssumption
     DEF HarAssumption, HarTypeOK, Stages, Keys, Files, Record, Orphan, IdString, table,
         archive, history, TableKeyed
<1>1. ASSUME NEW c \in Calls, StartRecord(c)
      PROVE  HarTypeOK'
  <2>1. Record(c) \in Files
    OBVIOUS
  <2>2. /\ text' \in [Files -> Seq(Calls \cup {"request", "closed"})]
        /\ later' \in [Files -> SUBSET Files]
    BY <1>1, <2>1, AppendTyped DEF StartRecord
  <2>. QED
    BY <1>1, <2>2 DEF StartRecord, MayCall, Advance
<1>2. ASSUME NEW c \in Calls, Pend(c)
      PROVE  HarTypeOK'
  BY <1>2 DEF Pend, Advance
<1>3. ASSUME NEW c \in Calls, Panic(c)
      PROVE  HarTypeOK'
  BY <1>3 DEF Panic
<1>4. ASSUME NEW c \in Calls, Send(c)
      PROVE  HarTypeOK'
  BY <1>4 DEF Send, Advance
<1>5. ASSUME NEW c \in Calls, ReadResponse(c)
      PROVE  HarTypeOK'
  BY <1>5 DEF ReadResponse, Advance
<1>6. ASSUME NEW c \in Calls, LookUp(c)
      PROVE  HarTypeOK'
  BY <1>6 DEF LookUp, Advance
<1>7. ASSUME NEW c \in Calls, WriteResponse(c)
      PROVE  HarTypeOK'
  <2>. DEFINE f == IF rec[c] = NoCall THEN Orphan(c) ELSE Record(rec[c])
  <2>1. f \in Files
    BY Zenon
  <2>2. /\ text' \in [Files -> Seq(Calls \cup {"request", "closed"})]
        /\ later' \in [Files -> SUBSET Files]
    BY <1>7, <2>1, AppendTyped DEF WriteResponse
  <2>. QED
    BY <1>7, <2>2 DEF WriteResponse, Advance
<1>8. ASSUME CloseConn
      PROVE  HarTypeOK'
  <2>1. PICK rank \in Ranks(Pending) : Flush(rank)
    BY <1>8 DEF CloseConn
  <2>2. DOMAIN rank \subseteq Files
    BY DEF Ranks, Pending
  <2>3. text' \in [Files -> Seq(Calls \cup {"request", "closed"})]
    <3>1. ASSUME NEW f \in Files
          PROVE  Append(text[f], "closed") \in Seq(Calls \cup {"request", "closed"})
      BY AppendToSeq
    <3>. QED
      BY <2>1, <3>1 DEF Flush
  <2>4. later' \in [Files -> SUBSET Files]
    <3>1. \A f \in Files : {g \in DOMAIN rank : rank[g] > rank[f]} \subseteq Files
      BY <2>2
    <3>2. \A f \in Files : later[f] \cup DOMAIN rank \subseteq Files
      BY <2>2
    <3>. QED
      BY <2>1, <3>1, <3>2 DEF Flush
  <2>. QED
    BY <1>8, <2>3, <2>4 DEF CloseConn
<1>9. ASSUME PruneOldest
      PROVE  HarTypeOK'
  <2>. DEFINE gone == {f \in Files : text[f] # <<>> /\ Cardinality(later[f]) >= MaxFiles}
  <2>. HIDE DEF gone
  <2>1. /\ text' = [f \in Files |-> IF f \in gone THEN <<>> ELSE text[f]]
        /\ later' = [f \in Files |-> IF f \in gone THEN {} ELSE later[f]]
        /\ prunes < MaxPrunes /\ prunes' = prunes + 1
        /\ UNCHANGED <<stage, table, reader, panicked, clashed>>
    BY <1>9 DEF PruneOldest, gone
  <2>2. text' \in [Files -> Seq(Calls \cup {"request", "closed"})]
    <3>1. <<>> \in Seq(Calls \cup {"request", "closed"})
      OBVIOUS
    <3>. QED
      BY <2>1, <3>1
  <2>3. later' \in [Files -> SUBSET Files]
    BY <2>1
  <2>. QED
    BY <2>1, <2>2, <2>3
<1>10. ASSUME NEW c \in Calls, ReadMessage(c)
      PROVE  HarTypeOK'
  BY <1>10 DEF ReadMessage, MayCall, Advance
<1>11. CASE UNCHANGED harVars
  BY <1>11 DEF harVars
<1>. HIDE DEF HarTypeOK, Stages, Keys, Files, Record, Orphan, IdString, table, archive,
              history, TableKeyed
<1>. QED
  BY <1>1, <1>2, <1>3, <1>4, <1>5, <1>6, <1>7, <1>8, <1>9, <1>10, <1>11 DEF HarNext

LEMMA KeyedStep ==
    ASSUME HarTypeOK, TableKeyed, [HarNext]_harVars
    PROVE  TableKeyed'
<1>. USE HarAssumption
     DEF HarAssumption, HarTypeOK, Stages, Keys, IdString, Waiting, table, archive,
         history, TableKeyed
<1>1. ASSUME NEW c \in Calls, StartRecord(c)
      PROVE  TableKeyed'
  BY <1>1 DEF StartRecord, MayCall, AppendBlock, Advance
<1>2. ASSUME NEW c \in Calls, Pend(c)
      PROVE  TableKeyed'
  BY <1>2 DEF Pend, Advance
<1>3. ASSUME NEW c \in Calls, Panic(c)
      PROVE  TableKeyed'
  BY <1>3 DEF Panic
<1>4. ASSUME NEW c \in Calls, Send(c)
      PROVE  TableKeyed'
  BY <1>4 DEF Send, Advance
<1>5. ASSUME NEW c \in Calls, ReadResponse(c)
      PROVE  TableKeyed'
  BY <1>5 DEF ReadResponse, Advance
<1>6. ASSUME NEW c \in Calls, LookUp(c)
      PROVE  TableKeyed'
  BY <1>6 DEF LookUp, Advance
<1>7. ASSUME NEW c \in Calls, WriteResponse(c)
      PROVE  TableKeyed'
  BY <1>7 DEF WriteResponse, AppendBlock, Advance
<1>8. ASSUME CloseConn
      PROVE  TableKeyed'
  BY <1>8 DEF CloseConn, Flush
<1>9. ASSUME PruneOldest
      PROVE  TableKeyed'
  BY <1>9 DEF PruneOldest
<1>10. ASSUME NEW c \in Calls, ReadMessage(c)
      PROVE  TableKeyed'
  BY <1>10 DEF ReadMessage, MayCall, Advance
<1>11. CASE UNCHANGED harVars
  BY <1>11 DEF harVars
<1>. HIDE DEF HarTypeOK, Stages, Keys, IdString, Waiting, table, archive, history,
              TableKeyed
<1>. QED
  BY <1>1, <1>2, <1>3, <1>4, <1>5, <1>6, <1>7, <1>8, <1>9, <1>10, <1>11 DEF HarNext

LEMMA HeldStep ==
    ASSUME HarTypeOK, TableKeyed, HeldOnce, [HarNext]_harVars
    PROVE  HeldOnce'
<1>0. /\ stage \in [Calls -> Stages]
      /\ rec \in [Calls -> Calls \cup {NoCall}]
      /\ pending \in [Keys -> Calls \cup {NoCall}]
  BY DEF HarTypeOK
<1>. USE HarAssumption, KeyOfCall, <1>0
     DEF HarAssumption, Stages, Waiting, table, archive, history, TableKeyed, HeldOnce,
         Tabled
<1>1. ASSUME NEW c \in Calls, StartRecord(c)
      PROVE  HeldOnce'
  BY <1>1 DEF StartRecord, MayCall, AppendBlock, Advance
<1>2. ASSUME NEW c \in Calls, Pend(c)
      PROVE  HeldOnce'
  <2>1. \A r \in Calls : r # c => (Tabled(r)' => Tabled(r))
    BY <1>2 DEF Pend
  <2>. QED
    BY <1>2, <2>1 DEF Pend, Advance
<1>3. ASSUME NEW c \in Calls, Panic(c)
      PROVE  HeldOnce'
  BY <1>3 DEF Panic
<1>4. ASSUME NEW c \in Calls, Send(c)
      PROVE  HeldOnce'
  BY <1>4 DEF Send, Advance
<1>5. ASSUME NEW c \in Calls, ReadResponse(c)
      PROVE  HeldOnce'
  BY <1>5 DEF ReadResponse, Advance
<1>6. ASSUME NEW c \in Calls, LookUp(c)
      PROVE  HeldOnce'
  <2>1. Id[c] # NoCall /\ IdString(c) \in Keys
    BY <1>6 DEF LookUp
  <2>2. /\ rec' = [rec EXCEPT ![c] = pending[IdString(c)]]
        /\ stage' = [stage EXCEPT ![c] = "found"]
        /\ \A r \in Calls : Tabled(r)' => Tabled(r)
        /\ \A k \in Keys \ {IdString(c)} : pending'[k] = pending[k]
        /\ pending'[IdString(c)] = NoCall
    BY <1>6, <2>1 DEF LookUp, Advance
  <2>. DEFINE r == pending[IdString(c)]
  <2>3. rec'[c] = r /\ (r # NoCall => r \in Calls /\ Waiting(r) /\ IdString(r) = IdString(c))
    BY <2>1, <2>2
  <2>4. r # NoCall => Tabled(r)
    BY <2>1
  <2>5. r # NoCall => \A k \in Keys : pending'[k] # r
    BY <2>1, <2>2, <2>3
  <2>. QED
    BY <2>1, <2>2, <2>3, <2>4, <2>5
<1>7. ASSUME NEW c \in Calls, WriteResponse(c)
      PROVE  HeldOnce'
  <2>1. /\ stage' = [stage EXCEPT ![c] = "ended"]
        /\ UNCHANGED <<rec, pending>>
    BY <1>7 DEF WriteResponse, Advance
  <2>. QED
    BY <2>1
<1>8. ASSUME CloseConn
      PROVE  HeldOnce'
  <2>1. UNCHANGED <<stage, rec>> /\ \A r \in Calls : Tabled(r)' => Tabled(r)
    BY <1>8 DEF CloseConn
  <2>. QED
    BY <2>1
<1>9. ASSUME PruneOldest
      PROVE  HeldOnce'
  <2>1. UNCHANGED <<stage, rec>> /\ \A r \in Calls : Tabled(r)' => Tabled(r)
    BY <1>9 DEF PruneOldest
  <2>. QED
    BY <2>1
<1>10. ASSUME NEW c \in Calls, ReadMessage(c)
      PROVE  HeldOnce'
  BY <1>10 DEF ReadMessage, MayCall, Advance
<1>11. CASE UNCHANGED harVars
  BY <1>11 DEF harVars
<1>. HIDE DEF Stages, Waiting, table, archive, history, TableKeyed, HeldOnce, Tabled
<1>. QED
  BY <1>1, <1>2, <1>3, <1>4, <1>5, <1>6, <1>7, <1>8, <1>9, <1>10, <1>11 DEF HarNext

LEMMA ClashesStep ==
    ASSUME HarTypeOK, Clashes, [HarNext]_harVars
    PROVE  Clashes'
<1>. USE HarAssumption
     DEF HarAssumption, HarTypeOK, Stages, Waiting, table, archive, history, Clashes,
         Twins
<1>1. ASSUME NEW c \in Calls, StartRecord(c)
      PROVE  Clashes'
  BY <1>1 DEF StartRecord, MayCall, AppendBlock, Advance
<1>2. ASSUME NEW c \in Calls, Pend(c)
      PROVE  Clashes'
  BY <1>2 DEF Pend, Advance
<1>3. ASSUME NEW c \in Calls, Panic(c)
      PROVE  Clashes'
  BY <1>3 DEF Panic
<1>4. ASSUME NEW c \in Calls, Send(c)
      PROVE  Clashes'
  BY <1>4 DEF Send, Advance
<1>5. ASSUME NEW c \in Calls, ReadResponse(c)
      PROVE  Clashes'
  BY <1>5 DEF ReadResponse, Advance
<1>6. ASSUME NEW c \in Calls, LookUp(c)
      PROVE  Clashes'
  BY <1>6 DEF LookUp, Advance
<1>7. ASSUME NEW c \in Calls, WriteResponse(c)
      PROVE  Clashes'
  BY <1>7 DEF WriteResponse, AppendBlock, Advance
<1>8. ASSUME CloseConn
      PROVE  Clashes'
  BY <1>8 DEF CloseConn, Flush
<1>9. ASSUME PruneOldest
      PROVE  Clashes'
  BY <1>9 DEF PruneOldest
<1>10. ASSUME NEW c \in Calls, ReadMessage(c)
      PROVE  Clashes'
  BY <1>10 DEF ReadMessage, MayCall, Advance
<1>11. CASE UNCHANGED harVars
  BY <1>11 DEF harVars
<1>. HIDE DEF HarTypeOK, Stages, Waiting, table, archive, history, Clashes, Twins
<1>. QED
  BY <1>1, <1>2, <1>3, <1>4, <1>5, <1>6, <1>7, <1>8, <1>9, <1>10, <1>11 DEF HarNext

LEMMA FindableStep ==
    ASSUME HarTypeOK, TableKeyed, Clashes, Findable, [HarNext]_harVars
    PROVE  Findable'
<1>. USE HarAssumption
     DEF HarAssumption, HarTypeOK, Stages, Keys, IdString, Waiting, table, archive,
         history, TableKeyed, Clashes, Findable, Twins
<1>1. ASSUME NEW c \in Calls, StartRecord(c)
      PROVE  Findable'
  BY <1>1 DEF StartRecord, MayCall, AppendBlock, Advance
<1>2. ASSUME NEW c \in Calls, Pend(c)
      PROVE  Findable'
  BY <1>2 DEF Pend, Advance
<1>3. ASSUME NEW c \in Calls, Panic(c)
      PROVE  Findable'
  BY <1>3 DEF Panic
<1>4. ASSUME NEW c \in Calls, Send(c)
      PROVE  Findable'
  BY <1>4 DEF Send, Advance
<1>5. ASSUME NEW c \in Calls, ReadResponse(c)
      PROVE  Findable'
  BY <1>5 DEF ReadResponse, Advance
<1>6. ASSUME NEW c \in Calls, LookUp(c)
      PROVE  Findable'
  <2>1. Id[c] # NoCall /\ IdString(c) \in Keys
    BY <1>6 DEF LookUp
  <2>2. Waiting(c) /\ (pending[IdString(c)] # NoCall => Waiting(pending[IdString(c)])
                          /\ Id[pending[IdString(c)]].val = Id[c].val)
    BY <1>6, <2>1 DEF LookUp
  <2>. QED
    BY <1>6, <2>1, <2>2 DEF LookUp, Advance
<1>7. ASSUME NEW c \in Calls, WriteResponse(c)
      PROVE  Findable'
  BY <1>7 DEF WriteResponse, AppendBlock, Advance
<1>8. ASSUME CloseConn
      PROVE  Findable'
  BY <1>8 DEF CloseConn, Flush
<1>9. ASSUME PruneOldest
      PROVE  Findable'
  BY <1>9 DEF PruneOldest
<1>10. ASSUME NEW c \in Calls, ReadMessage(c)
      PROVE  Findable'
  BY <1>10 DEF ReadMessage, MayCall, Advance
<1>11. CASE UNCHANGED harVars
  BY <1>11 DEF harVars
<1>. HIDE DEF HarTypeOK, Stages, Keys, IdString, Waiting, table, archive, history,
              TableKeyed, Clashes, Findable, Twins
<1>. QED
  BY <1>1, <1>2, <1>3, <1>4, <1>5, <1>6, <1>7, <1>8, <1>9, <1>10, <1>11 DEF HarNext

LEMMA FilesApart ==
    /\ \A c \in Calls : Record(c) \in Files /\ Orphan(c) \in Files
    /\ \A c, d \in Calls : Record(c) # Orphan(d)
    /\ \A c, d \in Calls : Record(c) = Record(d) \/ Orphan(c) = Orphan(d) => c = d
BY DEF Files, Record, Orphan

LEMMA FirstBlock == \A b : Append(<<>>, b) = <<b>>
OBVIOUS

LEMMA SecondBlockIn ==
    ASSUME NEW S, NEW a \in S, NEW b \in S
    PROVE  Append(<<a>>, b) = <<a, b>>
<1>1. ASSUME NEW s \in Seq(S), Len(s) = 2, s[1] = a, s[2] = b
      PROVE  s = <<a, b>>
  BY <1>1
<1>2. /\ Append(<<a>>, b) \in Seq(S) /\ Len(Append(<<a>>, b)) = 2
      /\ Append(<<a>>, b)[1] = a /\ Append(<<a>>, b)[2] = b
  OBVIOUS
<1>. QED
  BY <1>1, <1>2

LEMMA SecondBlock == \A a, b : Append(<<a>>, b) = <<a, b>>
<1>. SUFFICES ASSUME NEW a, NEW b PROVE Append(<<a>>, b) = <<a, b>>
  OBVIOUS
<1>1. a \in {a, b} /\ b \in {a, b}
  OBVIOUS
<1>. QED
  BY <1>1, SecondBlockIn, Zenon

LEMMA OwedKept ==
    ASSUME NEW c \in Calls, AnswerOnce(c),
           text'[Record(c)] = text[Record(c)], text'[Orphan(c)] = text[Orphan(c)],
           c \in pruned => c \in pruned', Owed(c)' => Owed(c),
           Unrecorded(c)' => Unrecorded(c), stage[c] = "ended" => stage'[c] = "ended"
    PROVE  AnswerOnce(c)'
BY DEF AnswerOnce, Unanswered, Record, Orphan

LEMMA AnswersOnceStep ==
    ASSUME HarTypeOK, TableKeyed, HeldOnce, AnswersOnce, [HarNext]_harVars
    PROVE  AnswersOnce'
<1>0. /\ stage \in [Calls -> Stages] /\ rec \in [Calls -> Calls \cup {NoCall}]
      /\ pending \in [Keys -> Calls \cup {NoCall}] /\ DOMAIN text = Files
  BY DEF HarTypeOK
<1>. USE HarAssumption, KeyOfCall, FilesApart, <1>0
     DEF HarAssumption, Stages, Waiting, Unrecorded, table, archive, history, AnswersOnce
<1>1. ASSUME NEW c \in Calls, StartRecord(c)
      PROVE  AnswersOnce'
  <2>1. /\ text[Record(c)] = <<>> /\ Unrecorded(c)
        /\ text' = [text EXCEPT ![Record(c)] = Append(@, "request")]
        /\ stage' = [stage EXCEPT ![c] = stage'[c]] /\ stage'[c] \in {"written", "ended"}
        /\ UNCHANGED <<rec, pending, pruned>>
    BY <1>1 DEF StartRecord, MayCall, AppendBlock, Advance, AnswerOnce
  <2>2. text'[Record(c)] = <<"request">> /\ text'[Orphan(c)] = text[Orphan(c)]
    BY <2>1, FirstBlock
  <2>3. AnswerOnce(c)'
    BY <2>1, <2>2 DEF AnswerOnce, Unanswered, Record, Orphan
  <2>4. \A r \in Calls \ {c} : AnswerOnce(r)'
    BY <2>1, OwedKept DEF Owed, Tabled, Held
  <2>. QED
    BY <2>3, <2>4
<1>2. ASSUME NEW c \in Calls, Pend(c)
      PROVE  AnswersOnce'
  <2>1. /\ UNCHANGED <<text, pruned>> /\ stage' = [stage EXCEPT ![c] = stage'[c]]
        /\ stage[c] # "ended" /\ ~Unrecorded(c) /\ ~Unrecorded(c)'
    BY <1>2 DEF Pend, Advance
  <2>2. \A r \in Calls : Owed(r)' => Owed(r)
    BY <1>2 DEF Pend, Advance, Owed, Tabled, Held
  <2>. QED
    BY <2>1, <2>2, OwedKept
<1>3. ASSUME NEW c \in Calls, Panic(c)
      PROVE  AnswersOnce'
  BY <1>3 DEF Panic, AnswerOnce, Owed, Tabled, Held, Unanswered, Record, Orphan
<1>4. ASSUME NEW c \in Calls, Send(c)
      PROVE  AnswersOnce'
  <2>1. /\ UNCHANGED <<text, pruned>> /\ stage' = [stage EXCEPT ![c] = stage'[c]]
        /\ stage[c] # "ended" /\ ~Unrecorded(c) /\ ~Unrecorded(c)'
    BY <1>4 DEF Send, Advance
  <2>2. \A r \in Calls : Owed(r)' => Owed(r)
    BY <1>4 DEF Send, Advance, Owed, Tabled, Held
  <2>. QED
    BY <2>1, <2>2, OwedKept
<1>5. ASSUME NEW c \in Calls, ReadResponse(c)
      PROVE  AnswersOnce'
  <2>1. /\ UNCHANGED <<text, pruned>> /\ stage' = [stage EXCEPT ![c] = stage'[c]]
        /\ stage[c] # "ended" /\ ~Unrecorded(c) /\ ~Unrecorded(c)'
    BY <1>5 DEF ReadResponse, Advance
  <2>2. \A r \in Calls : Owed(r)' => Owed(r)
    BY <1>5 DEF ReadResponse, Advance, Owed, Tabled, Held
  <2>. QED
    BY <2>1, <2>2, OwedKept
<1>6. ASSUME NEW c \in Calls, LookUp(c)
      PROVE  AnswersOnce'
  <2>1. Id[c] # NoCall /\ IdString(c) \in Keys
    BY <1>6 DEF LookUp, TableKeyed
  <2>2. /\ UNCHANGED <<text, pruned>> /\ stage' = [stage EXCEPT ![c] = "found"]
        /\ stage[c] # "ended" /\ ~Unrecorded(c)
        /\ rec' = [rec EXCEPT ![c] = pending[IdString(c)]]
        /\ \A k \in Keys : pending'[k] \in {pending[k], NoCall}
    BY <1>6, <2>1 DEF LookUp, Advance
  <2>3. ASSUME NEW r \in Calls, Owed(r)'
        PROVE  Owed(r)
    BY <2>1, <2>2, <2>3 DEF Owed, Tabled, Held
  <2>. QED
    BY <2>2, <2>3, OwedKept
<1>7. ASSUME NEW c \in Calls, WriteResponse(c)
      PROVE  AnswersOnce'
  <2>1. /\ stage' = [stage EXCEPT ![c] = "ended"] /\ stage[c] = "found"
        /\ UNCHANGED <<rec, pending, pruned>>
    BY <1>7 DEF WriteResponse, Advance
  <2>2. \A r \in Calls : (Owed(r)' => Owed(r)) /\ (r = rec[c] => ~Owed(r)')
    BY <2>1 DEF Owed, Tabled, Held, HeldOnce
  <2>. DEFINE f == IF rec[c] = NoCall THEN Orphan(c) ELSE Record(rec[c])
  <2>3. f \in Files /\ text' = [text EXCEPT ![f] = Append(@, c)]
    BY <1>7 DEF WriteResponse, AppendBlock
  <2>4. \A r \in Calls : r # c => AnswerOnce(r)'
    <3>1. ASSUME NEW r \in Calls, r # c, r # rec[c]
          PROVE  AnswerOnce(r)'
      <4>1. Record(r) # f /\ Orphan(r) # f
        BY <3>1
      <4>. QED
        BY <2>1, <2>2, <2>3, <3>1, <4>1, OwedKept
    <3>2. ASSUME NEW r \in Calls, r = rec[c], r # c
          PROVE  AnswerOnce(r)'
      <4>1. text'[Orphan(r)] = text[Orphan(r)] /\ ~Unrecorded(r)' /\ stage'[r] = stage[r]
        BY <2>1, <2>3, <3>2 DEF HeldOnce
      <4>. QED
        BY <2>2, <3>2, <4>1 DEF AnswerOnce, Orphan
    <3>. QED
      BY <3>1, <3>2
  <2>5. AnswerOnce(c)'
    <3>1. stage'[c] = "ended"
      BY <2>1
    <3>2. ~Owed(c)' \/ text'[Record(c)] = text[Record(c)]
      BY <2>2, <2>3
    <3>. QED
      BY <2>1, <2>2, <3>1, <3>2 DEF AnswerOnce, Unanswered, Record
  <2>. QED
    BY <2>4, <2>5
<1>8. ASSUME CloseConn
      PROVE  AnswersOnce'
  <2>1. PICK rank \in Ranks(Pending) : Flush(rank)
    BY <1>8 DEF CloseConn
  <2>2. DOMAIN rank = Pending
    BY DEF Ranks
  <2>3. /\ pending' = [k \in Keys |-> NoCall]
        /\ UNCHANGED <<stage, rec, pruned>>
    BY <1>8 DEF CloseConn
  <2>4. ASSUME NEW c \in Calls
        PROVE  AnswerOnce(c)'
    <3>1. /\ Orphan(c) \notin Pending
          /\ Record(c) \in Pending <=> Tabled(c)
      BY DEF Pending, Tabled
    <3>2. Tabled(c) => ~Owed(c)' /\ ~Unrecorded(c)
      BY <2>3 DEF Tabled, Owed, Held, HeldOnce, TableKeyed
    <3>3. Owed(c)' => Owed(c)
      BY <2>3 DEF Tabled, Owed, Held
    <3>4. /\ text'[Orphan(c)] = text[Orphan(c)]
          /\ ~Tabled(c) => text'[Record(c)] = text[Record(c)]
      BY <2>1, <2>2, <3>1 DEF Flush
    <3>5. CASE Tabled(c)
      BY <2>3, <3>2, <3>4, <3>5 DEF AnswerOnce, Orphan
    <3>6. CASE ~Tabled(c)
      BY <2>3, <3>3, <3>4, <3>6, OwedKept
    <3>. QED
      BY <3>5, <3>6
  <2>. QED
    BY <2>4
<1>9. ASSUME PruneOldest
      PROVE  AnswersOnce'
  <2>1. UNCHANGED <<stage, rec, pending>> /\ pruned \subseteq pruned'
    BY <1>9 DEF PruneOldest
  <2>2. /\ \A f \in Files : text'[f] \in {<<>>, text[f]}
        /\ \A c \in Calls : text'[Record(c)] = text[Record(c)] \/ c \in pruned'
    BY <1>9 DEF PruneOldest
  <2>3. ASSUME NEW c \in Calls
        PROVE  AnswerOnce(c)'
    <3>1. Owed(c)' <=> Owed(c)
      BY <2>1 DEF Owed, Tabled, Held
    <3>. QED
      BY <2>1, <2>2, <3>1 DEF AnswerOnce, Unanswered, Record, Orphan
  <2>. QED
    BY <2>3
<1>10. ASSUME NEW c \in Calls, ReadMessage(c)
      PROVE  AnswersOnce'
  <2>1. /\ UNCHANGED <<text, rec, pending, pruned>> /\ stage' = [stage EXCEPT ![c] = "received"]
        /\ stage[c] = "idle"
    BY <1>10 DEF ReadMessage, MayCall, Advance
  <2>2. \A r \in Calls : Owed(r)' => Owed(r)
    BY <2>1 DEF Owed, Tabled, Held
  <2>. QED
    BY <2>1, <2>2, OwedKept
<1>11. CASE UNCHANGED harVars
  BY <1>11 DEF harVars, AnswerOnce, Owed, Tabled, Held, Unanswered, Record, Orphan
<1>. HIDE DEF Stages, Waiting, Unrecorded, table, archive, history, AnswersOnce
<1>. QED
  BY <1>1, <1>2, <1>3, <1>4, <1>5, <1>6, <1>7, <1>8, <1>9, <1>10, <1>11 DEF HarNext

\* Of two blocks that are not requests, one is enough.
LEMMA AppendToUnanswered ==
    ASSUME NEW S, NEW s \in Seq(S), NEW b \in S, b # "request",
           Len(s) <= 1, \A i \in DOMAIN s : s[i] = "request",
           NEW i \in DOMAIN Append(s, b), NEW j \in DOMAIN Append(s, b)
    PROVE  /\ Append(s, b)[i] # "request" /\ Append(s, b)[j] # "request" => i = j
           /\ Append(s, b)[i] = "request" => i = 1 /\ s # <<>>
<1>1. /\ DOMAIN s = 1..Len(s) /\ Len(s) \in Nat
      /\ DOMAIN Append(s, b) = 1..(Len(s) + 1)
      /\ Append(s, b)[Len(s) + 1] = b
      /\ \A k \in 1..Len(s) : Append(s, b)[k] = s[k]
  OBVIOUS
<1>2. s = <<>> => Len(s) = 0
  OBVIOUS
<1>. QED
  BY <1>1, <1>2

\* What a step appends or empties.
FileOneAnswer(f) ==
    \A i, j \in DOMAIN text[f] :
        /\ text[f][i] # "request" /\ text[f][j] # "request" => i = j
        /\ text[f][i] = "request" => i = 1 /\ f.kind = "record"

LEMMA AnswerAppended ==
    ASSUME HarTypeOK, NEW f \in Files, NEW b \in Calls \cup {"closed"},
           Unanswered(f), f.kind = "record" \/ text[f] = <<>>,
           text'[f] = Append(text[f], b)
    PROVE  FileOneAnswer(f)'
<1>1. text[f] \in Seq(Calls \cup {"request", "closed"}) /\ b # "request"
  BY HarAssumption DEF HarTypeOK, HarAssumption
<1>. QED
  BY <1>1, AppendToUnanswered DEF Unanswered, FileOneAnswer

LEMMA EmptyUnanswered ==
    ASSUME NEW f, text[f] = <<>>
    PROVE  Unanswered(f)
BY DEF Unanswered

LEMMA OneAnswerStep ==
    ASSUME HarTypeOK, TableKeyed, HeldOnce, AnswersOnce, OneAnswer, [HarNext]_harVars
    PROVE  OneAnswer'
<1>0. \A f \in Files : FileOneAnswer(f)
  BY DEF OneAnswer, FileOneAnswer
<1>. SUFFICES ASSUME NEW f \in Files PROVE FileOneAnswer(f)'
  BY DEF OneAnswer, FileOneAnswer
<1>1. CASE text'[f] \in {<<>>, text[f]}
  BY <1>0, <1>1 DEF FileOneAnswer
<1>2. ASSUME NEW c \in Calls, StartRecord(c)
      PROVE  FileOneAnswer(f)'
  <2>1. CASE f = Record(c)
    <3>1. text'[f] = Append(<<>>, "request")
      BY <1>2, <2>1 DEF StartRecord, MayCall, AppendBlock, AnswersOnce, AnswerOnce, Unrecorded, HarTypeOK
    <3>. QED
      BY <2>1, <3>1, FirstBlock DEF FileOneAnswer, Record
  <2>2. CASE f # Record(c)
    BY <1>1, <1>2, <2>2 DEF StartRecord, AppendBlock, HarTypeOK
  <2>. QED
    BY <2>1, <2>2
<1>3. ASSUME NEW c \in Calls, WriteResponse(c)
      PROVE  FileOneAnswer(f)'
  <2>. DEFINE g == IF rec[c] = NoCall THEN Orphan(c) ELSE Record(rec[c])
  <2>1. g \in Files /\ text' = [text EXCEPT ![g] = Append(@, c)]
    BY <1>3 DEF WriteResponse, AppendBlock, HarTypeOK, Files, Record, Orphan
  <2>2. Unanswered(g) /\ (g.kind = "record" \/ text[g] = <<>>)
    <3>1. CASE rec[c] = NoCall
      BY <1>3, <3>1, EmptyUnanswered DEF WriteResponse, AnswersOnce, AnswerOnce
    <3>2. CASE rec[c] # NoCall
      <4>1. rec[c] \in Calls /\ Held(rec[c])
        BY <1>3, <3>2 DEF WriteResponse, HarTypeOK, Held
      <4>. QED
        BY <3>2, <4>1 DEF AnswersOnce, AnswerOnce, Owed, Record
    <3>. QED
      BY <3>1, <3>2
  <2>. QED
    BY <1>1, <2>1, <2>2, AnswerAppended DEF HarTypeOK
<1>4. ASSUME CloseConn
      PROVE  FileOneAnswer(f)'
  <2>1. PICK rank \in Ranks(Pending) : Flush(rank)
    BY <1>4 DEF CloseConn
  <2>2. DOMAIN rank = Pending
    BY DEF Ranks
  <2>3. CASE f \in Pending
    <3>1. PICK c \in Calls : f = Record(c) /\ Tabled(c)
      BY <2>3 DEF Pending, Tabled
    <3>2. Unanswered(f) /\ f.kind = "record"
      BY <3>1 DEF AnswersOnce, AnswerOnce, Owed, Record
    <3>3. text'[f] = Append(text[f], "closed")
      BY <2>1, <2>2, <2>3 DEF Flush
    <3>. QED
      BY <3>2, <3>3, AnswerAppended
  <2>4. CASE f \notin Pending
    BY <1>1, <2>1, <2>2, <2>4 DEF Flush
  <2>. QED
    BY <2>3, <2>4
<1>5. ASSUME PruneOldest
      PROVE  FileOneAnswer(f)'
  BY <1>1, <1>5 DEF PruneOldest
<1>6. ASSUME NEW c \in Calls,
             Pend(c) \/ Panic(c) \/ Send(c) \/ ReadResponse(c) \/ LookUp(c)
                 \/ ReadMessage(c)
      PROVE  FileOneAnswer(f)'
  BY <1>1, <1>6 DEF Pend, Panic, Send, ReadMessage, ReadResponse, LookUp, archive
<1>7. CASE UNCHANGED harVars
  BY <1>1, <1>7 DEF harVars, archive
<1>. QED
  BY <1>2, <1>3, <1>4, <1>5, <1>6, <1>7 DEF HarNext

LEMMA RangeOfAppend ==
    ASSUME NEW S, NEW s \in Seq(S), NEW b, NEW x \in Range(Append(s, b))
    PROVE  x = b \/ x \in Range(s)
<1>1. /\ DOMAIN s = 1..Len(s) /\ Len(s) \in Nat
      /\ DOMAIN Append(s, b) = 1..(Len(s) + 1)
      /\ Append(s, b)[Len(s) + 1] = b
      /\ \A k \in 1..Len(s) : Append(s, b)[k] = s[k]
  OBVIOUS
<1>2. PICK k \in DOMAIN Append(s, b) : x = Append(s, b)[k]
  BY DEF Range
<1>. QED
  BY <1>1, <1>2 DEF Range

LEMMA RightAnswerStep ==
    ASSUME HarTypeOK, Findable, RightAnswer, [HarNext]_harVars
    PROVE  RightAnswer'
<1>0. clashed \subseteq clashed'
  BY DEF HarNext, harVars, ReadMessage, StartRecord, Pend, Panic, Send, ReadResponse, LookUp,
         WriteResponse, CloseConn, PruneOldest, history
<1>1. SUFFICES ASSUME NEW c \in Calls, NEW d \in Calls, d \in Range(text'[Record(c)])
               PROVE  c = d \/ {c, d} \subseteq clashed \/ d \in Range(text[Record(c)])
  BY <1>0 DEF RightAnswer, Record
<1>2. Record(c) \in Files /\ text[Record(c)] \in Seq(Calls \cup {"request", "closed"})
      /\ d \notin {"request", "closed"}
  BY HarAssumption, FilesApart DEF HarTypeOK, HarAssumption
<1>3. CASE text'[Record(c)] = text[Record(c)]
  BY <1>1, <1>3
<1>4. ASSUME NEW b \in {"request", "closed"}, text'[Record(c)] = Append(text[Record(c)], b)
      PROVE  d \in Range(text[Record(c)])
  BY <1>1, <1>2, <1>4, RangeOfAppend
<1>5. ASSUME NEW e \in Calls, StartRecord(e)
      PROVE  d \in Range(text[Record(c)])
  BY <1>1, <1>2, <1>3, <1>4, <1>5 DEF StartRecord, AppendBlock, HarTypeOK
<1>6. ASSUME NEW e \in Calls, WriteResponse(e)
      PROVE  c = d \/ {c, d} \subseteq clashed \/ d \in Range(text[Record(c)])
  <2>1. CASE rec[e] = c
    <3>1. c # NoCall /\ stage[e] = "found"
      BY <1>6, HarAssumption DEF HarAssumption, WriteResponse
    <3>2. text'[Record(c)] = Append(text[Record(c)], e)
      BY <1>2, <1>6, <2>1, <3>1 DEF WriteResponse, AppendBlock, HarTypeOK
    <3>3. d = e \/ d \in Range(text[Record(c)])
      BY <1>1, <1>2, <3>2, RangeOfAppend
    <3>. QED
      BY <2>1, <3>1, <3>3 DEF Findable
  <2>2. CASE rec[e] # c
    <3>1. Record(c) # (IF rec[e] = NoCall THEN Orphan(e) ELSE Record(rec[e]))
      BY <2>2 DEF Record, Orphan
    <3>. QED
      BY <1>1, <1>2, <1>6, <3>1 DEF WriteResponse, AppendBlock, HarTypeOK
  <2>. QED
    BY <2>1, <2>2
<1>7. ASSUME CloseConn
      PROVE  d \in Range(text[Record(c)])
  <2>1. PICK rank \in Ranks(Pending) : Flush(rank)
    BY <1>7 DEF CloseConn
  <2>. QED
    BY <1>1, <1>2, <1>3, <1>4, <2>1 DEF Flush
<1>8. ASSUME PruneOldest
      PROVE  d \in Range(text[Record(c)])
  <2>1. text'[Record(c)] \in {<<>>, text[Record(c)]}
    BY <1>2, <1>8 DEF PruneOldest
  <2>2. d \notin Range(<<>>)
    BY DEF Range
  <2>. QED
    BY <1>1, <2>1, <2>2
<1>9. ASSUME NEW e \in Calls,
             Pend(e) \/ Panic(e) \/ Send(e) \/ ReadResponse(e) \/ LookUp(e)
                 \/ ReadMessage(e)
      PROVE  d \in Range(text[Record(c)])
  BY <1>1, <1>9 DEF Pend, Panic, Send, ReadMessage, ReadResponse, LookUp, archive
<1>10. CASE UNCHANGED harVars
  BY <1>3, <1>10 DEF harVars, archive
<1>. QED
  BY <1>5, <1>6, <1>7, <1>8, <1>9, <1>10 DEF HarNext

LEMMA OrphansStep ==
    ASSUME HarTypeOK, TableKeyed, Findable, OrphansExplained, [HarNext]_harVars
    PROVE  OrphansExplained'
<1>0. clashed \subseteq clashed' /\ (closed => closed')
  BY DEF HarNext, harVars, ReadMessage, StartRecord, Pend, Panic, Send, ReadResponse, LookUp,
         WriteResponse, CloseConn, PruneOldest, history, table
<1>1. SUFFICES ASSUME NEW c \in Calls, text'[Orphan(c)] # <<>>
               PROVE  c \in clashed \/ closed \/ text[Orphan(c)] # <<>>
  BY <1>0 DEF OrphansExplained, Orphan
<1>2. \A d \in Calls : Record(d) # Orphan(c)
  BY FilesApart
<1>3. CASE text'[Orphan(c)] = text[Orphan(c)]
  BY <1>1, <1>3
<1>4. ASSUME NEW e \in Calls, StartRecord(e)
      PROVE  text[Orphan(c)] # <<>>
  BY <1>1, <1>2, <1>4, FilesApart DEF StartRecord, AppendBlock, HarTypeOK
<1>5. ASSUME NEW e \in Calls, WriteResponse(e)
      PROVE  c \in clashed \/ closed \/ text[Orphan(c)] # <<>>
  <2>1. CASE rec[e] = NoCall /\ e = c
    BY <1>5, <2>1 DEF WriteResponse, Findable
  <2>2. CASE rec[e] # NoCall \/ e # c
    <3>1. Orphan(c) # (IF rec[e] = NoCall THEN Orphan(e) ELSE Record(rec[e]))
      BY <2>2 DEF Record, Orphan
    <3>. QED
      BY <1>1, <1>5, <3>1, FilesApart DEF WriteResponse, AppendBlock, HarTypeOK
  <2>. QED
    BY <2>1, <2>2
<1>6. ASSUME CloseConn
      PROVE  text[Orphan(c)] # <<>>
  <2>1. PICK rank \in Ranks(Pending) : Flush(rank)
    BY <1>6 DEF CloseConn
  <2>2. Orphan(c) \notin DOMAIN rank
    BY <1>2 DEF Ranks, Pending
  <2>. QED
    BY <1>1, <2>1, <2>2, FilesApart DEF Flush
<1>7. ASSUME PruneOldest
      PROVE  text[Orphan(c)] # <<>>
  BY <1>1, <1>7, FilesApart DEF PruneOldest
<1>8. ASSUME NEW e \in Calls,
             Pend(e) \/ Panic(e) \/ Send(e) \/ ReadResponse(e) \/ LookUp(e)
                 \/ ReadMessage(e)
      PROVE  text[Orphan(c)] # <<>>
  BY <1>1, <1>8 DEF Pend, Panic, Send, ReadMessage, ReadResponse, LookUp, archive
<1>9. CASE UNCHANGED harVars
  BY <1>3, <1>9 DEF harVars, archive
<1>. QED
  BY <1>4, <1>5, <1>6, <1>7, <1>8, <1>9 DEF HarNext

LEMMA FlushedStep ==
    ASSUME HarTypeOK, TableKeyed, HeldOnce, AnswersOnce, Findable, Flushed, [HarNext]_harVars
    PROVE  Flushed'
<1>0. /\ stage \in [Calls -> Stages] /\ pending \in [Keys -> Calls \cup {NoCall}]
      /\ DOMAIN text = Files
  BY DEF HarTypeOK
<1>. USE <1>0
<1>1. SUFFICES ASSUME NEW c \in Calls, closed', Waiting(c)', c \notin clashed' \cup pruned'
               PROVE  text'[Record(c)] = <<"request", "closed">>
  BY DEF Flushed, Record
<1>2. clashed \subseteq clashed' /\ pruned \subseteq pruned'
  BY DEF HarNext, harVars, ReadMessage, StartRecord, Pend, Panic, Send, ReadResponse, LookUp,
         WriteResponse, CloseConn, PruneOldest, history
<1>3. CASE closed /\ Waiting(c) /\ text'[Record(c)] = text[Record(c)]
  BY <1>1, <1>2, <1>3 DEF Flushed
<1>4. ASSUME NEW e \in Calls, StartRecord(e)
      PROVE  text'[Record(c)] = <<"request", "closed">>
  <2>1. closed /\ Waiting(c) /\ c # e
    BY <1>1, <1>4 DEF StartRecord, MayCall, Advance, Waiting, table, Stages
  <2>. QED
    BY <1>3, <1>4, <2>1, FilesApart DEF StartRecord, AppendBlock
<1>5. ASSUME NEW e \in Calls, WriteResponse(e)
      PROVE  text'[Record(c)] = <<"request", "closed">>
  <2>1. closed /\ Waiting(c) /\ c # e /\ stage[e] = "found"
    BY <1>1, <1>5 DEF WriteResponse, Advance, Waiting, table, Stages
  <2>2. rec[e] # c
    <3>1. c # NoCall /\ c \notin clashed
      BY HarAssumption, <1>1, <1>2 DEF HarAssumption
    <3>. QED
      BY <2>1, <3>1 DEF Findable
  <2>3. Record(c) # (IF rec[e] = NoCall THEN Orphan(e) ELSE Record(rec[e]))
    BY <2>2 DEF Record, Orphan
  <2>. QED
    BY <1>3, <1>5, <2>1, <2>3, FilesApart DEF WriteResponse, AppendBlock
<1>6. ASSUME CloseConn
      PROVE  text'[Record(c)] = <<"request", "closed">>
  <2>1. PICK rank \in Ranks(Pending) : Flush(rank)
    BY <1>6 DEF CloseConn
  <2>2. ~closed /\ Waiting(c) /\ c \notin clashed \cup pruned
    BY <1>1, <1>2, <1>6 DEF CloseConn, Waiting
  <2>3. Tabled(c)
    BY <2>2, KeyOfCall DEF Findable, TableKeyed, Waiting, Tabled
  <2>4. text[Record(c)] = <<"request">>
    BY <2>2, <2>3 DEF AnswersOnce, AnswerOnce, Owed
  <2>5. Record(c) \in DOMAIN rank /\ Record(c) \in Files
    BY <2>3, FilesApart DEF Ranks, Pending, Tabled
  <2>6. text'[Record(c)] = Append(<<"request">>, "closed")
    BY <2>1, <2>4, <2>5 DEF Flush
  <2>7. Append(<<"request">>, "closed") = <<"request", "closed">>
    BY SecondBlock
  <2>. QED
    BY <2>6, <2>7
<1>7. ASSUME PruneOldest
      PROVE  text'[Record(c)] = <<"request", "closed">>
  BY <1>1, <1>3, <1>7, FilesApart DEF PruneOldest, Waiting, table
<1>8. ASSUME NEW e \in Calls,
             Pend(e) \/ Panic(e) \/ Send(e) \/ ReadResponse(e) \/ LookUp(e)
                 \/ ReadMessage(e)
      PROVE  text'[Record(c)] = <<"request", "closed">>
  BY <1>1, <1>3, <1>8
     DEF Pend, Panic, Send, ReadMessage, ReadResponse, LookUp, Advance, Waiting, Stages, archive, table
<1>9. CASE UNCHANGED harVars
  BY <1>1, <1>3, <1>9 DEF harVars, Waiting, archive, table
<1>. QED
  BY <1>4, <1>5, <1>6, <1>7, <1>8, <1>9 DEF HarNext

\* However requests, responses, Close and prunes come together.
THEOREM HarInvariant == HarSpec => []HarInv
<1>1. HarInit => HarInv
  <2>1. HarInit => HarTypeOK
    <3>1. <<>> \in Seq(Calls \cup {"request", "closed"})
      OBVIOUS
    <3>. QED
      BY HarAssumption, <3>1 DEF HarAssumption, HarInit, HarTypeOK, Stages
  <2>2. HarInit => TableKeyed /\ HeldOnce /\ Clashes /\ Findable
    BY HarAssumption
       DEF HarAssumption, HarInit, TableKeyed, HeldOnce, Clashes, Findable, Waiting
  <2>3. HarInit => AnswersOnce
    BY HarAssumption, FilesApart
       DEF HarAssumption, HarInit, AnswersOnce, AnswerOnce, Owed, Tabled, Held
  <2>4. HarInit => OneAnswer /\ AnswersFiled /\ Flushed
    BY FilesApart
       DEF HarInit, OneAnswer, AnswersFiled, RightAnswer, OrphansExplained, Flushed, Range
  <2>. QED
    BY <2>1, <2>2, <2>3, <2>4 DEF HarInv
<1>2. HarInv /\ [HarNext]_harVars => HarInv'
  BY HarTypeStep, KeyedStep, HeldStep, AnswersOnceStep, OneAnswerStep, ClashesStep,
     FindableStep, RightAnswerStep, OrphansStep, FlushedStep DEF HarInv, AnswersFiled
<1>. QED
  BY <1>1, <1>2, PTL DEF HarSpec

\* A record of har_transport.go gets one answer: the response or the note of
\* Close, whatever overtakes what.
THEOREM AnsweredOnce == HarSpec => []OneAnswer
<1>1. HarInv => OneAnswer
  BY DEF HarInv
<1>. QED
  BY <1>1, HarInvariant, PTL

\* A response lands in the record of its own call, or its key was shared.
THEOREM AnsweredRightly == HarSpec => []AnswersFiled
<1>1. HarInv => AnswersFiled
  BY DEF HarInv
<1>. QED
  BY <1>1, HarInvariant, PTL

\* Close leaves no call in the table and none without a note.
THEOREM CloseIsFinal == HarSpec => []CloseSettles
<1>1. HarInv => CloseSettles
  BY DEF HarInv, CloseSettles
<1>. QED
  BY <1>1, HarInvariant, PTL
=============================================================================

----------------------------- MODULE BusClient -----------------------------
(***************************************************************************)
(* One ipc.Client (internal/ipc/bus_client.go) on its connection, with the *)
(* side of bus_server.go that it can observe: many goroutines call Call,   *)
(* one goroutine runs readLoop, somebody may call Close.                   *)
(*                                                                         *)
(* Socket buffers are bounded in both directions and the server's verb     *)
(* loop may itself write (its refusals while draining), so that the two    *)
(* sides could wait for each other.  Write mutexes are abstracted to       *)
(* atomic appends: whoever holds one waits only for room.  What draining   *)
(* does inside the server is the subject of SupervisorLifecycle.           *)
(***************************************************************************)
EXTENDS Integers, Sequences, FiniteSets

CONSTANTS
    Calls,      \* invocations of Client.Call
    None,
    BufLen,     \* bound: envelopes a socket buffer holds, per direction
    Oversized,  \* calls whose result may exceed maxEnvelopeBytes
    Wedged,     \* calls whose handler may never return
    MayCancel,  \* calls whose context may end
    MayClose,   \* may the client be closed?
    PeerCloses, \* may the server close the connection or die?
    MayDrain    \* may the server begin to drain?

Errors == {"gone", "unavailable", "refused", "ctx", "write"}

ASSUME ClientAssumption ==
    /\ IsFiniteSet(Calls)
    /\ None \notin Calls \cup Errors
    /\ Calls \cap Errors = {}
    /\ BufLen \in Nat \ {0}
    /\ Oversized \subseteq Calls
    /\ Wedged \subseteq Calls
    /\ MayCancel \subseteq Calls
    /\ MayClose \in BOOLEAN
    /\ PeerCloses \in BOOLEAN
    /\ MayDrain \in BOOLEAN

VARIABLES
    pc,        \* where each call is in Call
    id,        \* its request ID, 0 before it has one
    answer,    \* what it returned: the call whose result it is, or an error
    nextID,    \* Client.nextID
    pending,   \* Client.pending: the calls that wait, by request ID
    chan,      \* the one-place channel of each call
    reader,    \* readLoop
    hand,      \* the response readLoop is about to send to a channel
    closed,    \* Client.closed
    closer,    \* the goroutine in Close
    conn,      \* the connection
    toServer,  \* socket buffer: requests
    toClient,  \* socket buffer: responses
    running,   \* requests being dispatched by the server
    refusing,  \* the request the server's verbLoop is refusing
    draining,  \* Server.draining
    executed   \* history: how often the handler of each call was started

callVars == <<pc, id, answer, nextID>>
tableVars == <<pending, chan>>
readerVars == <<reader, hand>>
closeVars == <<closed, closer>>
serverVars == <<running, refusing, draining, executed>>
wires == <<conn, toServer, toClient>>
vars == <<callVars, tableVars, readerVars, closeVars, serverVars, wires>>

Ids == Nat \ {0}
Requests == [id : Ids, call : Calls]
Responses == [id : Ids, body : Calls \cup {"refused"}, big : BOOLEAN]
Delivery == [to : Calls, body : Calls \cup {"refused"}]

TypeOK ==
    /\ pc \in [Calls -> {"idle", "admitted", "registered", "waiting", "returned"}]
    /\ id \in [Calls -> Nat]
    /\ answer \in [Calls -> Calls \cup Errors \cup {None}]
    /\ nextID \in Nat
    /\ pending \subseteq Requests
    /\ chan \in [Calls -> Calls \cup Errors \cup {None}]
    /\ reader \in {"run", "exited"}
    /\ hand \in Delivery \cup {None}
    /\ closed \in BOOLEAN
    /\ closer \in {"none", "waiting", "returned"}
    /\ conn \in {"open", "peerClosed", "closed"}
    /\ toServer \in Seq(Requests)
    /\ toClient \in Seq(Responses)
    /\ running \subseteq Requests
    /\ refusing \in Requests \cup {None}
    /\ draining \in BOOLEAN
    /\ executed \in [Calls -> Nat]

Init ==
    /\ pc = [c \in Calls |-> "idle"]
    /\ id = [c \in Calls |-> 0]
    /\ answer = [c \in Calls |-> None]
    /\ nextID = 0
    /\ pending = {}
    /\ chan = [c \in Calls |-> None]
    /\ reader = "run"
    /\ hand = None
    /\ closed = FALSE
    /\ closer = "none"
    /\ conn = "open"
    /\ toServer = <<>>
    /\ toClient = <<>>
    /\ running = {}
    /\ refusing = None
    /\ draining = FALSE
    /\ executed = [c \in Calls |-> 0]

----------------------------------------------------------------------------
(* Call.                                                                   *)

Goto(c, from, to) == pc[c] = from /\ pc' = [pc EXCEPT ![c] = to]
Returns(c, a) == answer' = [answer EXCEPT ![c] = a]
Forget(c) == pending' = {r \in pending : r.id # id[c]}

CallOnClosed(c) ==
    /\ closed
    /\ Goto(c, "idle", "returned")
    /\ Returns(c, "gone")
    /\ UNCHANGED <<id, nextID, tableVars, readerVars, closeVars, serverVars, wires>>

\* Mutant: the counter is read and written in two steps, so that two calls
\* may see the same value.
BeginRacing(c) ==
    /\ ~closed
    /\ Goto(c, "idle", "admitted")
    /\ id' = [id EXCEPT ![c] = nextID + 1]
    /\ nextID' \in {nextID, nextID + 1}
    /\ UNCHANGED <<answer, tableVars, readerVars, closeVars, serverVars, wires>>

Begin(c) ==
    /\ ~closed
    /\ Goto(c, "idle", "admitted")
    /\ id' = [id EXCEPT ![c] = nextID + 1]
    /\ nextID' = nextID + 1
    /\ UNCHANGED <<answer, tableVars, readerVars, closeVars, serverVars, wires>>

Register(c) ==
    /\ Goto(c, "admitted", "registered")
    /\ pending' = {r \in pending : r.id # id[c]} \cup {[id |-> id[c], call |-> c]}
    /\ UNCHANGED <<id, answer, nextID, chan, readerVars, closeVars, serverVars, wires>>

\* A write waits for room in the socket buffer, whatever becomes of ctx.
WriteRequest(c) ==
    /\ conn = "open"
    /\ Len(toServer) < BufLen
    /\ Goto(c, "registered", "waiting")
    /\ toServer' = Append(toServer, [id |-> id[c], call |-> c])
    /\ UNCHANGED <<id, answer, nextID, tableVars, readerVars, closeVars, serverVars, conn,
                   toClient>>

WriteFails(c) ==
    /\ conn # "open"
    /\ Goto(c, "registered", "returned")
    /\ Returns(c, "write")
    /\ Forget(c)
    /\ UNCHANGED <<id, nextID, chan, readerVars, closeVars, serverVars, wires>>

Receive(c) ==
    /\ chan[c] # None
    /\ Goto(c, "waiting", "returned")
    /\ Returns(c, chan[c])
    /\ chan' = [chan EXCEPT ![c] = None]
    /\ UNCHANGED <<id, nextID, pending, readerVars, closeVars, serverVars, wires>>

\* Mutant: the entry of a cancelled call stays in the table.
CancelLeaks(c) ==
    /\ c \in MayCancel
    /\ Goto(c, "waiting", "returned")
    /\ Returns(c, "ctx")
    /\ UNCHANGED <<id, nextID, tableVars, readerVars, closeVars, serverVars, wires>>

\* ctx.Done: the select may prefer it to a response that is there.
Cancel(c) ==
    /\ c \in MayCancel
    /\ Goto(c, "waiting", "returned")
    /\ Returns(c, "ctx")
    /\ Forget(c)
    /\ UNCHANGED <<id, nextID, chan, readerVars, closeVars, serverVars, wires>>

----------------------------------------------------------------------------
(* readLoop and Close.                                                     *)

\* ReadEnvelope returns a response: its entry is looked up and deleted.  The
\* response of a call that has given up is dropped.  The buffered reader may
\* hold responses when the connection is closed.
ReadResponse ==
    /\ reader = "run" /\ hand = None
    /\ toClient # <<>> /\ ~Head(toClient).big
    /\ LET m == Head(toClient)
           to == {r \in pending : r.id = m.id}
       IN /\ pending' = pending \ to
          /\ hand' \in IF to = {} THEN {None} ELSE {[to |-> r.call, body |-> m.body] : r \in to}
    /\ toClient' = Tail(toClient)
    /\ UNCHANGED <<callVars, chan, reader, closeVars, serverVars, conn, toServer>>

\* ch <- &envCopy, outside the mutex; the channel holds one response.
Deliver ==
    /\ hand # None
    /\ chan[hand.to] = None
    /\ chan' = [chan EXCEPT ![hand.to] = hand.body]
    /\ hand' = None
    /\ UNCHANGED <<callVars, pending, reader, closeVars, serverVars, wires>>

\* failAllPending sends to every channel in the table, holding the mutex.
FailPending(kind) ==
    chan' = [c \in Calls |-> IF \E r \in pending : r.call = c THEN kind ELSE chan[c]]

\* Mutant: readLoop ends without failing the calls that wait.
ReadEndsQuietly ==
    /\ reader = "run" /\ hand = None
    /\ conn # "open" \/ (toClient # <<>> /\ Head(toClient).big)
    /\ reader' = "exited"
    /\ UNCHANGED <<callVars, tableVars, hand, closeVars, serverVars, wires>>

\* ReadEnvelope returns an error: the connection has ended on either side, or
\* a line is too long.  In the latter case the connection stays open.
ReadFails ==
    /\ reader = "run" /\ hand = None
    /\ conn # "open" \/ (toClient # <<>> /\ Head(toClient).big)
    /\ \A r \in pending : chan[r.call] = None
    /\ FailPending("unavailable")
    /\ pending' = {}
    /\ reader' = "exited"
    /\ UNCHANGED <<callVars, hand, closeVars, serverVars, wires>>

Close ==
    /\ MayClose
    /\ ~closed
    /\ closed' = TRUE
    /\ closer' = "waiting"
    /\ conn' = "closed"
    /\ UNCHANGED <<callVars, tableVars, readerVars, serverVars, toServer, toClient>>

\* <-c.readDone
CloseReturns ==
    /\ closer = "waiting"
    /\ reader = "exited"
    /\ closer' = "returned"
    /\ UNCHANGED <<closed, callVars, tableVars, readerVars, serverVars, wires>>

----------------------------------------------------------------------------
(* The server, as far as the client can see it.                            *)

\* verbLoop reads a request and starts its handler, or refuses it.
ServerReads ==
    /\ conn # "peerClosed"
    /\ refusing = None
    /\ toServer # <<>>
    /\ toServer' = Tail(toServer)
    /\ LET r == Head(toServer)
       IN IF draining
          THEN /\ refusing' = r
               /\ UNCHANGED <<running, executed>>
          ELSE /\ running' = running \cup {r}
               /\ executed' = [executed EXCEPT ![r.call] = @ + 1]
               /\ UNCHANGED refusing
    /\ UNCHANGED <<callVars, tableVars, readerVars, closeVars, draining, conn, toClient>>

\* A write of the server waits for room, and its errors are dropped.
ServerWrites(i, body, big) ==
    \/ /\ conn = "open"
       /\ Len(toClient) < BufLen
       /\ toClient' = Append(toClient, [id |-> i, body |-> body, big |-> big])
    \/ /\ conn # "open"
       /\ UNCHANGED toClient

Refuse ==
    /\ refusing # None
    /\ ServerWrites(refusing.id, "refused", FALSE)
    /\ refusing' = None
    /\ UNCHANGED <<running, draining, executed, callVars, tableVars, readerVars, closeVars,
                   conn, toServer>>

Respond(r) ==
    /\ r \in running
    /\ running' = running \ {r}
    /\ \E big \in BOOLEAN : (big => r.call \in Oversized) /\ ServerWrites(r.id, r.call, big)
    /\ UNCHANGED <<refusing, draining, executed, callVars, tableVars, readerVars, closeVars,
                   conn, toServer>>

Drain ==
    /\ MayDrain
    /\ ~draining
    /\ draining' = TRUE
    /\ UNCHANGED <<running, refusing, executed, callVars, tableVars, readerVars, closeVars,
                   wires>>

\* The server closes the connection, or its process ends.
PeerClose ==
    /\ PeerCloses
    /\ conn = "open"
    /\ conn' = "peerClosed"
    /\ toServer' = <<>>
    /\ UNCHANGED <<callVars, tableVars, readerVars, closeVars, serverVars, toClient>>

----------------------------------------------------------------------------

CallStep(c) ==
    \/ Register(c) \/ WriteRequest(c) \/ WriteFails(c) \/ Receive(c)

ReaderStep == ReadResponse \/ Deliver \/ ReadFails

\* Nothing is left to do for anybody.
Quiet ==
    /\ \A c \in Calls : pc[c] = "returned"
    /\ UNCHANGED vars

Next ==
    \/ \E c \in Calls : CallOnClosed(c) \/ Begin(c) \/ CallStep(c) \/ Cancel(c)
    \/ ReaderStep
    \/ Close \/ CloseReturns
    \/ ServerReads \/ Refuse \/ Drain \/ PeerClose
    \/ \E r \in running : Respond(r)
    \/ Quiet

Spec == Init /\ [][Next]_vars

\* Goroutines that can run do; nobody has to call, cancel, close or drain,
\* and a wedged handler never has to return.
Fairness ==
    /\ \A c \in Calls : WF_vars(CallStep(c))
    /\ WF_vars(ReaderStep) /\ WF_vars(CloseReturns)
    /\ WF_vars(ServerReads) /\ WF_vars(Refuse)
    /\ WF_vars(\E r \in running : r.call \notin Wedged /\ Respond(r))

FairSpec == Spec /\ Fairness

----------------------------------------------------------------------------
(* Properties.                                                             *)

Progress ==
    [c \in Calls |-> IF pc[c] \in {"idle", "returned"} THEN pc[c] ELSE "open"]
Outcome ==
    [c \in Calls |-> IF answer[c] \in Errors THEN "error" ELSE answer[c]]

Rpc == INSTANCE RpcCalls WITH call <- Progress, answer <- Outcome

\* The client implements RpcCalls: no call is given the result of another,
\* returns twice, or has its handler started twice.
ImplementsRpc == Rpc!Spec

\* readLoop never waits for a caller: the channel of whoever is in the table,
\* or is about to be sent a response, is empty.  Otherwise one call that has
\* given up would stall all the others, and failAllPending would stall with
\* the mutex held.
ReaderNeverBlocks ==
    /\ hand # None => chan[hand.to] = None
    /\ \A r \in pending : chan[r.call] = None /\ (hand # None => hand.to # r.call)

\* The table holds the calls that are under way and nothing else: a long-lived
\* client does not accumulate entries of calls that were cancelled or failed.
NoLeak ==
    \A r \in pending : pc[r.call] \in {"registered", "waiting"} /\ id[r.call] = r.id

TableSound == ReaderNeverBlocks /\ NoLeak

\* Why: a request ID is given to one call only, and every copy of a request
\* carries the ID of its call.
IdInv ==
    /\ \A c \in Calls : id[c] <= nextID
    /\ \A c \in Calls : pc[c] \in {"admitted", "registered", "waiting"} => id[c] # 0
    /\ \A c, d \in Calls : id[c] = id[d] /\ id[c] # 0 => c = d
    /\ \A r \in running : id[r.call] = r.id
    /\ refusing # None => id[refusing.call] = refusing.id
    /\ \A k \in 1 .. Len(toServer) : id[toServer[k].call] = toServer[k].id

Started(c) == executed[c] # 0

\* A call that has not been written yet has no response and no execution, and
\* a request is in the socket buffer once, before it is executed.
NotYetInv ==
    /\ \A c \in Calls : pc[c] \in {"idle", "admitted"} => chan[c] = None
    /\ hand # None => pc[hand.to] \notin {"idle", "admitted"}
    /\ \A c \in Calls : Started(c) => pc[c] \in {"waiting", "returned"}
    /\ refusing # None => pc[refusing.call] \in {"waiting", "returned"}
    /\ \A k \in 1 .. Len(toServer) :
         /\ pc[toServer[k].call] \in {"waiting", "returned"}
         /\ ~Started(toServer[k].call)
         /\ \A l \in 1 .. Len(toServer) : toServer[k].call = toServer[l].call => k = l

\* A result is that of an execution, and is on its way to the call it is for.
OwnResult(c, body) == body \in Calls => body = c /\ Started(c)

ResultInv ==
    /\ \A c \in Calls : OwnResult(c, chan[c])
    /\ hand # None => OwnResult(hand.to, hand.body)
    /\ \A r \in running : Started(r.call)
    /\ \A k \in 1 .. Len(toClient) :
         toClient[k].body \in Calls =>
             /\ Started(toClient[k].body)
             /\ id[toClient[k].body] = toClient[k].id

UnderWay(c) == pc[c] \in {"admitted", "registered", "waiting"}

\* readLoop has given up on a line that is too long.
ReaderLost == reader = "exited" /\ toClient # <<>> /\ Head(toClient).big

\* Every call returns, with slow readers on either side, a server that drains
\* or dies, calls that are cancelled and a client that is closed, unless its
\* own handler is wedged or the client has lost its reader.
CallsReturn ==
    /\ \A c \in Calls \ Wedged : UnderWay(c) ~> (pc[c] = "returned" \/ ReaderLost)
    /\ closer = "waiting" ~> closer = "returned"

\* The same without the last condition: "an over-budget line yields an error"
\* (codec.go), and does not leave the calls that come after it without one.
EveryCallReturns ==
    \A c \in Calls \ Wedged : UnderWay(c) ~> pc[c] = "returned"

\* "Close closes the underlying conn and stops the reader. Pending calls will
\* receive ErrServerGone." (bus_client.go)
PendingGetServerGone ==
    [][\A c \in Calls :
         closed /\ pc[c] = "waiting" /\ pc'[c] = "returned"
             => answer'[c] \in {c, "refused", "ctx", "gone"}]_vars

=============================================================================

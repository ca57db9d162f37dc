-------------------------- MODULE BusClientProofs --------------------------
(***************************************************************************)
(* Proofs about BusClient, for any number of calls and any socket buffers. *)
(***************************************************************************)
EXTENDS BusClient, TLAPS, SequenceTheorems

(* What a write leaves in a socket buffer.                                 *)
LEMMA Written ==
  ASSUME NEW S, NEW s \in Seq(S), NEW e \in S
  PROVE  /\ Append(s, e) \in Seq(S)
         /\ Len(Append(s, e)) = Len(s) + 1
         /\ Len(s) \in Nat
         /\ \A k \in 1 .. Len(s) + 1 :
              Append(s, e)[k] = IF k = Len(s) + 1 THEN e ELSE s[k]
  OBVIOUS

(* What a read takes from it, and what it leaves.                          *)
LEMMA Taken ==
  ASSUME NEW S, NEW s \in Seq(S), s # <<>>
  PROVE  /\ Head(s) \in S /\ Head(s) = s[1]
         /\ Len(s) \in Nat \ {0}
         /\ Tail(s) \in Seq(S)
         /\ Len(Tail(s)) = Len(s) - 1
         /\ \A k \in 1 .. Len(s) - 1 : Tail(s)[k] = s[k + 1]
  BY HeadTailProperties

(* Types.  A request is written with an ID.                                *)
LEMMA TypeStep == TypeOK /\ IdInv /\ [Next]_vars => TypeOK'
<1> SUFFICES ASSUME TypeOK, IdInv, [Next]_vars PROVE TypeOK'
  OBVIOUS
<1> USE DEF callVars, tableVars, readerVars, closeVars, serverVars, wires
<1>1. ASSUME NEW c \in Calls, CallOnClosed(c) PROVE TypeOK'
  BY <1>1 DEF CallOnClosed, Goto, Returns, TypeOK, Errors
<1>2. ASSUME NEW c \in Calls, Begin(c) PROVE TypeOK'
  BY <1>2 DEF Begin, Goto, Returns, Forget, TypeOK
<1>3. ASSUME NEW c \in Calls, Register(c) PROVE TypeOK'
  <2>1. [id |-> id[c], call |-> c] \in Requests
    BY <1>3 DEF Register, Goto, TypeOK, IdInv, Requests, Ids
  <2>2. QED
    BY <1>3, <2>1 DEF Register, Goto, TypeOK
<1>4. ASSUME NEW c \in Calls, WriteRequest(c) PROVE TypeOK'
  <2>1. [id |-> id[c], call |-> c] \in Requests
    BY <1>4 DEF WriteRequest, Goto, TypeOK, IdInv, Requests, Ids
  <2>2. toServer' \in Seq(Requests)
    BY <1>4, <2>1, Written DEF WriteRequest, TypeOK
  <2>3. QED
    BY <1>4, <2>2 DEF WriteRequest, Goto, TypeOK
<1>5. ASSUME NEW c \in Calls, WriteFails(c) PROVE TypeOK'
  BY <1>5 DEF WriteFails, Goto, Returns, Forget, TypeOK, Errors
<1>6. ASSUME NEW c \in Calls, Receive(c) PROVE TypeOK'
  BY <1>6 DEF Receive, Goto, Returns, TypeOK, Errors
<1>7. ASSUME NEW c \in Calls, Cancel(c) PROVE TypeOK'
  BY <1>7 DEF Cancel, Goto, Returns, Forget, TypeOK, Errors
<1>8. ASSUME ReadResponse PROVE TypeOK'
  <2>1. Head(toClient) \in Responses /\ toClient' \in Seq(Responses)
    BY <1>8, Taken DEF ReadResponse, TypeOK
  <2>2. hand' \in Delivery \cup {None} /\ pending' \subseteq Requests
    BY <1>8, <2>1 DEF ReadResponse, TypeOK, Responses, Requests, Delivery
  <2>3. QED
    BY <1>8, <2>1, <2>2 DEF ReadResponse, TypeOK
<1>9. ASSUME Deliver PROVE TypeOK'
  <2>1. hand \in Delivery
    BY <1>9 DEF Deliver, TypeOK
  <2>2. QED
    BY <1>9, <2>1 DEF Deliver, TypeOK, Delivery, Errors
<1>10. ASSUME ReadFails PROVE TypeOK'
  BY <1>10 DEF ReadFails, FailPending, TypeOK, Errors
<1>11. ASSUME Close PROVE TypeOK'
  BY <1>11 DEF Close, Goto, Returns, Forget, TypeOK
<1>12. ASSUME CloseReturns PROVE TypeOK'
  BY <1>12 DEF CloseReturns, Goto, Returns, Forget, TypeOK
<1>13. ASSUME ServerReads PROVE TypeOK'
  <2>1. Head(toServer) \in Requests /\ toServer' \in Seq(Requests)
    BY <1>13, Taken DEF ServerReads, TypeOK
  <2>2. Head(toServer).call \in Calls
    BY <2>1 DEF Requests
  <2>3. /\ refusing' \in Requests \cup {None}
        /\ running' \subseteq Requests
    BY <1>13, <2>1, <2>2 DEF ServerReads, TypeOK
  <2>a. \/ executed' = executed
        \/ executed' = [executed EXCEPT ![Head(toServer).call] = @ + 1]
    BY <1>13 DEF ServerReads
  <2>b. executed' \in [Calls -> Nat]
    BY <2>2, <2>a DEF TypeOK
  <2>4. UNCHANGED <<callVars, tableVars, readerVars, closeVars, draining, conn, toClient>>
    BY <1>13 DEF ServerReads
  <2>5. QED
    BY <2>1, <2>3, <2>b, <2>4 DEF TypeOK, callVars, tableVars, readerVars, closeVars
<1>14. ASSUME Refuse PROVE TypeOK'
  <2>1. [id |-> refusing.id, body |-> "refused", big |-> FALSE] \in Responses
    BY <1>14 DEF Refuse, TypeOK, Requests, Responses
  <2>2. Append(toClient, [id |-> refusing.id, body |-> "refused", big |-> FALSE])
          \in Seq(Responses)
    BY <2>1, Written DEF TypeOK
  <2>3. toClient' \in Seq(Responses)
    BY <1>14, <2>2 DEF Refuse, ServerWrites, TypeOK
  <2>4. QED
    BY <1>14, <2>3 DEF Refuse, TypeOK
<1>15. ASSUME NEW r \in running, Respond(r) PROVE TypeOK'
  <2>1. ASSUME NEW big \in BOOLEAN
        PROVE  Append(toClient, [id |-> r.id, body |-> r.call, big |-> big])
                 \in Seq(Responses)
    <3>1. [id |-> r.id, body |-> r.call, big |-> big] \in Responses
      BY DEF TypeOK, Requests, Responses
    <3>2. QED
      BY <3>1, Written DEF TypeOK
  <2>2. toClient' \in Seq(Responses)
    BY <1>15, <2>1 DEF Respond, ServerWrites, TypeOK
  <2>3. QED
    BY <1>15, <2>2 DEF Respond, TypeOK
<1>16. ASSUME Drain PROVE TypeOK'
  BY <1>16 DEF Drain, Goto, Returns, Forget, TypeOK
<1>17. ASSUME PeerClose PROVE TypeOK'
  BY <1>17, EmptySeq DEF PeerClose, TypeOK
<1>18. ASSUME UNCHANGED vars PROVE TypeOK'
  BY <1>18 DEF vars, TypeOK
<1>19. ASSUME Quiet PROVE TypeOK'
  BY <1>18, <1>19 DEF Quiet, vars
<1>20. QED
  BY <1>1, <1>2, <1>3, <1>4, <1>5, <1>6, <1>7, <1>8, <1>9, <1>10, <1>11, <1>12, <1>13, <1>14, <1>15, <1>16, <1>17, <1>18, <1>19
     DEF Next, CallStep, ReaderStep

(* Request IDs.                                                            *)
LEMMA IdStep == TypeOK /\ IdInv /\ NotYetInv /\ ResultInv /\ [Next]_vars => IdInv'
<1> SUFFICES ASSUME TypeOK, IdInv, NotYetInv, ResultInv, [Next]_vars PROVE IdInv'
  OBVIOUS
<1> USE DEF callVars, tableVars, readerVars, closeVars, serverVars, wires
<1>1. ASSUME NEW c \in Calls, CallOnClosed(c) PROVE IdInv'
  BY <1>1 DEF CallOnClosed, Goto, Returns, Forget, TypeOK, IdInv
<1>2. ASSUME NEW c \in Calls, Begin(c) PROVE IdInv'
  <2>1. id' = [id EXCEPT ![c] = nextID + 1] /\ nextID' = nextID + 1
    BY <1>2 DEF Begin
  <2>2. nextID \in Nat /\ \A d \in Calls : id[d] \in Nat /\ id[d] <= nextID
    BY DEF TypeOK, IdInv
  <2>3. \A d \in Calls : id'[d] = IF d = c THEN nextID + 1 ELSE id[d]
    BY <2>1 DEF TypeOK
  <2>4. \A d \in Calls : id'[d] <= nextID'
    BY <2>1, <2>2, <2>3
  <2>5. \A d, e \in Calls : id'[d] = id'[e] /\ id'[d] # 0 => d = e
    BY <2>2, <2>3 DEF IdInv
  <2>6. \A d \in Calls : pc'[d] \in {"admitted", "registered", "waiting"} => id'[d] # 0
    BY <1>2, <2>2, <2>3 DEF Begin, Goto, TypeOK, IdInv
  <2>7. /\ \A k \in 1 .. Len(toServer) : toServer[k].call # c /\ toServer[k].call \in Calls
        /\ \A r \in running : r.call # c /\ r.call \in Calls
        /\ refusing # None => refusing.call # c /\ refusing.call \in Calls
    <3>1. pc[c] = "idle"
      BY <1>2 DEF Begin, Goto
    <3>2. \A k \in 1 .. Len(toServer) : toServer[k] \in Requests
      BY DEF TypeOK
    <3>3. \A k \in 1 .. Len(toServer) : toServer[k].call # c /\ toServer[k].call \in Calls
      BY <3>1, <3>2 DEF NotYetInv, Requests
    <3>4. \A r \in running : r.call # c /\ r.call \in Calls
      BY <3>1 DEF TypeOK, NotYetInv, ResultInv, Requests
    <3>5. refusing # None => refusing.call # c /\ refusing.call \in Calls
      BY <3>1 DEF TypeOK, NotYetInv, Requests
    <3>6. QED
      BY <3>3, <3>4, <3>5
  <2>8. /\ \A r \in running : id'[r.call] = r.id
        /\ refusing # None => id'[refusing.call] = refusing.id
        /\ \A k \in 1 .. Len(toServer) : id'[toServer[k].call] = toServer[k].id
    BY <2>3, <2>7 DEF IdInv
  <2>9. QED
    BY <1>2, <2>4, <2>5, <2>6, <2>8 DEF Begin, IdInv
<1>3. ASSUME NEW c \in Calls, Register(c) PROVE IdInv'
  BY <1>3 DEF Register, Goto, Returns, Forget, TypeOK, IdInv
<1>4. ASSUME NEW c \in Calls, WriteRequest(c) PROVE IdInv'
  <2>1. [id |-> id[c], call |-> c] \in Requests
    BY <1>4 DEF WriteRequest, Goto, TypeOK, IdInv, Requests, Ids
  <2>2. /\ Len(toServer') = Len(toServer) + 1 /\ Len(toServer) \in Nat
        /\ \A k \in 1 .. Len(toServer) + 1 :
             toServer'[k] = IF k = Len(toServer) + 1 THEN [id |-> id[c], call |-> c]
                            ELSE toServer[k]
    BY <1>4, <2>1, Written DEF WriteRequest, TypeOK
  <2>3. \A k \in 1 .. Len(toServer') : id[toServer'[k].call] = toServer'[k].id
    BY <2>2 DEF IdInv
  <2>4. QED
    BY <1>4, <2>3 DEF WriteRequest, Goto, TypeOK, IdInv
<1>5. ASSUME NEW c \in Calls, WriteFails(c) PROVE IdInv'
  BY <1>5 DEF WriteFails, Goto, Returns, Forget, TypeOK, IdInv
<1>6. ASSUME NEW c \in Calls, Receive(c) PROVE IdInv'
  BY <1>6 DEF Receive, Goto, Returns, Forget, TypeOK, IdInv
<1>7. ASSUME NEW c \in Calls, Cancel(c) PROVE IdInv'
  BY <1>7 DEF Cancel, Goto, Returns, Forget, TypeOK, IdInv
<1>8. ASSUME ReadResponse PROVE IdInv'
  BY <1>8 DEF ReadResponse, Goto, Returns, Forget, TypeOK, IdInv
<1>9. ASSUME Deliver PROVE IdInv'
  BY <1>9 DEF Deliver, Goto, Returns, Forget, TypeOK, IdInv
<1>10. ASSUME ReadFails PROVE IdInv'
  BY <1>10 DEF ReadFails, Goto, Returns, Forget, TypeOK, IdInv
<1>11. ASSUME Close PROVE IdInv'
  BY <1>11 DEF Close, Goto, Returns, Forget, TypeOK, IdInv
<1>12. ASSUME CloseReturns PROVE IdInv'
  BY <1>12 DEF CloseReturns, Goto, Returns, Forget, TypeOK, IdInv
<1>13. ASSUME ServerReads PROVE IdInv'
  <2>1. /\ Head(toServer) = toServer[1] /\ Len(toServer) \in Nat \ {0}
        /\ Len(toServer') = Len(toServer) - 1
        /\ \A k \in 1 .. Len(toServer) - 1 : toServer'[k] = toServer[k + 1]
    BY <1>13, Taken DEF ServerReads, TypeOK
  <2>2. \A k \in 1 .. Len(toServer') : id[toServer'[k].call] = toServer'[k].id
    BY <2>1 DEF IdInv
  <2>3. id[Head(toServer).call] = Head(toServer).id
    BY <2>1 DEF IdInv
  <2>4. QED
    BY <1>13, <2>2, <2>3 DEF ServerReads, TypeOK, IdInv
<1>14. ASSUME Refuse PROVE IdInv'
  BY <1>14 DEF Refuse, Goto, Returns, Forget, TypeOK, IdInv
<1>15. ASSUME NEW r \in running, Respond(r) PROVE IdInv'
  BY <1>15 DEF Respond, Goto, Returns, Forget, TypeOK, IdInv
<1>16. ASSUME Drain PROVE IdInv'
  BY <1>16 DEF Drain, Goto, Returns, Forget, TypeOK, IdInv
<1>17. ASSUME PeerClose PROVE IdInv'
  BY <1>17 DEF PeerClose, IdInv
<1>18. ASSUME UNCHANGED vars PROVE IdInv'
  BY <1>18 DEF vars, TypeOK, IdInv
<1>19. ASSUME Quiet PROVE IdInv'
  BY <1>18, <1>19 DEF Quiet, vars
<1>20. QED
  BY <1>1, <1>2, <1>3, <1>4, <1>5, <1>6, <1>7, <1>8, <1>9, <1>10, <1>11, <1>12, <1>13, <1>14, <1>15, <1>16, <1>17, <1>18, <1>19
     DEF Next, CallStep, ReaderStep

(* Nothing happens to a call before it is written, or twice.               *)
LEMMA NotYetStep == TypeOK /\ IdInv /\ NotYetInv /\ ResultInv /\ NoLeak /\ [Next]_vars => NotYetInv'
<1> SUFFICES ASSUME TypeOK, IdInv, NotYetInv, ResultInv, NoLeak, [Next]_vars PROVE NotYetInv'
  OBVIOUS
<1> USE DEF callVars, tableVars, readerVars, closeVars, serverVars, wires, Started
<1>1. ASSUME NEW c \in Calls, CallOnClosed(c) PROVE NotYetInv'
  <2>1. pc[c] = "idle" /\ pc' = [pc EXCEPT ![c] = "returned"]
    BY <1>1 DEF CallOnClosed, Goto
  <2>2. \A k \in 1 .. Len(toServer) : toServer[k] \in Requests
    BY DEF TypeOK
  <2>3. \A k \in 1 .. Len(toServer) : pc'[toServer[k].call] \in {"waiting", "returned"}
    BY <2>1, <2>2 DEF TypeOK, NotYetInv, Requests
  <2>4. \A d \in Calls : Started(d) => pc'[d] \in {"waiting", "returned"}
    BY <2>1 DEF TypeOK, NotYetInv
  <2>5. refusing # None => pc'[refusing.call] \in {"waiting", "returned"}
    BY <2>1 DEF TypeOK, NotYetInv, Requests
  <2>6. hand # None => pc'[hand.to] \notin {"idle", "admitted"}
    BY <2>1 DEF TypeOK, NotYetInv, Delivery
  <2>7. \A d \in Calls : pc'[d] \in {"idle", "admitted"} => chan'[d] = None
    BY <1>1, <2>1 DEF CallOnClosed, TypeOK, NotYetInv
  <2>8. QED
    BY <1>1, <2>3, <2>4, <2>5, <2>6, <2>7 DEF CallOnClosed, NotYetInv
<1>2. ASSUME NEW c \in Calls, Begin(c) PROVE NotYetInv'
  <2>1. pc[c] = "idle" /\ pc' = [pc EXCEPT ![c] = "admitted"]
    BY <1>2 DEF Begin, Goto
  <2>2. \A k \in 1 .. Len(toServer) : toServer[k] \in Requests
    BY DEF TypeOK
  <2>3. \A k \in 1 .. Len(toServer) : pc'[toServer[k].call] \in {"waiting", "returned"}
    BY <2>1, <2>2 DEF TypeOK, NotYetInv, Requests
  <2>4. \A d \in Calls : Started(d) => pc'[d] \in {"waiting", "returned"}
    BY <2>1 DEF TypeOK, NotYetInv
  <2>5. refusing # None => pc'[refusing.call] \in {"waiting", "returned"}
    BY <2>1 DEF TypeOK, NotYetInv, Requests
  <2>6. hand # None => pc'[hand.to] \notin {"idle", "admitted"}
    BY <2>1 DEF TypeOK, NotYetInv, Delivery
  <2>7. \A d \in Calls : pc'[d] \in {"idle", "admitted"} => chan'[d] = None
    BY <1>2, <2>1 DEF Begin, TypeOK, NotYetInv
  <2>8. QED
    BY <1>2, <2>3, <2>4, <2>5, <2>6, <2>7 DEF Begin, NotYetInv
<1>3. ASSUME NEW c \in Calls, Register(c) PROVE NotYetInv'
  <2>1. pc[c] = "admitted" /\ pc' = [pc EXCEPT ![c] = "registered"]
    BY <1>3 DEF Register, Goto
  <2>2. \A k \in 1 .. Len(toServer) : toServer[k] \in Requests
    BY DEF TypeOK
  <2>3. \A k \in 1 .. Len(toServer) : pc'[toServer[k].call] \in {"waiting", "returned"}
    BY <2>1, <2>2 DEF TypeOK, NotYetInv, Requests
  <2>4. \A d \in Calls : Started(d) => pc'[d] \in {"waiting", "returned"}
    BY <2>1 DEF TypeOK, NotYetInv
  <2>5. refusing # None => pc'[refusing.call] \in {"waiting", "returned"}
    BY <2>1 DEF TypeOK, NotYetInv, Requests
  <2>6. hand # None => pc'[hand.to] \notin {"idle", "admitted"}
    BY <2>1 DEF TypeOK, NotYetInv, Delivery
  <2>7. \A d \in Calls : pc'[d] \in {"idle", "admitted"} => chan'[d] = None
    BY <1>3, <2>1 DEF Register, TypeOK, NotYetInv
  <2>8. QED
    BY <1>3, <2>3, <2>4, <2>5, <2>6, <2>7 DEF Register, NotYetInv
<1>4. ASSUME NEW c \in Calls, WriteRequest(c) PROVE NotYetInv'
  <2>1. [id |-> id[c], call |-> c] \in Requests
    BY <1>4 DEF WriteRequest, Goto, TypeOK, IdInv, Requests, Ids
  <2>2. /\ Len(toServer') = Len(toServer) + 1 /\ Len(toServer) \in Nat
        /\ \A k \in 1 .. Len(toServer) + 1 :
             toServer'[k] = IF k = Len(toServer) + 1 THEN [id |-> id[c], call |-> c]
                            ELSE toServer[k]
    BY <1>4, <2>1, Written DEF WriteRequest, TypeOK
  <2>3. pc[c] = "registered" /\ pc' = [pc EXCEPT ![c] = "waiting"]
    BY <1>4 DEF WriteRequest, Goto
  <2>4. \A k \in 1 .. Len(toServer) :
          /\ toServer[k] \in Requests /\ toServer[k].call # c
          /\ pc[toServer[k].call] \in {"waiting", "returned"}
    BY <2>3 DEF TypeOK, NotYetInv
  <2>5. \A k \in 1 .. Len(toServer') :
          /\ pc'[toServer'[k].call] \in {"waiting", "returned"}
          /\ ~Started(toServer'[k].call)
          /\ \A l \in 1 .. Len(toServer') : toServer'[k].call = toServer'[l].call => k = l
    <3>1. \A k \in 1 .. Len(toServer') :
            \/ k = Len(toServer) + 1 /\ toServer'[k].call = c
            \/ k \in 1 .. Len(toServer) /\ toServer'[k] = toServer[k]
      BY <2>2
    <3>2. ~Started(c) /\ pc'[c] = "waiting"
      BY <2>3 DEF TypeOK, NotYetInv
    <3>3. \A k \in 1 .. Len(toServer) :
            /\ pc'[toServer[k].call] \in {"waiting", "returned"}
            /\ ~Started(toServer[k].call)
            /\ \A l \in 1 .. Len(toServer) : toServer[k].call = toServer[l].call => k = l
      BY <2>3, <2>4 DEF TypeOK, NotYetInv, Requests
    <3>4. QED
      BY <2>4, <3>1, <3>2, <3>3
  <2>6. QED
    BY <1>4, <2>3, <2>5 DEF WriteRequest, TypeOK, NotYetInv, Requests, Delivery
<1>5. ASSUME NEW c \in Calls, WriteFails(c) PROVE NotYetInv'
  <2>1. pc[c] = "registered" /\ pc' = [pc EXCEPT ![c] = "returned"]
    BY <1>5 DEF WriteFails, Goto
  <2>2. \A k \in 1 .. Len(toServer) : toServer[k] \in Requests
    BY DEF TypeOK
  <2>3. \A k \in 1 .. Len(toServer) : pc'[toServer[k].call] \in {"waiting", "returned"}
    BY <2>1, <2>2 DEF TypeOK, NotYetInv, Requests
  <2>4. \A d \in Calls : Started(d) => pc'[d] \in {"waiting", "returned"}
    BY <2>1 DEF TypeOK, NotYetInv
  <2>5. refusing # None => pc'[refusing.call] \in {"waiting", "returned"}
    BY <2>1 DEF TypeOK, NotYetInv, Requests
  <2>6. hand # None => pc'[hand.to] \notin {"idle", "admitted"}
    BY <2>1 DEF TypeOK, NotYetInv, Delivery
  <2>7. \A d \in Calls : pc'[d] \in {"idle", "admitted"} => chan'[d] = None
    BY <1>5, <2>1 DEF WriteFails, TypeOK, NotYetInv
  <2>8. QED
    BY <1>5, <2>3, <2>4, <2>5, <2>6, <2>7 DEF WriteFails, NotYetInv
<1>6. ASSUME NEW c \in Calls, Receive(c) PROVE NotYetInv'
  <2>1. pc[c] = "waiting" /\ pc' = [pc EXCEPT ![c] = "returned"]
    BY <1>6 DEF Receive, Goto
  <2>2. \A k \in 1 .. Len(toServer) : toServer[k] \in Requests
    BY DEF TypeOK
  <2>3. \A k \in 1 .. Len(toServer) : pc'[toServer[k].call] \in {"waiting", "returned"}
    BY <2>1, <2>2 DEF TypeOK, NotYetInv, Requests
  <2>4. \A d \in Calls : Started(d) => pc'[d] \in {"waiting", "returned"}
    BY <2>1 DEF TypeOK, NotYetInv
  <2>5. refusing # None => pc'[refusing.call] \in {"waiting", "returned"}
    BY <2>1 DEF TypeOK, NotYetInv, Requests
  <2>6. hand # None => pc'[hand.to] \notin {"idle", "admitted"}
    BY <2>1 DEF TypeOK, NotYetInv, Delivery
  <2>7. \A d \in Calls : pc'[d] \in {"idle", "admitted"} => chan'[d] = None
    BY <1>6, <2>1 DEF Receive, TypeOK, NotYetInv
  <2>8. QED
    BY <1>6, <2>3, <2>4, <2>5, <2>6, <2>7 DEF Receive, NotYetInv
<1>7. ASSUME NEW c \in Calls, Cancel(c) PROVE NotYetInv'
  <2>1. pc[c] = "waiting" /\ pc' = [pc EXCEPT ![c] = "returned"]
    BY <1>7 DEF Cancel, Goto
  <2>2. \A k \in 1 .. Len(toServer) : toServer[k] \in Requests
    BY DEF TypeOK
  <2>3. \A k \in 1 .. Len(toServer) : pc'[toServer[k].call] \in {"waiting", "returned"}
    BY <2>1, <2>2 DEF TypeOK, NotYetInv, Requests
  <2>4. \A d \in Calls : Started(d) => pc'[d] \in {"waiting", "returned"}
    BY <2>1 DEF TypeOK, NotYetInv
  <2>5. refusing # None => pc'[refusing.call] \in {"waiting", "returned"}
    BY <2>1 DEF TypeOK, NotYetInv, Requests
  <2>6. hand # None => pc'[hand.to] \notin {"idle", "admitted"}
    BY <2>1 DEF TypeOK, NotYetInv, Delivery
  <2>7. \A d \in Calls : pc'[d] \in {"idle", "admitted"} => chan'[d] = None
    BY <1>7, <2>1 DEF Cancel, TypeOK, NotYetInv
  <2>8. QED
    BY <1>7, <2>3, <2>4, <2>5, <2>6, <2>7 DEF Cancel, NotYetInv
<1>8. ASSUME ReadResponse PROVE NotYetInv'
  <2>1. hand' # None => \E r \in pending : hand'.to = r.call
    BY <1>8, Taken DEF ReadResponse
  <2>2. hand' # None => pc[hand'.to] \notin {"idle", "admitted"}
    BY <2>1 DEF NoLeak
  <2>3. QED
    BY <1>8, <2>2 DEF ReadResponse, NotYetInv
<1>9. ASSUME Deliver PROVE NotYetInv'
  <2>1. hand \in Delivery /\ pc[hand.to] \notin {"idle", "admitted"}
    BY <1>9 DEF Deliver, TypeOK, NotYetInv
  <2>2. \A d \in Calls : chan'[d] # chan[d] => d = hand.to
    BY <1>9 DEF Deliver, TypeOK
  <2>3. \A d \in Calls : pc'[d] \in {"idle", "admitted"} => chan'[d] = None
    BY <1>9, <2>1, <2>2 DEF Deliver, NotYetInv
  <2>4. QED
    BY <1>9, <2>3 DEF Deliver, NotYetInv
<1>10. ASSUME ReadFails PROVE NotYetInv'
  <2>1. \A d \in Calls : chan'[d] # chan[d] => \E r \in pending : r.call = d
    BY <1>10 DEF ReadFails, FailPending, TypeOK
  <2>2. \A d \in Calls : pc'[d] \in {"idle", "admitted"} => chan'[d] = None
    BY <1>10, <2>1 DEF ReadFails, NotYetInv, NoLeak
  <2>3. QED
    BY <1>10, <2>2 DEF ReadFails, NotYetInv
<1>11. ASSUME Close PROVE NotYetInv'
  BY <1>11 DEF Close, Goto, Returns, Forget, TypeOK, NotYetInv
<1>12. ASSUME CloseReturns PROVE NotYetInv'
  BY <1>12 DEF CloseReturns, Goto, Returns, Forget, TypeOK, NotYetInv
<1>13. ASSUME ServerReads PROVE NotYetInv'
  <2>1. /\ Head(toServer) = toServer[1] /\ Len(toServer) \in Nat \ {0}
        /\ Len(toServer') = Len(toServer) - 1
        /\ \A k \in 1 .. Len(toServer) - 1 : toServer'[k] = toServer[k + 1]
    BY <1>13, Taken DEF ServerReads, TypeOK
  <2>2. \A k \in 1 .. Len(toServer) : toServer[k] \in Requests
    BY DEF TypeOK
  <2>3. \A k \in 1 .. Len(toServer') :
          /\ pc[toServer'[k].call] \in {"waiting", "returned"}
          /\ ~Started(toServer'[k].call)
          /\ toServer'[k].call # Head(toServer).call
          /\ \A l \in 1 .. Len(toServer') : toServer'[k].call = toServer'[l].call => k = l
    <3>1. ASSUME NEW k \in 1 .. Len(toServer')
          PROVE  k + 1 \in 1 .. Len(toServer) /\ toServer'[k] = toServer[k + 1] /\ k + 1 # 1
      BY <2>1
    <3>2. 1 \in 1 .. Len(toServer)
      BY <2>1
    <3>3. ASSUME NEW k \in 1 .. Len(toServer')
          PROVE  /\ pc[toServer'[k].call] \in {"waiting", "returned"}
                 /\ ~Started(toServer'[k].call)
                 /\ toServer'[k].call # Head(toServer).call
      BY <2>1, <3>1, <3>2 DEF NotYetInv
    <3>4. ASSUME NEW k \in 1 .. Len(toServer'), NEW l \in 1 .. Len(toServer'),
                 toServer'[k].call = toServer'[l].call
          PROVE  k = l
      <4>1. /\ k + 1 \in 1 .. Len(toServer) /\ toServer'[k] = toServer[k + 1]
            /\ l + 1 \in 1 .. Len(toServer) /\ toServer'[l] = toServer[l + 1]
        BY <3>1
      <4>2. toServer[k + 1].call = toServer[l + 1].call
        BY <3>4, <4>1
      <4>3. \A i, j \in 1 .. Len(toServer) : toServer[i].call = toServer[j].call => i = j
        BY DEF NotYetInv
      <4>4. k + 1 = l + 1
        BY <4>1, <4>2, <4>3
      <4>5. k \in Int /\ l \in Int
        OBVIOUS
      <4>6. QED
        BY <4>4, <4>5
    <3>5. QED
      BY <3>3, <3>4
  <2>4. /\ Head(toServer) \in Requests
        /\ pc[Head(toServer).call] \in {"waiting", "returned"}
    BY <2>1, <2>2 DEF NotYetInv
  <2>5. \A d \in Calls : executed'[d] # 0 => executed[d] # 0 \/ d = Head(toServer).call
    BY <1>13, <2>4 DEF ServerReads, TypeOK, Requests
  <2>6. refusing' = Head(toServer) \/ refusing' = refusing
    BY <1>13 DEF ServerReads
  <2>7. pc' = pc /\ chan' = chan /\ hand' = hand
    BY <1>13 DEF ServerReads
  <2>8. \A k \in 1 .. Len(toServer') : executed'[toServer'[k].call] = 0
    BY <2>1, <2>2, <2>3, <2>5 DEF Requests
  <2>9. \A d \in Calls : executed'[d] # 0 => pc[d] \in {"waiting", "returned"}
    BY <2>4, <2>5 DEF NotYetInv
  <2>10. refusing' # None => pc[refusing'.call] \in {"waiting", "returned"}
    BY <2>4, <2>6 DEF NotYetInv
  <2>11. QED
    BY <2>3, <2>7, <2>8, <2>9, <2>10 DEF NotYetInv
<1>14. ASSUME Refuse PROVE NotYetInv'
  BY <1>14 DEF Refuse, Goto, Returns, Forget, TypeOK, NotYetInv
<1>15. ASSUME NEW r \in running, Respond(r) PROVE NotYetInv'
  BY <1>15 DEF Respond, Goto, Returns, Forget, TypeOK, NotYetInv
<1>16. ASSUME Drain PROVE NotYetInv'
  BY <1>16 DEF Drain, Goto, Returns, Forget, TypeOK, NotYetInv
<1>17. ASSUME PeerClose PROVE NotYetInv'
  BY <1>17 DEF PeerClose, NotYetInv
<1>18. ASSUME UNCHANGED vars PROVE NotYetInv'
  BY <1>18 DEF vars, TypeOK, NotYetInv
<1>19. ASSUME Quiet PROVE NotYetInv'
  BY <1>18, <1>19 DEF Quiet, vars
<1>20. QED
  BY <1>1, <1>2, <1>3, <1>4, <1>5, <1>6, <1>7, <1>8, <1>9, <1>10, <1>11, <1>12, <1>13, <1>14, <1>15, <1>16, <1>17, <1>18, <1>19
     DEF Next, CallStep, ReaderStep

(* Results stay with the execution they are of.                            *)
LEMMA ResultStep == TypeOK /\ IdInv /\ NotYetInv /\ ResultInv /\ NoLeak /\ [Next]_vars => ResultInv'
<1> SUFFICES ASSUME TypeOK, IdInv, NotYetInv, ResultInv, NoLeak, [Next]_vars PROVE ResultInv'
  OBVIOUS
<1> USE DEF callVars, tableVars, readerVars, closeVars, serverVars, wires, Started
<1>1. ASSUME NEW c \in Calls, CallOnClosed(c) PROVE ResultInv'
  BY <1>1 DEF CallOnClosed, Goto, Returns, Forget, TypeOK, ResultInv, OwnResult
<1>2. ASSUME NEW c \in Calls, Begin(c) PROVE ResultInv'
  <2>1. ~Started(c) /\ \A d \in Calls : Started(d) => id'[d] = id[d]
    BY <1>2 DEF Begin, Goto, TypeOK, NotYetInv
  <2>2. \A d \in Calls : OwnResult(d, chan[d])'
    BY <1>2 DEF Begin, ResultInv, OwnResult
  <2>3. QED
    BY <1>2, <2>1, <2>2 DEF Begin, ResultInv, OwnResult
<1>3. ASSUME NEW c \in Calls, Register(c) PROVE ResultInv'
  BY <1>3 DEF Register, Goto, Returns, Forget, TypeOK, ResultInv, OwnResult
<1>4. ASSUME NEW c \in Calls, WriteRequest(c) PROVE ResultInv'
  BY <1>4 DEF WriteRequest, Goto, Returns, Forget, TypeOK, ResultInv, OwnResult
<1>5. ASSUME NEW c \in Calls, WriteFails(c) PROVE ResultInv'
  BY <1>5 DEF WriteFails, Goto, Returns, Forget, TypeOK, ResultInv, OwnResult
<1>6. ASSUME NEW c \in Calls, Receive(c) PROVE ResultInv'
  <2>1. \A d \in Calls : chan'[d] = chan[d] \/ chan'[d] = None
    BY <1>6 DEF Receive, TypeOK
  <2>2. QED
    BY <1>6, <2>1, ClientAssumption DEF Receive, Goto, Returns, ResultInv, OwnResult, ClientAssumption
<1>7. ASSUME NEW c \in Calls, Cancel(c) PROVE ResultInv'
  BY <1>7 DEF Cancel, Goto, Returns, Forget, TypeOK, ResultInv, OwnResult
<1>8. ASSUME ReadResponse PROVE ResultInv'
  <2> DEFINE m == Head(toClient)
  <2>1. /\ m = toClient[1] /\ Len(toClient) \in Nat \ {0} /\ m \in Responses
        /\ Len(toClient') = Len(toClient) - 1
        /\ \A k \in 1 .. Len(toClient) - 1 : toClient'[k] = toClient[k + 1]
    BY <1>8, Taken DEF ReadResponse, TypeOK
  <2>2. m.body \in Calls => Started(m.body) /\ id[m.body] = m.id
    BY <2>1 DEF ResultInv
  <2>3. hand' # None => \E r \in pending : /\ r.id = m.id
                                            /\ hand' = [to |-> r.call, body |-> m.body]
    BY <1>8 DEF ReadResponse
  <2>4. hand' # None => OwnResult(hand'.to, hand'.body)
    <3> SUFFICES ASSUME hand' # None, hand'.body \in Calls
                 PROVE  hand'.body = hand'.to /\ Started(hand'.body)
      BY DEF OwnResult
    <3>1. PICK r \in pending : r.id = m.id /\ hand' = [to |-> r.call, body |-> m.body]
      BY <2>3
    <3>2. r \in Requests /\ id[r.call] = r.id
      BY DEF TypeOK, NoLeak
    <3>3. r.call \in Calls /\ r.id # 0
      BY <3>2 DEF Requests, Ids
    <3>4. Started(m.body) /\ id[m.body] = id[r.call]
      BY <2>2, <3>1, <3>2
    <3>5. QED
      BY <3>1, <3>2, <3>3, <3>4 DEF IdInv
  <2>5. \A k \in 1 .. Len(toClient') :
          toClient'[k].body \in Calls =>
              /\ Started(toClient'[k].body)
              /\ id[toClient'[k].body] = toClient'[k].id
    BY <2>1 DEF ResultInv
  <2>6. UNCHANGED <<chan, running, executed, id>>
    BY <1>8 DEF ReadResponse
  <2>7. QED
    BY <2>4, <2>5, <2>6 DEF ResultInv, OwnResult
<1>9. ASSUME Deliver PROVE ResultInv'
  <2>1. \A d \in Calls : chan'[d] = chan[d] \/ (d = hand.to /\ chan'[d] = hand.body)
    BY <1>9 DEF Deliver, TypeOK
  <2>2. \A d \in Calls : OwnResult(d, chan'[d])
    BY <1>9, <2>1 DEF Deliver, ResultInv
  <2>3. QED
    BY <1>9, <2>2 DEF Deliver, ResultInv, OwnResult
<1>10. ASSUME ReadFails PROVE ResultInv'
  <2>1. \A d \in Calls : chan'[d] = chan[d] \/ chan'[d] = "unavailable"
    BY <1>10 DEF ReadFails, FailPending, TypeOK
  <2>2. "unavailable" \notin Calls
    BY ClientAssumption DEF ClientAssumption, Errors
  <2>3. \A d \in Calls : OwnResult(d, chan'[d])
    BY <2>1, <2>2 DEF ResultInv, OwnResult
  <2>4. QED
    BY <1>10, <2>3 DEF ReadFails, ResultInv, OwnResult
<1>11. ASSUME Close PROVE ResultInv'
  BY <1>11 DEF Close, Goto, Returns, Forget, TypeOK, ResultInv, OwnResult
<1>12. ASSUME CloseReturns PROVE ResultInv'
  BY <1>12 DEF CloseReturns, Goto, Returns, Forget, TypeOK, ResultInv, OwnResult
<1>13. ASSUME ServerReads PROVE ResultInv'
  <2>0. Head(toServer) \in Requests
    BY <1>13, Taken DEF ServerReads, TypeOK
  <2>1. \/ running' = running /\ executed' = executed
        \/ /\ running' = running \cup {Head(toServer)}
           /\ executed' = [executed EXCEPT ![Head(toServer).call] = @ + 1]
    BY <1>13 DEF ServerReads
  <2>a. /\ \A d \in Calls : executed[d] # 0 => executed'[d] # 0
        /\ running' # running => executed'[Head(toServer).call] # 0
    BY <2>0, <2>1 DEF TypeOK, Requests
  <2>2. \A r \in running' : executed'[r.call] # 0
    BY <2>1, <2>a DEF ResultInv, TypeOK, Requests
  <2>3. UNCHANGED <<chan, hand, id, toClient>>
    BY <1>13 DEF ServerReads
  <2>4. QED
    BY <2>a, <2>2, <2>3 DEF ResultInv, OwnResult
<1>14. ASSUME Refuse PROVE ResultInv'
  <2> DEFINE m == [id |-> refusing.id, body |-> "refused", big |-> FALSE]
  <2>1. m \in Responses
    BY <1>14 DEF TypeOK, Requests, Responses, Refuse
  <2>2. \/ toClient' = toClient
        \/ /\ Len(toClient') = Len(toClient) + 1 /\ Len(toClient) \in Nat
           /\ \A k \in 1 .. Len(toClient) + 1 :
                toClient'[k] = IF k = Len(toClient) + 1 THEN m ELSE toClient[k]
    <3>1. toClient' = toClient \/ toClient' = Append(toClient, m)
      BY <1>14 DEF Refuse, ServerWrites
    <3>2. toClient \in Seq(Responses)
      BY DEF TypeOK
    <3> HIDE DEF m
    <3>3. /\ Len(Append(toClient, m)) = Len(toClient) + 1 /\ Len(toClient) \in Nat
          /\ \A k \in 1 .. Len(toClient) + 1 :
               Append(toClient, m)[k] = IF k = Len(toClient) + 1 THEN m ELSE toClient[k]
      BY <2>1, <3>2, Written
    <3>4. QED
      BY <3>1, <3>3
  <2>3. m.body \notin Calls
    BY ClientAssumption DEF ClientAssumption, Errors
  <2>4. UNCHANGED <<chan, hand, id, running, executed>>
    BY <1>14 DEF Refuse
  <2> HIDE DEF m
  <2>5. \A k \in 1 .. Len(toClient') :
          toClient'[k].body \in Calls =>
              /\ Started(toClient'[k].body)
              /\ id[toClient'[k].body] = toClient'[k].id
    BY <2>2, <2>3 DEF ResultInv
  <2>6. QED
    BY <2>4, <2>5 DEF ResultInv, OwnResult
<1>15. ASSUME NEW r \in running, Respond(r) PROVE ResultInv'
  <2>1. PICK big \in BOOLEAN : ServerWrites(r.id, r.call, big)
    BY <1>15 DEF Respond
  <2> DEFINE m == [id |-> r.id, body |-> r.call, big |-> big]
  <2>2. m \in Responses
    BY DEF TypeOK, Requests, Responses
  <2>3. \/ toClient' = toClient
        \/ /\ Len(toClient') = Len(toClient) + 1 /\ Len(toClient) \in Nat
           /\ \A k \in 1 .. Len(toClient) + 1 :
                toClient'[k] = IF k = Len(toClient) + 1 THEN m ELSE toClient[k]
    <3>1. toClient' = toClient \/ toClient' = Append(toClient, m)
      BY <2>1 DEF ServerWrites
    <3>2. toClient \in Seq(Responses)
      BY DEF TypeOK
    <3> HIDE DEF m
    <3>3. /\ Len(Append(toClient, m)) = Len(toClient) + 1 /\ Len(toClient) \in Nat
          /\ \A k \in 1 .. Len(toClient) + 1 :
               Append(toClient, m)[k] = IF k = Len(toClient) + 1 THEN m ELSE toClient[k]
      BY <2>2, <3>2, Written
    <3>4. QED
      BY <3>1, <3>3
  <2>4. Started(m.body) /\ id[m.body] = m.id
    BY DEF ResultInv, IdInv
  <2>5. UNCHANGED <<chan, hand, id, executed>> /\ running' \subseteq running
    BY <1>15 DEF Respond
  <2> HIDE DEF m
  <2>6. \A k \in 1 .. Len(toClient') :
          toClient'[k].body \in Calls =>
              /\ Started(toClient'[k].body)
              /\ id[toClient'[k].body] = toClient'[k].id
    BY <2>3, <2>4 DEF ResultInv
  <2>7. QED
    BY <2>5, <2>6 DEF ResultInv, OwnResult
<1>16. ASSUME Drain PROVE ResultInv'
  BY <1>16 DEF Drain, Goto, Returns, Forget, TypeOK, ResultInv, OwnResult
<1>17. ASSUME PeerClose PROVE ResultInv'
  BY <1>17 DEF PeerClose, Goto, Returns, Forget, TypeOK, ResultInv, OwnResult
<1>18. ASSUME UNCHANGED vars PROVE ResultInv'
  BY <1>18 DEF vars, TypeOK, ResultInv, OwnResult
<1>19. ASSUME Quiet PROVE ResultInv'
  BY <1>18, <1>19 DEF Quiet, vars
<1>20. QED
  BY <1>1, <1>2, <1>3, <1>4, <1>5, <1>6, <1>7, <1>8, <1>9, <1>10, <1>11, <1>12, <1>13, <1>14, <1>15, <1>16, <1>17, <1>18, <1>19
     DEF Next, CallStep, ReaderStep

(* The table of pending calls and the channels.                            *)
LEMMA TableStep == TypeOK /\ IdInv /\ NotYetInv /\ NoLeak /\ ReaderNeverBlocks /\ [Next]_vars => (NoLeak /\ ReaderNeverBlocks)'
<1> SUFFICES ASSUME TypeOK, IdInv, NotYetInv, NoLeak, ReaderNeverBlocks, [Next]_vars PROVE (NoLeak /\ ReaderNeverBlocks)'
  OBVIOUS
<1> USE DEF callVars, tableVars, readerVars, closeVars, serverVars, wires
<1>1. ASSUME NEW c \in Calls, CallOnClosed(c) PROVE (NoLeak /\ ReaderNeverBlocks)'
  <2>1. \A r \in pending : r.call \in Calls
    BY DEF TypeOK, Requests
  <2>2. hand # None => hand.to \in Calls
    BY DEF TypeOK, Delivery
  <2>3. QED
    BY <1>1, <2>1, <2>2 DEF CallOnClosed, Goto, Returns, Forget, TypeOK, NoLeak, ReaderNeverBlocks
<1>2. ASSUME NEW c \in Calls, Begin(c) PROVE (NoLeak /\ ReaderNeverBlocks)'
  <2>1. /\ pc[c] = "idle" /\ pc' = [pc EXCEPT ![c] = "admitted"]
        /\ id' = [id EXCEPT ![c] = nextID + 1]
        /\ UNCHANGED <<pending, chan, hand>>
    BY <1>2 DEF Begin, Goto
  <2>2. \A r \in pending : r.call \in Calls /\ r.call # c
    BY <2>1 DEF TypeOK, Requests, NoLeak
  <2>3. QED
    BY <2>1, <2>2 DEF TypeOK, NoLeak, ReaderNeverBlocks
<1>3. ASSUME NEW c \in Calls, Register(c) PROVE (NoLeak /\ ReaderNeverBlocks)'
  <2>1. /\ pc[c] = "admitted" /\ pc' = [pc EXCEPT ![c] = "registered"]
        /\ UNCHANGED <<id, chan, hand>>
    BY <1>3 DEF Register, Goto
  <2>2. \A r \in pending' : (r.call = c /\ r.id = id[c]) \/ r \in pending
    BY <1>3 DEF Register
  <2>3. chan[c] = None /\ (hand # None => hand.to # c)
    BY <2>1 DEF NotYetInv
  <2>4. \A r \in pending : r.call \in Calls
    BY DEF TypeOK, Requests
  <2>5. QED
    BY <2>1, <2>2, <2>3, <2>4 DEF TypeOK, NoLeak, ReaderNeverBlocks
<1>4. ASSUME NEW c \in Calls, WriteRequest(c) PROVE (NoLeak /\ ReaderNeverBlocks)'
  <2>1. \A r \in pending : r.call \in Calls
    BY DEF TypeOK, Requests
  <2>2. hand # None => hand.to \in Calls
    BY DEF TypeOK, Delivery
  <2>3. QED
    BY <1>4, <2>1, <2>2 DEF WriteRequest, Goto, Returns, Forget, TypeOK, NoLeak, ReaderNeverBlocks
<1>5. ASSUME NEW c \in Calls, WriteFails(c) PROVE (NoLeak /\ ReaderNeverBlocks)'
  <2>1. \A r \in pending : r.call \in Calls
    BY DEF TypeOK, Requests
  <2>2. hand # None => hand.to \in Calls
    BY DEF TypeOK, Delivery
  <2>3. QED
    BY <1>5, <2>1, <2>2 DEF WriteFails, Goto, Returns, Forget, TypeOK, NoLeak, ReaderNeverBlocks
<1>6. ASSUME NEW c \in Calls, Receive(c) PROVE (NoLeak /\ ReaderNeverBlocks)'
  <2>1. \A r \in pending : r.call \in Calls
    BY DEF TypeOK, Requests
  <2>2. hand # None => hand.to \in Calls
    BY DEF TypeOK, Delivery
  <2>3. QED
    BY <1>6, <2>1, <2>2 DEF Receive, Goto, Returns, Forget, TypeOK, NoLeak, ReaderNeverBlocks
<1>7. ASSUME NEW c \in Calls, Cancel(c) PROVE (NoLeak /\ ReaderNeverBlocks)'
  <2>1. \A r \in pending : r.call \in Calls
    BY DEF TypeOK, Requests
  <2>2. hand # None => hand.to \in Calls
    BY DEF TypeOK, Delivery
  <2>3. QED
    BY <1>7, <2>1, <2>2 DEF Cancel, Goto, Returns, Forget, TypeOK, NoLeak, ReaderNeverBlocks
<1>8. ASSUME ReadResponse PROVE (NoLeak /\ ReaderNeverBlocks)'
  <2>1. PICK i : /\ pending' = {r \in pending : r.id # i}
                 /\ hand' # None => \E r \in pending : r.id = i /\ hand'.to = r.call
    <3>1. pending' = {r \in pending : r.id # Head(toClient).id}
      BY <1>8 DEF ReadResponse
    <3>2. hand' # None => \E r \in pending : r.id = Head(toClient).id /\ hand'.to = r.call
      BY <1>8 DEF ReadResponse
    <3>3. QED
      BY <3>1, <3>2
  <2>2. UNCHANGED <<pc, id, chan>>
    BY <1>8 DEF ReadResponse
  <2>3. NoLeak'
    BY <2>1, <2>2 DEF NoLeak
  <2>4. hand' # None => chan[hand'.to] = None /\ \A r \in pending' : hand'.to # r.call
    BY <2>1 DEF NoLeak, ReaderNeverBlocks
  <2>5. QED
    BY <2>1, <2>2, <2>3, <2>4 DEF ReaderNeverBlocks
<1>9. ASSUME Deliver PROVE (NoLeak /\ ReaderNeverBlocks)'
  <2>1. \A r \in pending : r.call \in Calls /\ r.call # hand.to
    BY <1>9 DEF Deliver, TypeOK, Requests, ReaderNeverBlocks
  <2>2. QED
    BY <1>9, <2>1 DEF Deliver, TypeOK, NoLeak, ReaderNeverBlocks
<1>10. ASSUME ReadFails PROVE (NoLeak /\ ReaderNeverBlocks)'
  BY <1>10 DEF ReadFails, NoLeak, ReaderNeverBlocks
<1>11. ASSUME Close PROVE (NoLeak /\ ReaderNeverBlocks)'
  BY <1>11 DEF Close, Goto, Returns, Forget, NoLeak, ReaderNeverBlocks
<1>12. ASSUME CloseReturns PROVE (NoLeak /\ ReaderNeverBlocks)'
  BY <1>12 DEF CloseReturns, Goto, Returns, Forget, NoLeak, ReaderNeverBlocks
<1>13. ASSUME ServerReads PROVE (NoLeak /\ ReaderNeverBlocks)'
  BY <1>13 DEF ServerReads, Goto, Returns, Forget, NoLeak, ReaderNeverBlocks
<1>14. ASSUME Refuse PROVE (NoLeak /\ ReaderNeverBlocks)'
  BY <1>14 DEF Refuse, Goto, Returns, Forget, NoLeak, ReaderNeverBlocks
<1>15. ASSUME NEW r \in running, Respond(r) PROVE (NoLeak /\ ReaderNeverBlocks)'
  BY <1>15 DEF Respond, Goto, Returns, Forget, NoLeak, ReaderNeverBlocks
<1>16. ASSUME Drain PROVE (NoLeak /\ ReaderNeverBlocks)'
  BY <1>16 DEF Drain, Goto, Returns, Forget, NoLeak, ReaderNeverBlocks
<1>17. ASSUME PeerClose PROVE (NoLeak /\ ReaderNeverBlocks)'
  BY <1>17 DEF PeerClose, NoLeak, ReaderNeverBlocks
<1>18. ASSUME UNCHANGED vars PROVE (NoLeak /\ ReaderNeverBlocks)'
  BY <1>18 DEF vars, NoLeak, ReaderNeverBlocks
<1>19. ASSUME Quiet PROVE (NoLeak /\ ReaderNeverBlocks)'
  BY <1>18, <1>19 DEF Quiet, vars
<1>20. QED
  BY <1>1, <1>2, <1>3, <1>4, <1>5, <1>6, <1>7, <1>8, <1>9, <1>10, <1>11, <1>12, <1>13, <1>14, <1>15, <1>16, <1>17, <1>18, <1>19
     DEF Next, CallStep, ReaderStep

----------------------------------------------------------------------------
(* The theorems.                                                           *)

IInv == TypeOK /\ IdInv /\ NotYetInv /\ ResultInv /\ NoLeak /\ ReaderNeverBlocks

LEMMA InvInit == Init => IInv
<1> SUFFICES ASSUME Init PROVE IInv
  OBVIOUS
<1> USE DEF Init
<1>1. TypeOK
  BY EmptySeq DEF TypeOK
<1>2. IdInv /\ NotYetInv /\ NoLeak /\ ReaderNeverBlocks
  BY DEF IdInv, NotYetInv, Started, NoLeak, ReaderNeverBlocks
<1>3. ResultInv
  BY ClientAssumption DEF ResultInv, OwnResult, Started, ClientAssumption
<1>4. QED
  BY <1>1, <1>2, <1>3 DEF IInv

LEMMA InvStep == IInv /\ [Next]_vars => IInv'
  BY TypeStep, IdStep, NotYetStep, ResultStep, TableStep DEF IInv

LEMMA Invariance == Spec => []IInv
  BY InvInit, InvStep, PTL DEF Spec

\* Every variable of the client keeps its type (bus_client.go).
THEOREM TypeCorrect == Spec => []TypeOK
<1>1. IInv => TypeOK
  BY DEF IInv
<1>2. QED
  BY <1>1, Invariance, PTL

\* readLoop and failAllPending never wait for a caller, so that a call that has
\* given up cannot stall the others (bus_client.go, readLoop).
THEOREM ReaderFree == Spec => []ReaderNeverBlocks
<1>1. IInv => ReaderNeverBlocks
  BY DEF IInv
<1>2. QED
  BY <1>1, Invariance, PTL

\* The table of pending calls never holds an entry of a call that has returned
\* (bus_client.go, Call).
THEOREM TableExact == Spec => []NoLeak
<1>1. IInv => NoLeak
  BY DEF IInv
<1>2. QED
  BY <1>1, Invariance, PTL

\* Both: the table is exact and delivering from it never waits.
THEOREM TableIsSound == Spec => []TableSound
  BY ReaderFree, TableExact, PTL DEF TableSound

----------------------------------------------------------------------------
(* Refinement.                                                             *)

(* A step that moves one call changes the mapped state of that call alone. *)
LEMMA Moves ==
  ASSUME TypeOK, NEW c \in Calls, NEW from, NEW to, Goto(c, from, to)
  PROVE  /\ from \notin {"idle", "returned"} /\ to \notin {"idle", "returned"}
              => Progress' = Progress
         /\ to \notin {"idle", "returned"} =>
              Progress' = [Progress EXCEPT ![c] = "open"]
         /\ to = "returned" => Progress' = [Progress EXCEPT ![c] = "returned"]
         /\ from = "idle" => Progress[c] = "idle"
         /\ from # "returned" => Progress[c] # "returned"
         /\ from \notin {"idle", "returned"} => Progress[c] = "open"
  BY DEF TypeOK, Goto, Progress

LEMMA Answers ==
  ASSUME TypeOK, NEW c \in Calls, NEW a, Returns(c, a)
  PROVE  /\ a \in Errors => Outcome' = [Outcome EXCEPT ![c] = "error"]
         /\ a \notin Errors => Outcome' = [Outcome EXCEPT ![c] = a]
  BY DEF TypeOK, Returns, Outcome

LEMMA RefineInit == Init => Rpc!Init
  BY ClientAssumption DEF Init, Rpc!Init, Progress, Outcome, ClientAssumption

LEMMA RefineStep == IInv /\ [Next]_vars => [Rpc!Next]_(Rpc!vars)
<1> SUFFICES ASSUME IInv, [Next]_vars PROVE [Rpc!Next]_(Rpc!vars)
  OBVIOUS
<1> USE DEF IInv, callVars, tableVars, readerVars, closeVars, serverVars, wires
<1> DEFINE Fails(c) == /\ Progress[c] # "returned"
                       /\ Progress' = [Progress EXCEPT ![c] = "returned"]
                       /\ Outcome' = [Outcome EXCEPT ![c] = "error"]
                       /\ executed' = executed
<1>a. ASSUME NEW c \in Calls, Fails(c) PROVE Rpc!Next
  BY <1>a DEF Rpc!Next, Rpc!Fail
<1>b. ASSUME Progress' = Progress, Outcome' = Outcome, executed' = executed
      PROVE  UNCHANGED Rpc!vars
  BY <1>b DEF Rpc!vars
<1>c. ASSUME UNCHANGED <<pc, answer, executed>> PROVE UNCHANGED Rpc!vars
  BY <1>c DEF Rpc!vars, Progress, Outcome
<1>1. ASSUME NEW c \in Calls, CallOnClosed(c) PROVE Rpc!Next
  <2>1. Goto(c, "idle", "returned") /\ Returns(c, "gone") /\ executed' = executed
    BY <1>1 DEF CallOnClosed
  <2>2. QED
    BY <2>1, <1>a, Moves, Answers DEF Errors
<1>2. ASSUME NEW c \in Calls, Begin(c) PROVE Rpc!Next
  <2>1. Goto(c, "idle", "admitted") /\ answer' = answer /\ executed' = executed
    BY <1>2 DEF Begin
  <2>2. Progress[c] = "idle" /\ Progress' = [Progress EXCEPT ![c] = "open"]
    BY <2>1, Moves
  <2>3. Outcome' = Outcome
    BY <2>1 DEF Outcome
  <2>4. QED
    BY <2>1, <2>2, <2>3 DEF Rpc!Next, Rpc!Begin
<1>3. ASSUME NEW c \in Calls, Register(c) PROVE UNCHANGED Rpc!vars
  <2>1. Goto(c, "admitted", "registered") /\ answer' = answer /\ executed' = executed
    BY <1>3 DEF Register
  <2>2. QED
    BY <2>1, <1>b, Moves DEF Outcome
<1>4. ASSUME NEW c \in Calls, WriteRequest(c) PROVE UNCHANGED Rpc!vars
  <2>1. Goto(c, "registered", "waiting") /\ answer' = answer /\ executed' = executed
    BY <1>4 DEF WriteRequest
  <2>2. QED
    BY <2>1, <1>b, Moves DEF Outcome
<1>5. ASSUME NEW c \in Calls, WriteFails(c) PROVE Rpc!Next
  <2>1. Goto(c, "registered", "returned") /\ Returns(c, "write") /\ executed' = executed
    BY <1>5 DEF WriteFails
  <2>2. QED
    BY <2>1, <1>a, Moves, Answers DEF Errors
<1>6. ASSUME NEW c \in Calls, Cancel(c) PROVE Rpc!Next
  <2>1. Goto(c, "waiting", "returned") /\ Returns(c, "ctx") /\ executed' = executed
    BY <1>6 DEF Cancel
  <2>2. QED
    BY <2>1, <1>a, Moves, Answers DEF Errors
<1>7. ASSUME NEW c \in Calls, Receive(c) PROVE Rpc!Next
  <2>1. /\ Goto(c, "waiting", "returned") /\ Returns(c, chan[c])
        /\ executed' = executed /\ chan[c] # None
    BY <1>7 DEF Receive
  <2>2. CASE chan[c] \in Errors
    BY <2>1, <2>2, <1>a, Moves, Answers
  <2>3. CASE chan[c] \notin Errors
    <3>1. chan[c] = c /\ executed[c] # 0
      BY <2>1, <2>3 DEF TypeOK, ResultInv, OwnResult, Started
    <3>2. Outcome' = [Outcome EXCEPT ![c] = c]
      BY <2>1, <2>3, <3>1, Answers
    <3>3. Progress[c] = "open" /\ Progress' = [Progress EXCEPT ![c] = "returned"]
      BY <2>1, Moves
    <3>4. QED
      BY <2>1, <3>1, <3>2, <3>3 DEF Rpc!Next, Rpc!Return
  <2>4. QED
    BY <2>2, <2>3
<1>8. ASSUME ServerReads PROVE Rpc!Next \/ UNCHANGED Rpc!vars
  <2> DEFINE c == Head(toServer).call
  <2>1. pc' = pc /\ answer' = answer
    BY <1>8 DEF ServerReads
  <2>2. executed' = executed \/ executed' = [executed EXCEPT ![c] = @ + 1]
    BY <1>8 DEF ServerReads
  <2>3. Progress' = Progress /\ Outcome' = Outcome
    BY <2>1 DEF Progress, Outcome
  <2>4. /\ Head(toServer) \in Requests /\ Head(toServer) = toServer[1]
        /\ 1 \in 1 .. Len(toServer)
    BY <1>8, Taken DEF ServerReads, TypeOK
  <2>5. c \in Calls /\ executed[c] = 0 /\ Progress[c] # "idle"
    BY <2>4 DEF NotYetInv, Requests, Progress, Started
  <2> HIDE DEF c
  <2>6. QED
    BY <2>2, <2>3, <2>5, <1>b DEF Rpc!Next, Rpc!Execute, TypeOK
<1>9. ASSUME ReadResponse \/ Deliver \/ ReadFails \/ Close \/ CloseReturns
             \/ Refuse \/ Drain \/ PeerClose \/ (\E r \in running : Respond(r))
             \/ Quiet \/ UNCHANGED vars
      PROVE  UNCHANGED Rpc!vars
  <2>1. UNCHANGED <<pc, answer, executed>>
    BY <1>9 DEF ReadResponse, Deliver, ReadFails, Close, CloseReturns, Refuse, Drain,
                PeerClose, Respond, Quiet, vars
  <2>2. QED
    BY <2>1, <1>c
<1>10. QED
  BY <1>1, <1>2, <1>3, <1>4, <1>5, <1>6, <1>7, <1>8, <1>9 DEF Next, CallStep, ReaderStep

\* The client implements RpcCalls: every call returns at most once, with the
\* result of its own single execution or with an error (bus_client.go, Call and
\* readLoop; bus_server.go, verbLoop and dispatch).
THEOREM Refinement == Spec => ImplementsRpc
<1>1. Spec => Rpc!Init
  BY RefineInit DEF Spec
<1>2. Spec => [][Rpc!Next]_(Rpc!vars)
  BY Invariance, RefineStep, PTL DEF Spec
<1>3. QED
  BY <1>1, <1>2 DEF ImplementsRpc, Rpc!Spec

=============================================================================

-------------------------------- MODULE HarConn -------------------------------
(***************************************************************************)
(* The HAR transport (harConn): one file per JSON-RPC call of either       *)
(* direction, a REQUEST block and the RESPONSE that a table of pending     *)
(* records finds for it.  One reader handles what comes in; requests and   *)
(* responses go out from any number of goroutines; Close may come at any   *)
(* time; other processes prune the directory when they connect.            *)
(*                                                                         *)
(* A message is named after its call; the key of an ID is the text that    *)
(* idString makes of it.  Failures of the file system, which appendBlock   *)
(* swallows, are not modelled.                                             *)
(***************************************************************************)
EXTENDS Integers, FiniteSets, Sequences, Functions

CONSTANTS
    Calls,       \* calls and notifications that cross the connection
    Side,        \* "in": from the peer, "out": to the peer
    Id,          \* the jsonrpc.ID of a call; NoCall: a notification
    MaxFiles,    \* files a prune leaves
    MaxPrunes,   \* bound on the connects of other processes
    NoCall

Keys == {Id[c].val : c \in {d \in Calls : Id[d] # NoCall}}

ASSUME HarAssumption ==
    /\ Side \in [Calls -> {"in", "out"}]
    /\ \A c \in Calls : Id[c] # NoCall => Id[c].type \in {"int", "string"}
    /\ MaxFiles \in Nat \ {0} /\ MaxPrunes \in Nat
    /\ Calls \cap {NoCall, "request", "closed"} = {}

VARIABLES
    stage,      \* how far a call is
    rec,        \* the record closeRecord has taken out of the table
    pending,    \* the table, by key
    closed,     \* Close has set the table to nil and closed the delegate
    reader,     \* the call whose message the reader is recording
    text,       \* the blocks of a file
    later,      \* the files whose last change came after that of a file
    prunes,     \* prunes so far
    panicked,   \* the process has died in a write to the nil table
    clashed,    \* history: calls that shared a key while both were pending
    pruned      \* history: calls whose record was pruned

table == <<rec, pending, closed>>
archive == <<text, later>>
history == <<clashed, pruned>>
harVars == <<stage, table, reader, archive, prunes, panicked, history>>

Record(c) == [of |-> c, kind |-> "record"]
Orphan(c) == [of |-> c, kind |-> "orphan"]
Files == [of : Calls, kind : {"record", "orphan"}]

Stages ==
    {"idle", "received", "written", "waiting", "sent", "failed", "read", "found", "ended"}

HarTypeOK ==
    /\ stage \in [Calls -> Stages]
    /\ rec \in [Calls -> Calls \cup {NoCall}]
    /\ pending \in [Keys -> Calls \cup {NoCall}]
    /\ closed => pending = [k \in Keys |-> NoCall]
    /\ reader # NoCall =>
          reader \in Calls /\ stage[reader] \in {"received", "written", "read", "found"}
    /\ text \in [Files -> Seq(Calls \cup {"request", "closed"})]
    /\ later \in [Files -> SUBSET Files]
    /\ prunes \in 0..MaxPrunes

HarInit ==
    /\ stage = [c \in Calls |-> "idle"]
    /\ rec = [c \in Calls |-> NoCall]
    /\ pending = [k \in Keys |-> NoCall]
    /\ closed = FALSE
    /\ reader = NoCall
    /\ text = [f \in Files |-> <<>>]
    /\ later = [f \in Files |-> {}]
    /\ prunes = 0
    /\ panicked = FALSE
    /\ clashed = {}
    /\ pruned = {}

Advance(c, l) == stage' = [stage EXCEPT ![c] = l]

\* The file is created if it is not there.
AppendBlock(f, b) ==
    /\ text' = [text EXCEPT ![f] = Append(@, b)]
    /\ later' = [g \in Files |-> IF g = f \/ text[g] = <<>> THEN {} ELSE later[g] \cup {f}]

IdString(c) == Id[c].val

----------------------------------------------------------------------------
(* startRecord, from Read or Write.                                        *)

Open(c) == stage[c] \notin {"idle", "ended", "failed"}

\* A peer does not use an ID again before it has the response.
MayCall(c) ==
    /\ stage[c] = "idle"
    /\ \A d \in Calls : Side[d] = Side[c] /\ Id[d] = Id[c] /\ Id[c] # NoCall => ~Open(d)

\* delegate.Read of a call or notification; Close may come before startRecord.
ReadMessage(c) ==
    /\ Side[c] = "in" /\ MayCall(c)
    /\ reader = NoCall /\ ~closed
    /\ reader' = c
    /\ Advance(c, "received")
    /\ UNCHANGED <<table, archive, prunes, panicked, history>>

StartRecord(c) ==
    /\ IF Side[c] = "in" THEN stage[c] = "received" ELSE MayCall(c)
    /\ AppendBlock(Record(c), "request")
    /\ Advance(c, IF Id[c] = NoCall THEN "ended" ELSE "written")
    /\ reader' = IF reader = c /\ Id[c] = NoCall THEN NoCall ELSE reader
    /\ UNCHANGED <<table, prunes, panicked, history>>

\* Calls whose record should be in the table.
Waiting(c) == stage[c] \in {"waiting", "sent", "failed", "read"}
Twins(c) ==
    {d \in Calls \ {c} : Waiting(d) /\ Id[d].val = Id[c].val}

\* Mutant: the table is made anew after Close.
PendReopens(c) ==
    /\ stage[c] = "written"
    /\ Advance(c, "waiting")
    /\ pending' = [pending EXCEPT ![IdString(c)] = c]
    /\ clashed' = IF Twins(c) = {} THEN clashed ELSE clashed \cup Twins(c) \cup {c}
    /\ reader' = IF reader = c THEN NoCall ELSE reader
    /\ UNCHANGED <<rec, closed, archive, prunes, panicked, pruned>>

Pend(c) ==
    /\ stage[c] = "written" /\ ~closed
    /\ Advance(c, "waiting")
    /\ pending' = [pending EXCEPT ![IdString(c)] = c]
    /\ clashed' = IF Twins(c) = {} THEN clashed ELSE clashed \cup Twins(c) \cup {c}
    /\ reader' = IF reader = c THEN NoCall ELSE reader
    /\ UNCHANGED <<rec, closed, archive, prunes, panicked, pruned>>

\* A write to a nil map.
Panic(c) ==
    /\ stage[c] = "written" /\ closed
    /\ panicked' = TRUE
    /\ UNCHANGED <<stage, table, reader, archive, prunes, history>>

\* Mutant: the request is on its way before it is in the table.
SendUnrecorded(c) ==
    /\ Side[c] = "out" /\ stage[c] \in {"written", "waiting"}
    /\ \E l \in {"failed"} \cup (IF closed THEN {} ELSE {"sent"}) : Advance(c, l)
    /\ UNCHANGED <<table, reader, archive, prunes, panicked, history>>

\* delegate.Write of a request, which may fail.
Send(c) ==
    /\ Side[c] = "out" /\ stage[c] = "waiting"
    /\ \E l \in {"failed"} \cup (IF closed THEN {} ELSE {"sent"}) : Advance(c, l)
    /\ UNCHANGED <<table, reader, archive, prunes, panicked, history>>

----------------------------------------------------------------------------
(* closeRecord, from Read for the calls of this side, from Write for the   *)
(* peer's.                                                                 *)

\* delegate.Read; Close may come before closeRecord.
ReadResponse(c) ==
    /\ Side[c] = "out" /\ stage[c] = "sent"
    /\ reader = NoCall /\ ~closed
    /\ reader' = c
    /\ Advance(c, "read")
    /\ UNCHANGED <<table, archive, prunes, panicked, history>>

LookUp(c) ==
    /\ stage[c] = IF Side[c] = "out" THEN "read" ELSE "waiting"
    /\ Advance(c, "found")
    /\ rec' = [rec EXCEPT ![c] = pending[IdString(c)]]
    /\ pending' = [pending EXCEPT ![IdString(c)] = NoCall]
    /\ UNCHANGED <<closed, reader, archive, prunes, panicked, history>>

WriteResponse(c) ==
    /\ stage[c] = "found"
    /\ AppendBlock(IF rec[c] = NoCall THEN Orphan(c) ELSE Record(rec[c]), c)
    /\ Advance(c, "ended")
    /\ reader' = IF reader = c THEN NoCall ELSE reader
    /\ UNCHANGED <<table, prunes, panicked, history>>

----------------------------------------------------------------------------
Pending == {Record(c) : c \in {d \in Calls : \E k \in Keys : pending[k] = d}}

\* The map is ranged over in some order: rank.
Flush(rank) ==
    LET flushed == DOMAIN rank
    IN  /\ text' = [f \in Files |->
                        IF f \in flushed THEN Append(text[f], "closed") ELSE text[f]]
        /\ later' = [f \in Files |->
                        IF f \in flushed THEN {g \in flushed : rank[g] > rank[f]}
                        ELSE IF text[f] = <<>> THEN {} ELSE later[f] \cup flushed]

Ranks(S) == {rank \in [S -> 1..Cardinality(S)] : IsInjective(rank)}

\* Mutant: the table is kept.
CloseKeeps ==
    /\ ~closed
    /\ closed' = TRUE
    /\ \E rank \in Ranks(Pending) : Flush(rank)
    /\ UNCHANGED <<stage, rec, pending, reader, prunes, panicked, history>>

\* All of it under the mutex.
CloseConn ==
    /\ ~closed
    /\ closed' = TRUE
    /\ pending' = [k \in Keys |-> NoCall]
    /\ \E rank \in Ranks(Pending) : Flush(rank)
    /\ UNCHANGED <<stage, rec, reader, prunes, panicked, history>>

\* HARTransport.Connect of another process that records in the directory.
PruneOldest ==
    LET gone == {f \in Files : text[f] # <<>> /\ Cardinality(later[f]) >= MaxFiles}
    IN  /\ prunes < MaxPrunes
        /\ gone # {}
        /\ prunes' = prunes + 1
        /\ text' = [f \in Files |-> IF f \in gone THEN <<>> ELSE text[f]]
        /\ later' = [f \in Files |-> IF f \in gone THEN {} ELSE later[f]]
        /\ pruned' = pruned \cup {c \in Calls : Record(c) \in gone}
        /\ UNCHANGED <<stage, table, reader, panicked, clashed>>

HarNext ==
    /\ ~panicked
    /\ \/ \E c \in Calls :
             \/ ReadMessage(c) \/ StartRecord(c) \/ Pend(c) \/ Panic(c) \/ Send(c)
             \/ ReadResponse(c) \/ LookUp(c) \/ WriteResponse(c)
       \/ CloseConn \/ PruneOldest

HarSpec == HarInit /\ [][HarNext]_harVars

----------------------------------------------------------------------------
(* Properties.                                                             *)

\* However responses race with Close, a record gets one answer: the response
\* or the note that there was none.
OneAnswer ==
    \A f \in Files : \A i, j \in DOMAIN text[f] :
        /\ text[f][i] # "request" /\ text[f][j] # "request" => i = j
        /\ text[f][i] = "request" => i = 1 /\ f.kind = "record"

\* A response lands in the record of another call only when the two shared
\* their key while both were pending.
RightAnswer ==
    \A c, d \in Calls :
        d \in Range(text[Record(c)]) => c = d \/ {c, d} \subseteq clashed

\* A response of a known call is an orphan only after such a clash or Close:
\* its request is recorded before anybody can answer it.
OrphansExplained ==
    \A c \in Calls : text[Orphan(c)] # <<>> => c \in clashed \/ closed

\* Responses are recorded where they belong.
AnswersFiled == RightAnswer /\ OrphansExplained

\* "orphan requests (response never arrived before close) get flushed in
\* Close", up to clashes: no call is left waiting without an answer.
Flushed ==
    \A c \in Calls :
        closed /\ Waiting(c) /\ c \notin clashed \cup pruned =>
            text[Record(c)] = <<"request", "closed">>

\* After Close the table stays empty, and nobody was left in it without a note.
CloseSettles == HarTypeOK /\ Flushed

\* The same without the exception for clashes.
OrphansFlushed ==
    \A c \in Calls :
        closed /\ Waiting(c) /\ c \notin pruned =>
            text[Record(c)] = <<"request", "closed">>

\* Close does not bring the process down.
NoPanic == ~panicked
=============================================================================

------------------------------ MODULE RpcCalls ------------------------------
(***************************************************************************)
(* What internal/ipc promises the callers of Client.Call, whatever         *)
(* connection, goroutines and shutdowns are in between: every call returns *)
(* at most once, with the result of its own execution or with an error,    *)
(* and the server executes it at most once.  An error says nothing about   *)
(* the execution, which may have happened or may even happen later.        *)
(***************************************************************************)
EXTENDS Naturals

CONSTANTS Calls, None

VARIABLES
    call,      \* progress of each call
    answer,    \* the execution whose result it returned, "error" or None
    executed   \* how often the verb handler of each call has been started

vars == <<call, answer, executed>>

Init ==
    /\ call = [c \in Calls |-> "idle"]
    /\ answer = [c \in Calls |-> None]
    /\ executed = [c \in Calls |-> 0]

Begin(c) ==
    /\ call[c] = "idle"
    /\ call' = [call EXCEPT ![c] = "open"]
    /\ UNCHANGED <<answer, executed>>

Execute(c) ==
    /\ call[c] # "idle"
    /\ executed[c] = 0
    /\ executed' = [executed EXCEPT ![c] = 1]
    /\ UNCHANGED <<call, answer>>

Return(c) ==
    /\ call[c] = "open"
    /\ executed[c] # 0
    /\ call' = [call EXCEPT ![c] = "returned"]
    /\ answer' = [answer EXCEPT ![c] = c]
    /\ UNCHANGED executed

Fail(c) ==
    /\ call[c] # "returned"
    /\ call' = [call EXCEPT ![c] = "returned"]
    /\ answer' = [answer EXCEPT ![c] = "error"]
    /\ UNCHANGED executed

Next == \E c \in Calls : Begin(c) \/ Execute(c) \/ Return(c) \/ Fail(c)

Spec == Init /\ [][Next]_vars

=============================================================================

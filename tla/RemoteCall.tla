----------------------------- MODULE RemoteCall -----------------------------
(***************************************************************************)
(* What the user interface may rely on when it calls the agent: the        *)
(* handler of a request runs at most once, an answer is the answer of a    *)
(* handler that ran for this call, and a call that fails may have been run *)
(* or may still be.  The one exception: once a call has failed although    *)
(* its handler ran, a later call may be given what is left of that reply.  *)
(***************************************************************************)
EXTENDS Naturals

CONSTANT Calls

VARIABLES
    result,  \* call -> what the caller got
    ran      \* call -> how often its handler has run

vars == <<result, ran>>

Init == result = [c \in Calls |-> "new"] /\ ran = [c \in Calls |-> 0]

Open(c) ==
    /\ result[c] = "new"
    /\ result' = [result EXCEPT ![c] = "open"]
    /\ UNCHANGED ran

Run(c) ==
    /\ result[c] # "new"
    /\ ran[c] = 0
    /\ ran' = [ran EXCEPT ![c] = 1]
    /\ UNCHANGED result

(* Without a connection a call fails before it is sent.                    *)
Fail(c) ==
    /\ result[c] \in {"new", "open"}
    /\ result' = [result EXCEPT ![c] = "failed"]
    /\ UNCHANGED ran

Answer(c) ==
    /\ result[c] = "open"
    /\ ran[c] = 1
    /\ result' = [result EXCEPT ![c] = "answered"]
    /\ UNCHANGED ran

Misread(c) ==
    /\ result[c] = "open"
    /\ \E d \in Calls : ran[d] = 1 /\ result[d] = "failed"
    /\ result' = [result EXCEPT ![c] = "misread"]
    /\ UNCHANGED ran

Next == \E c \in Calls : Open(c) \/ Run(c) \/ Fail(c) \/ Answer(c) \/ Misread(c)

Spec == Init /\ [][Next]_vars
============================================================================

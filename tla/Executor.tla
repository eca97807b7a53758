------------------------------ MODULE Executor ------------------------------
(***************************************************************************)
(* What the worker pool promises whoever enqueues a task: every accepted    *)
(* task is executed at most once, tasks begin in the order they were        *)
(* accepted and no more than a limit at a time, and closing lets the tasks  *)
(* that are being executed end and begins no other.  Nothing is said of     *)
(* threads.  ThreadPool implements it.                                      *)
(***************************************************************************)
EXTENDS Naturals, Sequences, FiniteSets

CONSTANTS Limit, Tasks

VARIABLES
    accepted,     \* how many tasks were accepted; they are numbered
    waiting,      \* the ones that have not begun
    executing,    \* the ones that have begun and not ended
    state         \* "open", "closing", "closed"

vars == <<accepted, waiting, executing, state>>

Init ==
    /\ accepted = 0
    /\ waiting = <<>>
    /\ executing = {}
    /\ state = "open"

\* A closed executor takes tasks too; they wait for ever.
Accept ==
    /\ accepted < Tasks
    /\ accepted' = accepted + 1
    /\ waiting' = Append(waiting, accepted + 1)
    /\ UNCHANGED <<executing, state>>

Begin ==
    /\ state = "open"
    /\ waiting # <<>>
    /\ Head(waiting) \notin executing
    /\ Cardinality(executing) < Limit
    /\ executing' = executing \cup {Head(waiting)}
    /\ waiting' = Tail(waiting)
    /\ UNCHANGED <<accepted, state>>

End(k) ==
    /\ executing' = executing \ {k}
    /\ UNCHANGED <<accepted, waiting, state>>

Close ==
    /\ state = "open"
    /\ state' = "closing"
    /\ UNCHANGED <<accepted, waiting, executing>>

Closed ==
    /\ state = "closing"
    /\ executing = {}
    /\ state' = "closed"
    /\ UNCHANGED <<accepted, waiting, executing>>

Next == Accept \/ Begin \/ (\E k \in executing : End(k)) \/ Close \/ Closed

Spec == Init /\ [][Next]_vars
=============================================================================

----------------------------- MODULE ThreadPool -----------------------------
(***************************************************************************)
(* The agent's worker pool (Library/Common/ThreadPool).                    *)
(*                                                                         *)
(* Workers are started on demand, leave as soon as they find the queue     *)
(* empty, and mark themselves finished under workerMutex; the next         *)
(* tryStart joins the marked ones.  What runs under queueMutex never waits *)
(* inside (the condition has just been tested under the same lock), so it  *)
(* is one step; workerMutex is held across steps by stop() alone, while it *)
(* joins.                                                                  *)
(***************************************************************************)
EXTENDS Naturals, Sequences, FiniteSets

CONSTANTS
    Clients,      \* threads that call enqueueTask
    Threads,      \* thread ids
    MaxThreads,   \* maxThreads
    MaxTasks      \* bound: how many tasks are ever enqueued

ASSUME PoolConstants == MaxThreads \in Nat \ {0} /\ MaxTasks \in Nat

VARIABLES
    tasks,        \* the queue; tasks are numbered as they are enqueued
    count,        \* how many were enqueued
    started,      \* history: the tasks in the order they were started
    workers,      \* thread id -> FALSE once the worker marked itself finished
    at,           \* where each thread is
    running,      \* the task each thread executes, 0 for none
    call,         \* enqueueTask: the taskCount handed to tryStart, 0 outside
    stopFlag,
    stopping      \* stop(): "no", "called", "joining" (holds workerMutex), "done"

pool == <<tasks, count, started>>
vars == <<pool, workers, at, running, call, stopFlag, stopping>>

TypeOK ==
    /\ tasks \in Seq(1..MaxTasks)
    /\ started \in Seq(1..MaxTasks)
    /\ count \in 0..MaxTasks
    /\ DOMAIN workers \subseteq Threads /\ workers \in [DOMAIN workers -> BOOLEAN]
    /\ at \in [Threads -> {"none", "loop", "exec", "mark", "gone"}]
    /\ running \in [Threads -> 0..MaxTasks]
    /\ call \in [Clients -> 0..MaxTasks]
    /\ stopFlag \in BOOLEAN
    /\ stopping \in {"no", "called", "joining", "done"}

-----------------------------------------------------------------------------

workerMutexFree == stopping # "joining"

Goto(t, l) == at' = [at EXCEPT ![t] = l]

\* Mutant of enqueueTask: the count includes a task that is not queued.
EnqueueMiscounts(c) ==
    /\ call[c] = 0
    /\ count < MaxTasks
    /\ count' = count + 1
    /\ tasks' = Append(tasks, count + 1)
    /\ call' = [call EXCEPT ![c] = Len(tasks) + 2]
    /\ UNCHANGED <<started, workers, at, running, stopFlag, stopping>>

\* enqueueTask up to lock.unlock().
enqueueTask(c) ==
    /\ call[c] = 0
    /\ count < MaxTasks
    /\ count' = count + 1
    /\ tasks' = Append(tasks, count + 1)
    /\ call' = [call EXCEPT ![c] = Len(tasks) + 1]
    /\ UNCHANGED <<started, workers, at, running, stopFlag, stopping>>

\* Mutant of MayStart: off by one.
MayStartOneMore(n, taskCount) == n <= taskCount /\ n <= MaxThreads

MayStart(n, taskCount) == n < taskCount /\ n < MaxThreads

\* The workers left once the ones marked finished were joined and erased.
Unfinished == {t \in DOMAIN workers : workers[t]}

\* tryStart: everything under lock2.  A marked worker is past its own lock, so
\* joining it does not wait.
tryStart(c) ==
    /\ call[c] # 0
    /\ workerMutexFree
    /\ LET reaped == DOMAIN workers \ Unfinished
       IN \/ /\ MayStart(Cardinality(Unfinished), call[c])
             /\ \E t \in Threads \ Unfinished :
                   /\ at[t] \in {"none", "gone"}
                   /\ workers' = [u \in Unfinished \cup {t} |-> TRUE]
                   /\ at' = [u \in Threads |-> IF u = t THEN "loop"
                                ELSE IF u \in reaped THEN "none" ELSE at[u]]
          \/ /\ ~MayStart(Cardinality(Unfinished), call[c])
             /\ workers' = [u \in Unfinished |-> TRUE]
             /\ at' = [u \in Threads |-> IF u \in reaped THEN "none" ELSE at[u]]
    /\ call' = [call EXCEPT ![c] = 0]
    /\ UNCHANGED <<pool, running, stopFlag, stopping>>

-----------------------------------------------------------------------------
(* workerThread *)

\* Mutant of TakeTask: the task is read but not popped.
TakeNotPopped(t) ==
    /\ at[t] = "loop"
    /\ ~stopFlag /\ tasks # <<>>
    /\ running' = [running EXCEPT ![t] = Head(tasks)]
    /\ started' = Append(started, Head(tasks))
    /\ Goto(t, "exec")
    /\ UNCHANGED <<tasks, count, workers, call, stopFlag, stopping>>

\* One turn of the loop, up to lock.unlock().
TakeTask(t) ==
    /\ at[t] = "loop"
    /\ ~stopFlag /\ tasks # <<>>
    /\ running' = [running EXCEPT ![t] = Head(tasks)]
    /\ started' = Append(started, Head(tasks))
    /\ tasks' = Tail(tasks)
    /\ Goto(t, "exec")
    /\ UNCHANGED <<count, workers, call, stopFlag, stopping>>

\* Mutant of RunTask: the worker leaves after one task.
RunOneTask(t) ==
    /\ at[t] = "exec"
    /\ running' = [running EXCEPT ![t] = 0]
    /\ Goto(t, "mark")
    /\ UNCHANGED <<pool, workers, call, stopFlag, stopping>>

\* task() returns.
RunTask(t) ==
    /\ at[t] = "exec"
    /\ running' = [running EXCEPT ![t] = 0]
    /\ Goto(t, "loop")
    /\ UNCHANGED <<pool, workers, call, stopFlag, stopping>>

\* Mutant of LeaveLoop: a worker is not told to stop.
LeaveWhenEmpty(t) ==
    /\ at[t] = "loop"
    /\ tasks = <<>>
    /\ Goto(t, "mark")
    /\ UNCHANGED <<pool, workers, running, call, stopFlag, stopping>>

\* break: stopping, or nothing in the queue.
LeaveLoop(t) ==
    /\ at[t] = "loop"
    /\ stopFlag \/ tasks = <<>>
    /\ Goto(t, "mark")
    /\ UNCHANGED <<pool, workers, running, call, stopFlag, stopping>>

\* workers[tid].second = false, and the thread ends.
MarkFinished(t) ==
    /\ at[t] = "mark"
    /\ workerMutexFree
    /\ workers' = [u \in DOMAIN workers \cup {t} |-> IF u = t THEN FALSE ELSE workers[u]]
    /\ Goto(t, "gone")
    /\ UNCHANGED <<pool, running, call, stopFlag, stopping>>

-----------------------------------------------------------------------------
(* stop *)

SetStopFlag ==
    /\ stopping = "no"
    /\ stopFlag' = TRUE
    /\ stopping' = "called"
    /\ UNCHANGED <<pool, workers, at, running, call>>

LockWorkers ==
    /\ stopping = "called"
    /\ stopping' = "joining"
    /\ UNCHANGED <<pool, workers, at, running, call, stopFlag>>

\* Mutant of JoinWorkers: the workers are dropped without being joined.
DropWorkers ==
    /\ stopping = "joining"
    /\ workers' = [t \in {} |-> TRUE]
    /\ at' = at
    /\ stopping' = "done"
    /\ UNCHANGED <<pool, running, call, stopFlag>>

JoinWorkers ==
    /\ stopping = "joining"
    /\ \A t \in DOMAIN workers : at[t] = "gone"
    /\ workers' = [t \in {} |-> TRUE]
    /\ at' = [t \in Threads |-> IF t \in DOMAIN workers THEN "none" ELSE at[t]]
    /\ stopping' = "done"
    /\ UNCHANGED <<pool, running, call, stopFlag>>

-----------------------------------------------------------------------------

Init ==
    /\ tasks = <<>> /\ started = <<>> /\ count = 0
    /\ workers = [t \in {} |-> TRUE]
    /\ at = [t \in Threads |-> "none"]
    /\ running = [t \in Threads |-> 0]
    /\ call = [c \in Clients |-> 0]
    /\ stopFlag = FALSE /\ stopping = "no"

Worker(t) == TakeTask(t) \/ RunTask(t) \/ LeaveLoop(t) \/ MarkFinished(t)

Next ==
    \/ \E c \in Clients : enqueueTask(c) \/ tryStart(c)
    \/ \E t \in Threads : Worker(t)
    \/ SetStopFlag \/ LockWorkers \/ JoinWorkers

Spec == Init /\ [][Next]_vars

\* Threads are scheduled and tasks return; nobody has to enqueue or to stop.
FairSpec ==
    /\ Spec
    /\ \A c \in Clients : WF_vars(tryStart(c))
    /\ \A t \in Threads : WF_vars(Worker(t))
    /\ WF_vars(LockWorkers) /\ WF_vars(JoinWorkers)

-----------------------------------------------------------------------------
(* Properties *)

\* Tasks are started once each and in the order they were enqueued, by
\* however many workers: what was started followed by what is queued is
\* everything that was enqueued.
StartedInOrder == started \o tasks = [i \in 1..count |-> i]

\* Never more than maxThreads threads of the pool execute tasks or wait for
\* the queue at once, although tryStart counts entries of a map that lags
\* behind the threads.
WithinMaxThreads == Cardinality({t \in Threads : at[t] \in {"loop", "exec"}}) <= MaxThreads

\* The tasks that threads execute, and how far stop() has come.
Executing == {running[t] : t \in {u \in Threads : at[u] = "exec"}}
Phase == IF ~stopFlag THEN "open" ELSE IF stopping = "done" THEN "closed" ELSE "closing"

Promise == INSTANCE Executor WITH
    Limit <- MaxThreads, Tasks <- MaxTasks, accepted <- count, waiting <- tasks,
    executing <- Executing, state <- Phase

\* The threads, the lagging map and the two mutexes are an executor: whatever
\* the interleaving, each enqueued task is executed at most once and in order, at
\* most maxThreads at a time, none is begun once stop() is called, and when
\* stop() has returned none is being executed.
KeepsPromise == Promise!Spec

\* stop() joins: once it has returned, no thread executes a task.
StoppedIsQuiet == stopping = "done" => \A t \in Threads : at[t] # "exec"

\* stop() joins under the mutex that a worker needs to mark itself and end.
MutualWait == stopping = "joining" /\ \E t \in DOMAIN workers : at[t] = "mark"

\* ThreadPool.h:33 "Gracefully stop all threads": a call of stop() returns,
\* whatever is queued and whoever still enqueues, or it waits for a worker
\* that waits for it.
StopReturns == stopping = "called" ~> (stopping = "done" \/ MutualWait)

\* A worker that has joined in goes on until the queue is empty: every task
\* is started, or the pool is stopped.  A task enqueued when every worker has
\* left its loop and not yet marked itself waits for the next enqueueTask.
QueueDrains ==
    (tasks # <<>> /\ \E t \in Threads : at[t] \in {"loop", "exec"})
        ~> (tasks = <<>> \/ stopFlag)
=============================================================================

-------------------------- MODULE ThreadPoolProofs --------------------------
(***************************************************************************)
(* Theorems about ThreadPool, for any number of threads, tasks and workers. *)
(*                                                                         *)
(* OrderInv ties the queue to what was started, and with it bounds the      *)
(* queue's length, which the type of "call" needs.  MapInv ties the threads *)
(* that are busy to the unmarked entries of the map that tryStart counts.   *)
(***************************************************************************)
EXTENDS ThreadPool, FiniteSetTheorems, TLAPS

Busy == {t \in Threads : at[t] \in {"loop", "exec", "mark"}}

OrderInv ==
    /\ tasks \in Seq(Nat) /\ started \in Seq(Nat)
    /\ count \in 0..MaxTasks
    /\ started \o tasks = [i \in 1..count |-> i]

MapInv ==
    /\ Busy \subseteq Unfinished
    /\ IsFiniteSet(Unfinished)
    /\ Cardinality(Unfinished) <= MaxThreads

\* The types the two parts need of each other.
ShapeInv ==
    /\ DOMAIN workers \subseteq Threads /\ workers \in [DOMAIN workers -> BOOLEAN]
    /\ at \in [Threads -> {"none", "loop", "exec", "mark", "gone"}]
    /\ stopFlag \in BOOLEAN
    /\ stopping \in {"no", "called", "joining", "done"}

-----------------------------------------------------------------------------
(* The queue *)

\* A task at the end of the queue is at the end of everything enqueued.
LEMMA ConcatAppend ==
    ASSUME NEW s \in Seq(Nat), NEW q \in Seq(Nat), NEW e \in Nat
    PROVE  s \o Append(q, e) = Append(s \o q, e)
<1> DEFINE l == s \o Append(q, e)
<1> DEFINE r == Append(s \o q, e)
<1>1. l \in Seq(Nat) /\ r \in Seq(Nat) /\ Len(l) = Len(s) + Len(q) + 1 /\ Len(r) = Len(s) + Len(q) + 1
  OBVIOUS
<1>2. ASSUME NEW i \in 1..(Len(s) + Len(q) + 1) PROVE l[i] = r[i]
  <2>1. CASE i <= Len(s)
    BY <2>1
  <2>2. CASE i = Len(s) + Len(q) + 1
    BY <2>2
  <2>3. CASE i > Len(s) /\ i <= Len(s) + Len(q)
    BY <2>3
  <2> QED BY <2>1, <2>2, <2>3
<1> QED BY <1>1, <1>2

\* Enqueuing task n + 1 keeps the tasks numbered as they were enqueued.
LEMMA AppendLast ==
    ASSUME NEW s \in Seq(Nat), NEW q \in Seq(Nat), NEW n \in Nat,
           s \o q = [i \in 1..n |-> i]
    PROVE  s \o Append(q, n + 1) = [i \in 1..(n + 1) |-> i]
<1>1. n + 1 \in Nat
  OBVIOUS
<1>2. s \o Append(q, n + 1) = Append(s \o q, n + 1)
  BY <1>1, ConcatAppend, Zenon
<1>3. Append([i \in 1..n |-> i], n + 1) = [i \in 1..(n + 1) |-> i]
  OBVIOUS
<1> QED BY <1>2, <1>3, Zenon

\* Moving the head of the queue to the end of what was started changes nothing.
LEMMA MoveHead ==
    ASSUME NEW s \in Seq(Nat), NEW q \in Seq(Nat), q # <<>>
    PROVE  Append(s, Head(q)) \o Tail(q) = s \o q
<1> DEFINE l == Append(s, Head(q)) \o Tail(q)
<1> DEFINE r == s \o q
<1>1. Head(q) \in Nat /\ Tail(q) \in Seq(Nat) /\ Len(Tail(q)) = Len(q) - 1 /\ Len(q) \in Nat \ {0}
  OBVIOUS
<1>2. l \in Seq(Nat) /\ r \in Seq(Nat) /\ Len(l) = Len(s) + Len(q) /\ Len(r) = Len(s) + Len(q)
  BY <1>1
<1>3. ASSUME NEW i \in 1..(Len(s) + Len(q)) PROVE l[i] = r[i]
  <2>1. CASE i <= Len(s)
    BY <1>1, <2>1
  <2>2. CASE i = Len(s) + 1
    BY <1>1, <2>2
  <2>3. CASE i > Len(s) + 1
    BY <1>1, <2>3
  <2> QED BY <2>1, <2>2, <2>3
<1> QED BY <1>2, <1>3

\* Every step keeps the order in which tasks are enqueued and started.
LEMMA OrderStep == OrderInv /\ [Next]_vars => OrderInv'
<1> SUFFICES ASSUME OrderInv, [Next]_vars PROVE OrderInv'
  OBVIOUS
<1>1. ASSUME NEW c \in Clients, enqueueTask(c) PROVE OrderInv'
  <2>1. count \in Nat /\ count + 1 \in 0..MaxTasks
    BY <1>1, PoolConstants DEF enqueueTask, OrderInv
  <2>2. started \o Append(tasks, count + 1) = [i \in 1..(count + 1) |-> i]
    BY <2>1, AppendLast, Zenon DEF OrderInv
  <2>3. Append(tasks, count + 1) \in Seq(Nat)
    BY <2>1 DEF OrderInv
  <2>4. count' = count + 1 /\ tasks' = Append(tasks, count + 1) /\ started' = started
    BY <1>1 DEF enqueueTask
  <2> QED BY <2>1, <2>2, <2>3, <2>4, Zenon DEF OrderInv
<1>2. ASSUME NEW t \in Threads, TakeTask(t) PROVE OrderInv'
  <2>1. Append(started, Head(tasks)) \o Tail(tasks) = started \o tasks
    BY <1>2, MoveHead DEF TakeTask, OrderInv
  <2> QED BY <1>2, <2>1 DEF TakeTask, OrderInv
<1>3. CASE UNCHANGED pool
  BY <1>3 DEF OrderInv, pool
<1> QED BY <1>1, <1>2, <1>3
        DEF Next, vars, tryStart, Worker, RunTask, LeaveLoop, MarkFinished,
            SetStopFlag, LockWorkers, JoinWorkers

\* Tasks are started once each and in the order they were enqueued, however
\* many threads enqueue and work.
THEOREM TasksStartInOrder == Spec => []StartedInOrder
<1>1. Init => OrderInv
  BY PoolConstants DEF Init, OrderInv
<1>2. OrderInv => StartedInOrder
  BY DEF OrderInv, StartedInOrder
<1> QED BY <1>1, <1>2, OrderStep, PTL DEF Spec

\* What was started and what is queued is all that was enqueued.
LEMMA QueueLength ==
    ASSUME NEW s \in Seq(Nat), NEW q \in Seq(Nat), NEW n \in Nat,
           s \o q = [i \in 1..n |-> i]
    PROVE  Len(s) + Len(q) = n
<1>1. Len(s \o q) = Len(s) + Len(q) /\ DOMAIN (s \o q) = 1..Len(s \o q)
  OBVIOUS
<1>2. DOMAIN (s \o q) = 1..n
  OBVIOUS
<1>3. Len(s \o q) \in Nat
  OBVIOUS
<1> QED BY <1>1, <1>2, <1>3

\* Every step keeps the types; the queue is short enough for its length to be
\* handed to tryStart because of the order.
LEMMA TypeStep == OrderInv /\ TypeOK /\ [Next]_vars => TypeOK'
<1> SUFFICES ASSUME OrderInv, TypeOK, [Next]_vars PROVE TypeOK'
  OBVIOUS
<1> USE PoolConstants DEF TypeOK
<1>1. ASSUME NEW c \in Clients, enqueueTask(c) PROVE TypeOK'
  <2>1. count \in Nat /\ count + 1 \in 1..MaxTasks
    BY <1>1 DEF enqueueTask
  <2>2. Len(started) + Len(tasks) = count
    BY <2>1, QueueLength, Zenon DEF OrderInv
  <2>3. Len(tasks) \in Nat /\ Len(started) \in Nat
    BY DEF OrderInv
  <2>4. Len(tasks) + 1 \in 0..MaxTasks
    BY <2>1, <2>2, <2>3
  <2>5. call' \in [Clients -> 0..MaxTasks]
    BY <1>1, <2>4 DEF enqueueTask
  <2>6. tasks' \in Seq(1..MaxTasks) /\ count' \in 0..MaxTasks
    BY <1>1, <2>1 DEF enqueueTask
  <2> QED BY <1>1, <2>5, <2>6 DEF enqueueTask
<1>2. ASSUME NEW c \in Clients, tryStart(c) PROVE TypeOK'
  <2>1. call' \in [Clients -> 0..MaxTasks]
    BY <1>2 DEF tryStart
  <2>2. at' \in [Threads -> {"none", "loop", "exec", "mark", "gone"}]
    BY <1>2 DEF tryStart
  <2>3. DOMAIN workers' \subseteq Threads /\ workers' \in [DOMAIN workers' -> BOOLEAN]
    BY <1>2 DEF tryStart, Unfinished
  <2> QED BY <1>2, <2>1, <2>2, <2>3 DEF tryStart, pool
<1>3. ASSUME NEW t \in Threads, TakeTask(t) PROVE TypeOK'
  <2>1. Head(tasks) \in 1..MaxTasks /\ Tail(tasks) \in Seq(1..MaxTasks)
    BY <1>3 DEF TakeTask
  <2>2. started' \in Seq(1..MaxTasks) /\ tasks' \in Seq(1..MaxTasks)
    BY <1>3, <2>1 DEF TakeTask
  <2>3. running' \in [Threads -> 0..MaxTasks]
    BY <1>3, <2>1 DEF TakeTask
  <2>4. at' \in [Threads -> {"none", "loop", "exec", "mark", "gone"}]
    BY <1>3 DEF TakeTask, Goto
  <2> QED BY <1>3, <2>2, <2>3, <2>4 DEF TakeTask
<1>4. ASSUME NEW t \in Threads, RunTask(t) \/ LeaveLoop(t) PROVE TypeOK'
  <2>1. at' \in [Threads -> {"none", "loop", "exec", "mark", "gone"}]
    BY <1>4 DEF RunTask, LeaveLoop, Goto
  <2>2. running' \in [Threads -> 0..MaxTasks]
    <3>1. CASE RunTask(t)
      BY <3>1 DEF RunTask
    <3>2. CASE LeaveLoop(t)
      BY <3>2 DEF LeaveLoop
    <3> QED BY <1>4, <3>1, <3>2
  <2> QED BY <1>4, <2>1, <2>2 DEF RunTask, LeaveLoop, pool
<1>5. ASSUME NEW t \in Threads, MarkFinished(t) PROVE TypeOK'
  <2>1. at' \in [Threads -> {"none", "loop", "exec", "mark", "gone"}]
    BY <1>5 DEF MarkFinished, Goto
  <2>2. DOMAIN workers' \subseteq Threads /\ workers' \in [DOMAIN workers' -> BOOLEAN]
    BY <1>5 DEF MarkFinished
  <2> QED BY <1>5, <2>1, <2>2 DEF MarkFinished, pool
<1>6. CASE SetStopFlag \/ LockWorkers \/ UNCHANGED vars
  BY <1>6 DEF SetStopFlag, LockWorkers, vars, pool
<1>7. CASE JoinWorkers
  BY <1>7 DEF JoinWorkers, pool
<1> QED BY <1>1, <1>2, <1>3, <1>4, <1>5, <1>6, <1>7 DEF Next, Worker

\* The queue, the map, the threads and the calls keep their shape; taskCount
\* never exceeds the number of tasks there are.
THEOREM TypeCorrect == Spec => []TypeOK
<1>1. Init => OrderInv /\ TypeOK
  <2> SUFFICES ASSUME Init PROVE OrderInv /\ TypeOK
    OBVIOUS
  <2>1. OrderInv
    BY PoolConstants DEF Init, OrderInv
  <2>2. workers \in [DOMAIN workers -> BOOLEAN] /\ DOMAIN workers \subseteq Threads
    BY DEF Init
  <2>3. tasks \in Seq(1..MaxTasks) /\ started \in Seq(1..MaxTasks) /\ count \in 0..MaxTasks
    BY PoolConstants DEF Init
  <2>4. running \in [Threads -> 0..MaxTasks] /\ call \in [Clients -> 0..MaxTasks]
    BY PoolConstants DEF Init
  <2> QED BY <2>1, <2>2, <2>3, <2>4 DEF Init, TypeOK
<1> QED BY <1>1, OrderStep, TypeStep, PTL DEF Spec

-----------------------------------------------------------------------------
(* The map of workers *)

\* Every step keeps the busy threads in the map, and the map within the limit.
LEMMA MapStep == ShapeInv /\ MapInv /\ [Next]_vars => (ShapeInv /\ MapInv)'
<1> SUFFICES ASSUME ShapeInv, MapInv, [Next]_vars PROVE (ShapeInv /\ MapInv)'
  OBVIOUS
<1> USE DEF ShapeInv, MapInv
<1>1. Cardinality(Unfinished) \in Nat
  BY FS_CardinalityType
<1>2. ASSUME NEW c \in Clients, tryStart(c) PROVE (ShapeInv /\ MapInv)'
  <2>1. CASE MayStart(Cardinality(Unfinished), call[c])
    <3>1. PICK t \in Threads \ Unfinished :
             /\ at[t] \in {"none", "gone"}
             /\ workers' = [u \in Unfinished \cup {t} |-> TRUE]
             /\ at' = [u \in Threads |-> IF u = t THEN "loop"
                          ELSE IF u \in DOMAIN workers \ Unfinished THEN "none" ELSE at[u]]
      BY <1>2, <2>1 DEF tryStart
    <3>2. Unfinished' = Unfinished \cup {t}
      BY <3>1 DEF Unfinished
    <3>3. IsFiniteSet(Unfinished') /\ Cardinality(Unfinished') <= MaxThreads
      <4>1. /\ IsFiniteSet(Unfinished \cup {t})
            /\ Cardinality(Unfinished \cup {t}) = Cardinality(Unfinished) + 1
        BY <3>1, FS_AddElement
      <4> QED BY <1>1, <2>1, <3>2, <4>1, PoolConstants DEF MayStart
    <3>4. Busy' \subseteq Unfinished'
      BY <3>1, <3>2 DEF Busy
    <3>5. ShapeInv'
      BY <1>2, <3>1 DEF tryStart, Unfinished
    <3> QED BY <3>3, <3>4, <3>5
  <2>2. CASE ~MayStart(Cardinality(Unfinished), call[c])
    <3>1. /\ workers' = [u \in Unfinished |-> TRUE]
          /\ at' = [u \in Threads |-> IF u \in DOMAIN workers \ Unfinished THEN "none" ELSE at[u]]
      BY <1>2, <2>2 DEF tryStart
    <3>2. Unfinished' = Unfinished
      BY <3>1 DEF Unfinished
    <3>3. Busy' \subseteq Busy
      BY <3>1 DEF Busy
    <3>4. ShapeInv'
      BY <1>2, <3>1 DEF tryStart, Unfinished
    <3> QED BY <3>2, <3>3, <3>4
  <2> QED BY <2>1, <2>2
<1>3. ASSUME NEW t \in Threads, TakeTask(t) \/ RunTask(t) \/ LeaveLoop(t)
      PROVE  (ShapeInv /\ MapInv)'
  <2>1. workers' = workers /\ Unfinished' = Unfinished
    BY <1>3 DEF TakeTask, RunTask, LeaveLoop, Unfinished
  <2>2. Busy' \subseteq Busy
    BY <1>3 DEF TakeTask, RunTask, LeaveLoop, Goto, Busy
  <2>3. ShapeInv'
    BY <1>3 DEF TakeTask, RunTask, LeaveLoop, Goto
  <2> QED BY <2>1, <2>2, <2>3
<1>4. ASSUME NEW t \in Threads, MarkFinished(t) PROVE (ShapeInv /\ MapInv)'
  <2>1. Unfinished' = Unfinished \ {t}
    BY <1>4 DEF MarkFinished, Unfinished
  <2>2. Busy' \subseteq Busy \ {t}
    BY <1>4 DEF MarkFinished, Goto, Busy
  <2>3. IsFiniteSet(Unfinished') /\ Cardinality(Unfinished') <= MaxThreads
    BY <1>1, <2>1, FS_RemoveElement, PoolConstants
  <2>4. ShapeInv'
    BY <1>4 DEF MarkFinished, Goto
  <2> QED BY <2>1, <2>2, <2>3, <2>4
<1>5. CASE JoinWorkers
  <2>1. Busy = {}
    BY <1>5 DEF JoinWorkers, Busy, Unfinished
  <2>2. Unfinished' = {} /\ Busy' = {}
    BY <1>5, <2>1 DEF JoinWorkers, Unfinished, Busy
  <2>3. ShapeInv'
    BY <1>5 DEF JoinWorkers
  <2> QED BY <2>2, <2>3, FS_EmptySet, PoolConstants
<1>6. ASSUME UNCHANGED <<workers, at>>, stopFlag' \in BOOLEAN,
             stopping' \in {"no", "called", "joining", "done"}
      PROVE  (ShapeInv /\ MapInv)'
  BY <1>6 DEF Unfinished, Busy
<1>7. ASSUME NEW c \in Clients, enqueueTask(c) PROVE (ShapeInv /\ MapInv)'
  BY <1>6, <1>7 DEF enqueueTask
<1>8. CASE SetStopFlag \/ LockWorkers \/ UNCHANGED vars
  BY <1>6, <1>8 DEF SetStopFlag, LockWorkers, vars
<1> QED BY <1>2, <1>3, <1>4, <1>5, <1>7, <1>8 DEF Next, Worker

\* The pool starts with an empty map.
LEMMA MapInit == Init => ShapeInv /\ MapInv
<1> SUFFICES ASSUME Init PROVE ShapeInv /\ MapInv
  OBVIOUS
<1>1. Unfinished = {} /\ Busy = {}
  BY DEF Init, Unfinished, Busy
<1>2. MapInv
  BY <1>1, FS_EmptySet, PoolConstants DEF MapInv
<1> QED BY <1>2 DEF Init, ShapeInv

\* The limit on map entries is a limit on threads: never more than maxThreads
\* threads execute tasks or look at the queue.
THEOREM ThreadsAreLimited == Spec => []WithinMaxThreads
<1>1. Init => ShapeInv /\ MapInv
  BY MapInit
<1>2. MapInv => WithinMaxThreads
  <2> SUFFICES ASSUME MapInv PROVE WithinMaxThreads
    OBVIOUS
  <2> DEFINE active == {t \in Threads : at[t] \in {"loop", "exec"}}
  <2>1. active \in SUBSET Unfinished
    BY DEF MapInv, Busy
  <2>2. Cardinality(active) <= Cardinality(Unfinished)
        /\ Cardinality(active) \in Nat /\ Cardinality(Unfinished) \in Nat
    BY <2>1, FS_Subset, FS_CardinalityType DEF MapInv
  <2> QED BY <2>2, PoolConstants DEF MapInv, WithinMaxThreads
<1> QED BY <1>1, <1>2, MapStep, PTL DEF Spec

-----------------------------------------------------------------------------
(* stop *)

QuietInv == (stopping # "no" => stopFlag) /\ StoppedIsQuiet

\* Every step keeps the pool quiet: while stop() joins, the map holds every busy
\* thread, and once the flag is up no thread takes another task.
LEMMA QuietStep == ShapeInv /\ MapInv /\ QuietInv /\ [Next]_vars => QuietInv'
<1> SUFFICES ASSUME ShapeInv, MapInv, QuietInv, [Next]_vars PROVE QuietInv'
  OBVIOUS
<1> USE DEF QuietInv, StoppedIsQuiet
<1>1. CASE JoinWorkers
  <2>1. Busy = {}
    BY <1>1 DEF JoinWorkers, Busy, MapInv, Unfinished
  <2>2. \A t \in Threads : at'[t] # "exec"
    BY <1>1, <2>1 DEF JoinWorkers, Busy
  <2> QED BY <1>1, <2>2 DEF JoinWorkers
<1>2. ASSUME NEW t \in Threads, TakeTask(t) PROVE QuietInv'
  BY <1>2 DEF TakeTask
<1>3. ASSUME NEW t \in Threads, RunTask(t) \/ LeaveLoop(t) \/ MarkFinished(t) PROVE QuietInv'
  <2>1. \A u \in Threads : at'[u] = "exec" => at[u] = "exec"
    BY <1>3 DEF RunTask, LeaveLoop, MarkFinished, Goto, ShapeInv
  <2> QED BY <1>3, <2>1 DEF RunTask, LeaveLoop, MarkFinished
<1>4. ASSUME NEW c \in Clients, tryStart(c) PROVE QuietInv'
  <2>1. \A u \in Threads : at'[u] = "exec" => at[u] = "exec"
    BY <1>4 DEF tryStart, ShapeInv
  <2> QED BY <1>4, <2>1 DEF tryStart
<1>5. ASSUME NEW c \in Clients, enqueueTask(c) PROVE QuietInv'
  BY <1>5 DEF enqueueTask
<1>6. CASE SetStopFlag \/ LockWorkers \/ UNCHANGED vars
  BY <1>6 DEF SetStopFlag, LockWorkers, vars
<1> QED BY <1>1, <1>2, <1>3, <1>4, <1>5, <1>6 DEF Next, Worker

\* Once stop() has returned no thread of the pool executes a task, whoever
\* still enqueues.
THEOREM StopIsFinal == Spec => []StoppedIsQuiet
<1>1. Init => ShapeInv /\ MapInv /\ QuietInv
  BY MapInit DEF Init, QuietInv, StoppedIsQuiet
<1>2. QuietInv => StoppedIsQuiet
  BY DEF QuietInv
<1> QED BY <1>1, <1>2, MapStep, QuietStep, PTL DEF Spec

-----------------------------------------------------------------------------
(* The pool is an executor *)

Executors == {u \in Threads : at[u] = "exec"}

\* Threads execute different tasks, all of them started: the one at the head of
\* the queue is none of theirs.
TaskInv ==
    /\ stopFlag <=> stopping # "no"
    /\ \A t \in Executors : running[t] \in 1..Len(started)
    /\ \A t, u \in Executors : running[t] = running[u] => t = u

\* What the steps of the pool do not change of what they execute.
LEMMA SameExecutors ==
    ASSUME Executors' = Executors, \A t \in Executors : running'[t] = running[t]
    PROVE  Executing' = Executing
BY DEF Executing, Executors

\* What comes after a sequence in a longer one is the head of the rest.
LEMMA ConcatHead ==
    ASSUME NEW s \in Seq(Nat), NEW q \in Seq(Nat), q # <<>>
    PROVE  (s \o q)[Len(s) + 1] = q[1]
<1>1. Len(s) \in Nat /\ Len(q) \in Nat \ {0}
  OBVIOUS
<1> QED BY <1>1

\* The head of the queue follows everything that was started.
LEMMA HeadIsNext ==
    ASSUME OrderInv, tasks # <<>>
    PROVE  Head(tasks) = Len(started) + 1 /\ Len(started) \in Nat
<1>1. Len(started) \in Nat /\ Len(tasks) \in Nat \ {0} /\ Head(tasks) = tasks[1]
  BY DEF OrderInv
<1>2. (started \o tasks)[Len(started) + 1] = tasks[1]
  BY ConcatHead DEF OrderInv
<1>3. Len(started) + Len(tasks) = count
  <2>1. count \in Nat
    BY PoolConstants DEF OrderInv
  <2> QED BY <2>1, QueueLength, Zenon DEF OrderInv
<1>4. Len(started) + 1 \in 1..count
  BY <1>1, <1>3
<1>5. [i \in 1..count |-> i][Len(started) + 1] = Len(started) + 1
  BY <1>4
<1> QED BY <1>1, <1>2, <1>5 DEF OrderInv

\* A thread that looks at the queue is a free place: fewer than maxThreads tasks
\* are being executed.
LEMMA PlaceIsFree ==
    ASSUME MapInv, NEW t \in Threads, at[t] = "loop"
    PROVE  Cardinality(Executing) < MaxThreads
<1> DEFINE f == [u \in Executors |-> running[u]]
<1>1. Executors \cup {t} \in SUBSET Unfinished /\ t \notin Executors
  BY DEF MapInv, Busy, Executors
<1>2. IsFiniteSet(Executors \cup {t}) /\ Cardinality(Executors \cup {t}) <= Cardinality(Unfinished)
  BY <1>1, FS_Subset DEF MapInv
<1>3. IsFiniteSet(Executors)
  <2>1. Executors \in SUBSET (Executors \cup {t})
    OBVIOUS
  <2> QED BY <1>2, <2>1, FS_Subset
<1>4. Cardinality(Executors \cup {t}) = Cardinality(Executors) + 1
  BY <1>1, <1>3, FS_AddElement
<1>5. f \in Surjection(Executors, Executing)
  BY DEF Surjection, Executing, Executors
<1>6. IsFiniteSet(Executing) /\ Cardinality(Executing) <= Cardinality(Executors)
  <2> HIDE DEF f
  <2> QED BY <1>3, <1>5, FS_Surjection
<1>7. Cardinality(Executing) \in Nat /\ Cardinality(Executors) \in Nat /\ Cardinality(Unfinished) \in Nat
  BY <1>3, <1>6, FS_CardinalityType DEF MapInv
<1> QED BY <1>2, <1>4, <1>6, <1>7, PoolConstants DEF MapInv

\* Every step keeps the tasks of the threads apart.
LEMMA TaskStep == OrderInv /\ TypeOK /\ MapInv /\ TaskInv /\ [Next]_vars => TaskInv'
<1> SUFFICES ASSUME OrderInv, TypeOK, MapInv, TaskInv, [Next]_vars PROVE TaskInv'
  OBVIOUS
<1>0. at \in [Threads -> {"none", "loop", "exec", "mark", "gone"}] /\ running \in [Threads -> 0..MaxTasks]
  BY DEF TypeOK
<1>1. ASSUME NEW t \in Threads, TakeTask(t) PROVE TaskInv'
  <2>1. running' = [running EXCEPT ![t] = Head(tasks)] /\ at' = [at EXCEPT ![t] = "exec"]
        /\ started' = Append(started, Head(tasks)) /\ stopFlag' = stopFlag /\ stopping' = stopping
    BY <1>1 DEF TakeTask, Goto
  <2>2. Head(tasks) = Len(started) + 1 /\ Len(started) \in Nat
    BY <1>1, HeadIsNext DEF TakeTask
  <2>3. Len(started') = Len(started) + 1
    BY <2>1 DEF OrderInv
  <2>4. Executors' = Executors \cup {t} /\ t \notin Executors
    BY <1>0, <1>1, <2>1 DEF Executors, TakeTask
  <2>5. running'[t] = Len(started) + 1 /\ \A u \in Executors : running'[u] = running[u]
    BY <1>0, <2>1, <2>2, <2>4 DEF Executors
  <2>6. \A u \in Executors : running[u] \in 1..Len(started)
    BY DEF TaskInv
  <2>7. \A u \in Executors' : running'[u] \in 1..Len(started')
    BY <2>2, <2>3, <2>4, <2>5, <2>6
  <2>8. \A u \in Executors : running'[u] # running'[t]
    BY <2>2, <2>5, <2>6
  <2>9. \A u, v \in Executors' : running'[u] = running'[v] => u = v
    BY <2>4, <2>5, <2>8 DEF TaskInv
  <2> QED BY <2>1, <2>7, <2>9 DEF TaskInv
<1>2. ASSUME NEW t \in Threads, RunTask(t) \/ LeaveLoop(t) \/ MarkFinished(t) PROVE TaskInv'
  <2>1. Executors' \subseteq Executors /\ \A u \in Executors' : running'[u] = running[u]
    BY <1>0, <1>2 DEF Executors, RunTask, LeaveLoop, MarkFinished, Goto
  <2>2. started' = started /\ stopFlag' = stopFlag /\ stopping' = stopping
    BY <1>2 DEF RunTask, LeaveLoop, MarkFinished, pool
  <2> QED BY <2>1, <2>2 DEF TaskInv
<1>3. ASSUME NEW c \in Clients, tryStart(c) PROVE TaskInv'
  <2>1. Executors' \subseteq Executors
    BY <1>0, <1>3 DEF Executors, tryStart
  <2>2. running' = running /\ started' = started /\ stopFlag' = stopFlag /\ stopping' = stopping
    BY <1>3 DEF tryStart, pool
  <2> QED BY <2>1, <2>2 DEF TaskInv
<1>4. CASE JoinWorkers
  <2>1. Executors' \subseteq Executors
    BY <1>0, <1>4 DEF Executors, JoinWorkers
  <2>2. running' = running /\ started' = started /\ stopFlag' = stopFlag
        /\ stopping # "no" /\ stopping' # "no"
    BY <1>4 DEF JoinWorkers, pool
  <2> QED BY <2>1, <2>2 DEF TaskInv
<1>5. ASSUME UNCHANGED <<at, running, started>>, stopFlag' <=> stopping' # "no" PROVE TaskInv'
  BY <1>5 DEF TaskInv, Executors
<1>6. ASSUME NEW c \in Clients, enqueueTask(c) PROVE TaskInv'
  BY <1>5, <1>6 DEF enqueueTask, TaskInv
<1>7. CASE SetStopFlag \/ LockWorkers \/ UNCHANGED vars
  BY <1>5, <1>7 DEF SetStopFlag, LockWorkers, vars, pool, TaskInv
<1> QED BY <1>1, <1>2, <1>3, <1>4, <1>6, <1>7 DEF Next, Worker

\* Every step of the pool is a step of the executor or none: what enqueueTask,
\* the pop, the return of the task, the flag and the last join do.
LEMMA StepIsPromised ==
    ASSUME OrderInv, TypeOK, MapInv, TaskInv, [Next]_vars
    PROVE  [Promise!Next]_(Promise!vars)
<1>0. at \in [Threads -> {"none", "loop", "exec", "mark", "gone"}] /\ running \in [Threads -> 0..MaxTasks]
  BY DEF TypeOK
<1>1. ASSUME NEW c \in Clients, enqueueTask(c) PROVE Promise!Accept
  <2>1. Executing' = Executing
    BY <1>1, SameExecutors DEF enqueueTask, Executors
  <2>2. Phase' = Phase
    BY <1>1 DEF enqueueTask, Phase
  <2> QED BY <1>1, <2>1, <2>2 DEF enqueueTask, Promise!Accept
<1>2. ASSUME NEW t \in Threads, TakeTask(t) PROVE Promise!Begin
  <2>1. running' = [running EXCEPT ![t] = Head(tasks)] /\ at' = [at EXCEPT ![t] = "exec"]
        /\ tasks # <<>> /\ tasks' = Tail(tasks) /\ count' = count
        /\ stopFlag' = stopFlag /\ stopping' = stopping /\ ~stopFlag /\ at[t] = "loop"
    BY <1>2 DEF TakeTask, Goto
  <2>2. Head(tasks) = Len(started) + 1 /\ Len(started) \in Nat
    BY <2>1, HeadIsNext
  <2>3. Head(tasks) \notin Executing
    BY <2>2 DEF TaskInv, Executing, Executors
  <2>4. Cardinality(Executing) < MaxThreads
    BY <2>1, PlaceIsFree
  <2>5. Executing' = Executing \cup {Head(tasks)}
    <3>1. Executors' = Executors \cup {t} /\ t \notin Executors
      BY <1>0, <2>1 DEF Executors
    <3>2. running'[t] = Head(tasks) /\ \A u \in Executors : running'[u] = running[u]
      BY <1>0, <2>1, <3>1 DEF Executors
    <3>3. Executing = {running[u] : u \in Executors} /\ Executing' = {running'[u] : u \in Executors'}
      BY DEF Executing, Executors
    <3> QED BY <3>1, <3>2, <3>3
  <2>6. Phase = "open" /\ Phase' = Phase
    BY <2>1 DEF Phase
  <2>7. Promise!Cardinality(Executing) = Cardinality(Executing)
    BY Zenon DEF Cardinality, Promise!Cardinality
  <2> QED BY <2>1, <2>3, <2>4, <2>5, <2>6, <2>7 DEF Promise!Begin
<1>3. ASSUME NEW t \in Threads, RunTask(t) PROVE \E k \in Executing : Promise!End(k)
  <2>1. t \in Executors /\ Executors' = Executors \ {t}
    BY <1>0, <1>3 DEF RunTask, Goto, Executors
  <2>2. \A u \in Executors' : running'[u] = running[u]
    BY <1>0, <1>3, <2>1 DEF RunTask, Executors
  <2>3. Executing = {running[u] : u \in Executors} /\ Executing' = {running'[u] : u \in Executors'}
    BY DEF Executing, Executors
  <2>4. Executing' = Executing \ {running[t]} /\ running[t] \in Executing
    BY <2>1, <2>2, <2>3 DEF TaskInv
  <2>5. Phase' = Phase /\ count' = count /\ tasks' = tasks
    BY <1>3 DEF RunTask, Phase, pool
  <2> QED BY <2>4, <2>5 DEF Promise!End
<1>4. ASSUME Executors' = Executors, running' = running, count' = count, tasks' = tasks,
             stopFlag' = stopFlag,
             stopping' = stopping \/ (stopping' # "done" /\ stopping # "done")
      PROVE  UNCHANGED Promise!vars
  <2>1. Executing' = Executing
    BY <1>4, SameExecutors
  <2>2. Phase' = Phase
    BY <1>4 DEF Phase
  <2> QED BY <1>4, <2>1, <2>2 DEF Promise!vars
<1>5. ASSUME NEW t \in Threads, LeaveLoop(t) \/ MarkFinished(t) PROVE UNCHANGED Promise!vars
  <2>1. Executors' = Executors
    BY <1>0, <1>5 DEF LeaveLoop, MarkFinished, Goto, Executors
  <2>2. /\ running' = running /\ count' = count /\ tasks' = tasks
        /\ stopFlag' = stopFlag /\ stopping' = stopping
    BY <1>5 DEF LeaveLoop, MarkFinished, pool
  <2> QED BY <1>4, <2>1, <2>2
<1>6. ASSUME NEW c \in Clients, tryStart(c) PROVE UNCHANGED Promise!vars
  <2>1. Executors \subseteq Unfinished
    BY DEF MapInv, Busy, Executors
  <2>2. Executors' = Executors
    BY <1>0, <1>6, <2>1 DEF tryStart, Executors
  <2>3. /\ running' = running /\ count' = count /\ tasks' = tasks
        /\ stopFlag' = stopFlag /\ stopping' = stopping
    BY <1>6 DEF tryStart, pool
  <2> QED BY <1>4, <2>2, <2>3
<1>7. CASE SetStopFlag
  <2>1. Executing' = Executing
    BY <1>7, SameExecutors DEF SetStopFlag, Executors
  <2>2. Phase = "open" /\ Phase' = "closing"
    BY <1>7 DEF SetStopFlag, Phase, TaskInv
  <2> QED BY <1>7, <2>1, <2>2 DEF SetStopFlag, pool, Promise!Close, Promise!Next
<1>8. CASE LockWorkers
  <2>1. UNCHANGED Promise!vars
    BY <1>4, <1>8 DEF LockWorkers, pool, Executors
  <2> QED BY <2>1
<1>9. CASE JoinWorkers
  <2>1. Executors = {} /\ Executors' = {}
    BY <1>0, <1>9 DEF JoinWorkers, Executors, MapInv, Busy, Unfinished
  <2>2. Executing = {} /\ Executing' = {}
    BY <2>1 DEF Executing, Executors
  <2>3. Phase = "closing" /\ Phase' = "closed"
    BY <1>9 DEF JoinWorkers, Phase, TaskInv
  <2> QED BY <1>9, <2>2, <2>3 DEF JoinWorkers, pool, Promise!Closed, Promise!Next
<1>10. CASE UNCHANGED vars
  <2>1. /\ running' = running /\ count' = count /\ tasks' = tasks
        /\ stopFlag' = stopFlag /\ stopping' = stopping
    BY <1>10 DEF vars, pool
  <2>2. Executors' = Executors
    BY <1>10 DEF vars, Executors
  <2>3. UNCHANGED Promise!vars
    BY <1>4, <2>1, <2>2
  <2> QED BY <2>3
<1> QED BY <1>1, <1>2, <1>3, <1>5, <1>6, <1>7, <1>8, <1>9, <1>10 DEF Next, Worker, Promise!Next

\* The pool implements the executor, for any threads, clients, tasks and limit:
\* each task is executed at most once and in order, at most maxThreads at a time,
\* none is begun after the flag and none is left when stop() has returned.
THEOREM PoolIsAnExecutor == Spec => KeepsPromise
<1>1. Init => Promise!Init
  <2> SUFFICES ASSUME Init PROVE Promise!Init
    OBVIOUS
  <2>1. Executing = {} /\ Phase = "open"
    BY DEF Init, Executing, Phase
  <2> QED BY <2>1 DEF Init, Promise!Init
<1>2. Init => ShapeInv /\ MapInv /\ OrderInv /\ TaskInv
  <2> SUFFICES ASSUME Init PROVE OrderInv /\ TaskInv
    BY MapInit
  <2>1. Executors = {}
    BY DEF Init, Executors
  <2> QED BY <2>1, PoolConstants DEF Init, OrderInv, TaskInv
<1>3. OrderInv /\ TypeOK /\ MapInv /\ TaskInv /\ [Next]_vars => [Promise!Next]_(Promise!vars)
  BY StepIsPromised
<1> QED BY <1>1, <1>2, <1>3, TypeCorrect, OrderStep, MapStep, TaskStep, PTL
        DEF Spec, KeepsPromise, Promise!Spec
=============================================================================

----------------------------- MODULE CThreadPool ----------------------------
(***************************************************************************)
(* new_CPP_ThreadPool/BO_threadPool/threadpool.c: the C thread pool with a *)
(* bounded ring of tasks, one mutex and one condition variable.            *)
(*                                                                         *)
(* A critical section that neither waits nor leaks the mutex is one step   *)
(* taken while the mutex is free.  The mutex is a variable because two     *)
(* paths keep it: a worker between its last decrement of thread_count and  *)
(* its unlock, and a second threadpool_destroy, which returns holding it.  *)
(* The unlocked reads of thread_count in threadpool_destroy and            *)
(* threadpool_free are steps of their own.                                 *)
(***************************************************************************)
EXTENDS Integers, Sequences, FiniteSets

CONSTANTS Task,         \* what a client may submit (function and argument)
          NumThreads,   \* thread_count passed to threadpool_create
          QueueSize,    \* queue_size passed to threadpool_create
          Destroyers,   \* the threads that call threadpool_destroy
          MaxAdds,      \* bound: how many tasks are accepted in a behaviour
          None          \* no holder of the mutex; memory that was never set

Workers == 1..NumThreads

ASSUME PoolAssumption ==
    /\ NumThreads \in Nat \ {0}
    /\ QueueSize \in Nat \ {0}
    /\ MaxAdds \in Nat
    /\ None \notin Workers \cup Task
    /\ None \notin Destroyers
    /\ Workers \cap Destroyers = {}

VARIABLES
    phase,          \* threadpool_create: "creating", "ready" or "failed"
    thread_count, queue_front, queue_rear, queue_count, shutdown, task_queue,
    lock,           \* the thread that holds the mutex, or None
    wpc,            \* where each worker is
    running,        \* the task a worker runs
    dpc,            \* where each caller of threadpool_destroy is
    joinAt,         \* its loop variable i
    ret,            \* what its call returned
    memory,         \* "allocated", "arrays_freed" (threads, task_queue), "freed"
    misuse,         \* a caller used the pool after it was freed
    addRet,         \* what the last threadpool_add returned
    accepted,       \* history: the tasks accepted, in order
    started         \* history: the tasks taken out of the queue, in order

queueVars == <<queue_front, queue_rear, queue_count, task_queue>>
histVars == <<addRet, accepted, started>>
destroyVars == <<dpc, joinAt, ret, memory, misuse>>
vars == <<phase, thread_count, queue_front, queue_rear, queue_count, shutdown,
          task_queue, lock, wpc, running, dpc, joinAt, ret, memory, misuse,
          addRet, accepted, started>>

Waiting == {w \in Workers : wpc[w] = "waiting"}
Ready == {w \in Workers : wpc[w] = "ready"}

\* The workers that threadpool_create started and that have not yet decremented
\* thread_count.
Counted == {w \in Workers : wpc[w] \in {"ready", "waiting", "running"}}

-----------------------------------------------------------------------------
(* threadpool_create *)

Init ==
    /\ phase = "creating"
    /\ thread_count = 0
    /\ queue_front = 0
    /\ queue_rear = 0
    /\ queue_count = 0
    /\ shutdown = FALSE
    /\ task_queue = [i \in 0..(QueueSize - 1) |-> None]
    /\ lock = None
    /\ wpc = [w \in Workers |-> "unborn"]
    /\ running = [w \in Workers |-> None]
    /\ dpc = [d \in Destroyers |-> "idle"]
    /\ joinAt = [d \in Destroyers |-> 0]
    /\ ret = [d \in Destroyers |-> "none"]
    /\ memory = "allocated"
    /\ misuse = FALSE
    /\ addRet = "none"
    /\ accepted = << >>
    /\ started = << >>

\* One turn of the creation loop; the last one makes the pool available.
CreateThread ==
    /\ phase = "creating"
    /\ wpc' = [wpc EXCEPT ![thread_count + 1] = "ready"]
    /\ thread_count' = thread_count + 1
    /\ phase' = IF thread_count + 1 = NumThreads THEN "ready" ELSE "creating"
    /\ UNCHANGED <<queueVars, shutdown, lock, running, destroyVars, histVars>>

\* pthread_create fails: the pool goes to threadpool_destroy, no client sees it.
CreateFail ==
    /\ phase = "creating"
    /\ phase' = "failed"
    /\ UNCHANGED <<thread_count, queueVars, shutdown, lock, wpc, running,
                   destroyVars, histVars>>

-----------------------------------------------------------------------------
(* threadpool_add *)

\* Slips: a signal only when the queue was empty; no signal.
SignalWhenEmpty ==
    IF queue_count = 0 /\ Waiting # {}
    THEN \E w \in Waiting : wpc' = [wpc EXCEPT ![w] = "ready"]
    ELSE UNCHANGED wpc
SignalNobody == UNCHANGED wpc

\* pthread_cond_signal wakes one of the waiting workers, if there is one.
Signal ==
    \/ Waiting = {} /\ UNCHANGED wpc
    \/ \E w \in Waiting : wpc' = [wpc EXCEPT ![w] = "ready"]

AddAccepted(t) ==
    /\ ~shutdown
    /\ queue_count # QueueSize
    /\ Len(accepted) < MaxAdds
    /\ task_queue' = [task_queue EXCEPT ![queue_rear] = t]
    /\ queue_rear' = (queue_rear + 1) % QueueSize
    /\ queue_count' = queue_count + 1
    /\ Signal
    /\ addRet' = "SUCCESS"
    /\ accepted' = Append(accepted, t)
    /\ UNCHANGED queue_front

AddRejected ==
    /\ addRet' = IF shutdown THEN "SHUTDOWN" ELSE "QUEUE_FULL"
    /\ shutdown \/ queue_count = QueueSize
    /\ UNCHANGED <<queueVars, wpc, accepted>>

Add(t) ==
    /\ phase = "ready"
    /\ memory # "freed"
    /\ lock = None
    /\ AddAccepted(t) \/ AddRejected
    /\ UNCHANGED <<phase, thread_count, shutdown, lock, running, destroyVars,
                   started>>

-----------------------------------------------------------------------------
(* threadpool_thread *)

WorkerWait(w) ==
    /\ queue_count = 0
    /\ ~shutdown
    /\ wpc' = [wpc EXCEPT ![w] = "waiting"]
    /\ UNCHANGED <<thread_count, queueVars, lock, running, started>>

\* Slip: front is not advanced.
WorkerTakeInPlace(w) ==
    /\ queue_count # 0
    /\ ~shutdown
    /\ running' = [running EXCEPT ![w] = task_queue[queue_front]]
    /\ queue_count' = queue_count - 1
    /\ wpc' = [wpc EXCEPT ![w] = "running"]
    /\ started' = Append(started, task_queue[queue_front])
    /\ UNCHANGED <<thread_count, queue_front, queue_rear, task_queue, lock>>

WorkerTake(w) ==
    /\ queue_count # 0
    /\ ~shutdown
    /\ running' = [running EXCEPT ![w] = task_queue[queue_front]]
    /\ queue_front' = (queue_front + 1) % QueueSize
    /\ queue_count' = queue_count - 1
    /\ wpc' = [wpc EXCEPT ![w] = "running"]
    /\ started' = Append(started, task_queue[queue_front])
    /\ UNCHANGED <<thread_count, queue_rear, task_queue, lock>>

\* The worker leaves its loop with the mutex held.
WorkerLeave(w) ==
    /\ shutdown
    /\ thread_count' = thread_count - 1
    /\ wpc' = [wpc EXCEPT ![w] = "exiting"]
    /\ lock' = w
    /\ UNCHANGED <<queueVars, running, started>>

\* The head of the loop, and the return from pthread_cond_wait: with the mutex
\* acquired, the worker waits, takes a task or leaves.
WorkerLoop(w) ==
    /\ wpc[w] = "ready"
    /\ lock = None
    /\ WorkerWait(w) \/ WorkerTake(w) \/ WorkerLeave(w)
    /\ UNCHANGED <<phase, shutdown, destroyVars, addRet, accepted>>

WorkerFinishTask(w) ==
    /\ wpc[w] = "running"
    /\ wpc' = [wpc EXCEPT ![w] = "ready"]
    /\ UNCHANGED <<phase, thread_count, queueVars, shutdown, lock, running,
                   destroyVars, histVars>>

\* Slip: the worker ends with the mutex held.
WorkerExitLocked(w) ==
    /\ wpc[w] = "exiting"
    /\ wpc' = [wpc EXCEPT ![w] = "exited"]
    /\ UNCHANGED <<phase, thread_count, queueVars, shutdown, lock, running,
                   destroyVars, histVars>>

WorkerUnlockAndExit(w) ==
    /\ wpc[w] = "exiting"
    /\ lock' = None
    /\ wpc' = [wpc EXCEPT ![w] = "exited"]
    /\ UNCHANGED <<phase, thread_count, queueVars, shutdown, running,
                   destroyVars, histVars>>

\* pthread_cond_wait may return without a signal.
SpuriousWakeup(w) ==
    /\ wpc[w] = "waiting"
    /\ wpc' = [wpc EXCEPT ![w] = "ready"]
    /\ UNCHANGED <<phase, thread_count, queueVars, shutdown, lock, running,
                   destroyVars, histVars>>

-----------------------------------------------------------------------------
(* threadpool_destroy and threadpool_free *)

\* The first call raises the flag, wakes every waiting worker and unlocks.
DestroyFirst(d) ==
    /\ ~shutdown
    /\ shutdown' = TRUE
    /\ wpc' = [w \in Workers |-> IF wpc[w] = "waiting" THEN "ready" ELSE wpc[w]]
    /\ dpc' = [dpc EXCEPT ![d] = "join_test"]
    /\ UNCHANGED <<lock, ret>>

\* A later call breaks out before the unlock and returns with the mutex held.
DestroyAgain(d) ==
    /\ shutdown
    /\ lock' = d
    /\ ret' = [ret EXCEPT ![d] = "SHUTDOWN"]
    /\ dpc' = [dpc EXCEPT ![d] = "returned"]
    /\ UNCHANGED <<shutdown, wpc>>

\* When threadpool_create fails, its own call of threadpool_destroy is the only
\* one: nobody else has the pointer.
DestroyBegin(d) ==
    /\ phase # "creating"
    /\ phase = "failed" => \A e \in Destroyers : dpc[e] = "idle"
    /\ dpc[d] = "idle"
    /\ memory # "freed"
    /\ lock = None
    /\ DestroyFirst(d) \/ DestroyAgain(d)
    /\ UNCHANGED <<phase, thread_count, queueVars, running, joinAt, memory,
                   misuse, histVars>>

\* A call on a pool that was already freed is undefined: it never returns here.
DestroyFreed(d) ==
    /\ phase = "ready"
    /\ dpc[d] = "idle"
    /\ memory = "freed"
    /\ misuse' = TRUE
    /\ dpc' = [dpc EXCEPT ![d] = "undefined"]
    /\ UNCHANGED <<phase, thread_count, queueVars, shutdown, lock, wpc, running,
                   joinAt, ret, memory, histVars>>

\* i < pool->thread_count, read without the mutex.
DestroyJoinTest(d) ==
    /\ dpc[d] = "join_test"
    /\ dpc' = [dpc EXCEPT ![d] = IF joinAt[d] < thread_count
                                 THEN "join" ELSE "free_test"]
    /\ UNCHANGED <<phase, thread_count, queueVars, shutdown, lock, wpc, running,
                   joinAt, ret, memory, misuse, histVars>>

\* pthread_join(threads[i]) returns once worker i + 1 has exited.
DestroyJoin(d) ==
    /\ dpc[d] = "join"
    /\ wpc[joinAt[d] + 1] = "exited"
    /\ joinAt' = [joinAt EXCEPT ![d] = @ + 1]
    /\ dpc' = [dpc EXCEPT ![d] = "join_test"]
    /\ UNCHANGED <<phase, thread_count, queueVars, shutdown, lock, wpc, running,
                   ret, memory, misuse, histVars>>

\* threadpool_free refuses while threads are counted; its answer is ignored and
\* threadpool_destroy returns success all the same.
FreeRefused(d) ==
    /\ thread_count > 0
    /\ dpc' = [dpc EXCEPT ![d] = "returned"]
    /\ ret' = [ret EXCEPT ![d] = "SUCCESS"]
    /\ UNCHANGED memory

\* Slip: the memory goes while threads are counted.
FreeArraysUnchecked(d) ==
    /\ memory' = "arrays_freed"
    /\ dpc' = [dpc EXCEPT ![d] = "free_lock"]
    /\ UNCHANGED ret

FreeArrays(d) ==
    /\ thread_count <= 0
    /\ memory' = "arrays_freed"
    /\ dpc' = [dpc EXCEPT ![d] = "free_lock"]
    /\ UNCHANGED ret

FreeTest(d) ==
    /\ dpc[d] = "free_test"
    /\ FreeRefused(d) \/ FreeArrays(d)
    /\ UNCHANGED <<phase, thread_count, queueVars, shutdown, lock, wpc, running,
                   joinAt, misuse, histVars>>

\* The mutex is taken, destroyed and freed with the pool.
FreePool(d) ==
    /\ dpc[d] = "free_lock"
    /\ lock = None
    /\ memory' = "freed"
    /\ dpc' = [dpc EXCEPT ![d] = "returned"]
    /\ ret' = [ret EXCEPT ![d] = "SUCCESS"]
    /\ UNCHANGED <<phase, thread_count, queueVars, shutdown, lock, wpc, running,
                   joinAt, misuse, histVars>>

-----------------------------------------------------------------------------
Create == CreateThread \/ CreateFail

WorkerStep(w) ==
    \/ WorkerLoop(w)
    \/ WorkerFinishTask(w)
    \/ WorkerUnlockAndExit(w)

DestroyStep(d) ==
    \/ DestroyJoinTest(d)
    \/ DestroyJoin(d)
    \/ FreeTest(d)
    \/ FreePool(d)

Next ==
    \/ Create
    \/ \E t \in Task : Add(t)
    \/ \E w \in Workers : WorkerStep(w) \/ SpuriousWakeup(w)
    \/ \E d \in Destroyers : DestroyBegin(d) \/ DestroyFreed(d) \/ DestroyStep(d)

Spec == Init /\ [][Next]_vars

\* Threads are scheduled, tasks end, and a started threadpool_destroy goes on.
Fairness ==
    /\ WF_vars(Create)
    /\ \A w \in Workers : WF_vars(WorkerStep(w))
    /\ \A d \in Destroyers : WF_vars(DestroyStep(d))

FairSpec == Spec /\ Fairness

-----------------------------------------------------------------------------
(* What makes the pool correct *)

\* Types, with the queue never holding more than queue_size tasks and a worker
\* running only what a client submitted.
TypeOK ==
    /\ phase \in {"creating", "ready", "failed"}
    /\ thread_count \in 0..NumThreads
    /\ queue_front \in 0..(QueueSize - 1)
    /\ queue_rear \in 0..(QueueSize - 1)
    /\ queue_count \in 0..QueueSize
    /\ shutdown \in BOOLEAN
    /\ task_queue \in [0..(QueueSize - 1) -> Task \cup {None}]
    /\ lock \in Workers \cup Destroyers \cup {None}
    /\ wpc \in [Workers -> {"unborn", "ready", "waiting", "running", "exiting",
                            "exited"}]
    /\ running \in [Workers -> Task \cup {None}]
    /\ dpc \in [Destroyers -> {"idle", "join_test", "join", "free_test",
                               "free_lock", "returned", "undefined"}]
    /\ joinAt \in [Destroyers -> 0..NumThreads]
    /\ ret \in [Destroyers -> {"none", "SUCCESS", "SHUTDOWN"}]
    /\ memory \in {"allocated", "arrays_freed", "freed"}
    /\ misuse \in BOOLEAN
    /\ addRet \in {"none", "SUCCESS", "QUEUE_FULL", "SHUTDOWN"}
    /\ accepted \in Seq(Task)
    /\ started \in Seq(Task)

\* The tasks in the ring, oldest first.
Contents ==
    [k \in 1..queue_count |-> task_queue[(queue_front + k - 1) % QueueSize]]

\* Every accepted task is started at most once, in the order of acceptance, and
\* until then is in the ring: the three integers that describe the ring stay
\* consistent with it through every wrap.
ExactlyOnceInOrder == accepted = started \o Contents

\* No wake-up is lost: as long as a worker sleeps, there are at least as many
\* workers on their way to the queue as there are tasks in it, although
\* threadpool_add signals only one of them and a task can be taken by a worker
\* that was never asleep.
NoLostWakeup ==
    ~shutdown /\ Waiting # {} => queue_count <= Cardinality(Ready)

\* After threadpool_destroy raised the flag nobody sleeps on the condition
\* variable: the one broadcast reaches every worker that will ever wait.
NobodySleepsThroughShutdown == shutdown => Waiting = {}

\* thread_count, which threadpool_free and the join loop read without the mutex,
\* is the number of threads that have not left their loop.
ThreadCountExact == thread_count = Cardinality(Counted)

\* threadpool_free never pulls the memory from under a worker: the arrays go
\* when every worker has left its loop, the mutex when every worker has also
\* given it back.
FreeIsSafe ==
    /\ memory # "allocated" => Counted = {}
    /\ memory = "freed" => \A w \in Workers : wpc[w] # "exiting"

\* An accepted task is started, unless the pool is destroyed first.
AcceptedStarts ==
    \A k \in 1..MaxAdds :
        (Len(accepted) >= k) ~> (Len(started) >= k \/ shutdown)

\* A second call found the flag raised and returned with the mutex held.
CalledTwice == \E d \in Destroyers : ret[d] = "SHUTDOWN"

\* A call of threadpool_destroy comes back: unless a second call keeps the mutex,
\* its joins are not left waiting for a worker that sleeps or that cannot get the
\* mutex.
DestroyReturns ==
    \A d \in Destroyers :
        (dpc[d] \notin {"idle", "undefined"}) ~> (dpc[d] = "returned" \/ CalledTwice)

-----------------------------------------------------------------------------
(* Why it is correct: the inductive invariant *)

\* While threadpool_create runs, thread_count is also the number of the last
\* thread it created, and nobody else has the pool.
CreationInv ==
    phase = "creating" =>
        /\ thread_count < NumThreads
        /\ \A w \in Workers : thread_count < w => wpc[w] = "unborn"
        /\ ~shutdown
        /\ memory = "allocated"
        /\ \A d \in Destroyers : dpc[d] = "idle"

\* A worker that left its loop holds the mutex until it unlocks it.
LockInv == \A w \in Workers : wpc[w] = "exiting" => lock = w

\* The join loop and threadpool_free run after the flag was raised.
DestroyInv ==
    /\ \A d \in Destroyers :
          dpc[d] \in {"join_test", "join", "free_test", "free_lock"} => shutdown
    /\ memory # "allocated" => shutdown
    /\ \A d \in Destroyers : dpc[d] = "join" => joinAt[d] < NumThreads
    /\ \A d \in Destroyers : dpc[d] = "free_lock" => memory # "allocated"

\* The ring: rear is queue_count places after front, and the places in between
\* hold tasks.
RingInv ==
    /\ queue_rear = (queue_front + queue_count) % QueueSize
    /\ \A k \in 0..(queue_count - 1) :
          task_queue[(queue_front + k) % QueueSize] \in Task

\* The inductive invariant of threadpool.c: the counter that is read without
\* the mutex, the holder of the mutex, the state of the memory and the ring
\* agree with what every thread is doing.
Inv ==
    /\ TypeOK /\ CreationInv /\ LockInv /\ DestroyInv /\ RingInv
    /\ ThreadCountExact /\ FreeIsSafe /\ NobodySleepsThroughShutdown
    /\ NoLostWakeup /\ ExactlyOnceInOrder
=============================================================================

---------------------------- MODULE CppThreadPool ---------------------------
(***************************************************************************)
(* new_CPP_ThreadPool/OO_threadPool/ThreadPool.{h,cpp}: the C++ pool with  *)
(* an unbounded std::queue, one mutex, the condition variables `condition` *)
(* (workers) and `finished` (callers of wait_for_completion), and futures. *)
(*                                                                         *)
(* A critical section is one step taken while the mutex is free, with one  *)
(* exception: the predicate of a worker's wait and the wait itself are two *)
(* steps, the mutex being held in between, because the constructor's error *)
(* path stores `stop` without the mutex.  Every notify that the code       *)
(* issues after unlocking is a step of its own.                            *)
(***************************************************************************)
EXTENDS Integers, Sequences, FiniteSets

CONSTANTS NumThreads,    \* number of threads asked of the constructor
          Producers,     \* threads that call enqueue
          Closers,       \* threads that close the pool (or destroy it)
          Waiters,       \* threads that call wait_for_completion
          CloseCalls,    \* what closers call, within {"shutdown", "shutdown_now"}
          WaitCalls,     \* how waiters wait, within {"forever", "timed"}
          CtorMayFail,   \* may the creation of a thread fail?
          MaxTasks,      \* bound: how many tasks are accepted in a behaviour
          None           \* no holder of the mutex

Workers == 1..NumThreads
TaskIds == 1..MaxTasks

ASSUME PoolAssumption ==
    /\ NumThreads \in Nat \ {0}
    /\ MaxTasks \in Nat
    /\ CloseCalls \subseteq {"shutdown", "shutdown_now"}
    /\ WaitCalls \subseteq {"forever", "timed"}
    /\ CtorMayFail \in BOOLEAN
    /\ None \notin Workers
    /\ IsFiniteSet(Producers)

VARIABLES
    ctor,        \* "running", "done", or where its error path is
    workers,     \* how many threads the vector holds
    tasks,       \* the queue of task numbers
    stop, active_threads, completed_tasks,
    mutex,       \* the worker that keeps the mutex across steps, or None
    wpc,         \* where each worker is
    cur,         \* the task a worker has taken, or 0
    ppc,         \* where each producer is
    cpc, call,   \* where each closer is, and which function it called
    joinAt,      \* the thread that the joining closer, or the constructor, joins
    xpc, timed,  \* where each waiter is, and how it waits
    accepted,    \* how many tasks were accepted; task k is the kth
    future       \* what the future of each task holds

workerVars == <<wpc, cur>>
closeVars == <<cpc, call>>
waitVars == <<xpc, timed>>
vars == <<ctor, workers, tasks, stop, active_threads, completed_tasks, mutex,
          wpc, cur, ppc, cpc, call, joinAt, xpc, timed, accepted, future>>

Waiting == {w \in Workers : wpc[w] = "waiting"}
Ready == {w \in Workers : wpc[w] = "ready"}
Busy == {w \in Workers : wpc[w] \in {"running", "finishing"}}

\* Slip: the tasks that are being run are forgotten.
IdleQueueEmpty == tasks = << >>

Idle == tasks = << >> /\ active_threads = 0     \* wait_for_completion's predicate

-----------------------------------------------------------------------------
(* Constructor *)

Init ==
    /\ ctor = "running"
    /\ workers = 0
    /\ tasks = << >>
    /\ stop = FALSE
    /\ active_threads = 0
    /\ completed_tasks = 0
    /\ mutex = None
    /\ wpc = [w \in Workers |-> "unborn"]
    /\ cur = [w \in Workers |-> 0]
    /\ ppc = [p \in Producers |-> "idle"]
    /\ cpc = [c \in Closers |-> "idle"]
    /\ call = [c \in Closers |-> "none"]
    /\ joinAt = 1
    /\ xpc = [x \in Waiters |-> "idle"]
    /\ timed = [x \in Waiters |-> FALSE]
    /\ accepted = 0
    /\ future = [k \in TaskIds |-> "none"]

CtorThread ==
    /\ ctor = "running"
    /\ workers' = workers + 1
    /\ wpc' = [wpc EXCEPT ![workers + 1] = "ready"]
    /\ ctor' = IF workers + 1 = NumThreads THEN "done" ELSE "running"
    /\ UNCHANGED <<tasks, stop, active_threads, completed_tasks, mutex, cur, ppc,
                   closeVars, joinAt, waitVars, accepted, future>>

\* catch (...): stop is stored without the mutex.
CtorFail ==
    /\ CtorMayFail
    /\ ctor = "running"
    /\ stop' = TRUE
    /\ ctor' = "notify"
    /\ UNCHANGED <<workers, tasks, active_threads, completed_tasks, mutex,
                   workerVars, ppc, closeVars, joinAt, waitVars, accepted, future>>

\* condition.notify_all
WakeAll == wpc' = [w \in Workers |-> IF wpc[w] = "waiting" THEN "ready" ELSE wpc[w]]

CtorNotifyAll ==
    /\ ctor = "notify"
    /\ WakeAll
    /\ ctor' = "join"
    /\ UNCHANGED <<workers, tasks, stop, active_threads, completed_tasks, mutex,
                   cur, ppc, closeVars, joinAt, waitVars, accepted, future>>

\* Join the threads in order, then throw.
CtorJoin ==
    /\ ctor = "join"
    /\ \/ /\ joinAt <= workers
          /\ wpc[joinAt] = "exited"
          /\ joinAt' = joinAt + 1
          /\ UNCHANGED ctor
       \/ /\ joinAt > workers
          /\ ctor' = "thrown"
          /\ UNCHANGED joinAt
    /\ UNCHANGED <<workers, tasks, stop, active_threads, completed_tasks, mutex,
                   workerVars, ppc, closeVars, waitVars, accepted, future>>

-----------------------------------------------------------------------------
(* enqueue *)

\* Under the mutex: throw when stopped, else queue the task.
EnqueueAccept(p) ==
    /\ ~stop
    /\ accepted < MaxTasks
    /\ accepted' = accepted + 1
    /\ tasks' = Append(tasks, accepted + 1)
    /\ future' = [future EXCEPT ![accepted + 1] = "pending"]
    /\ ppc' = [ppc EXCEPT ![p] = "notify"]

EnqueueThrow(p) ==
    /\ stop
    /\ ppc' = [ppc EXCEPT ![p] = "thrown"]
    /\ UNCHANGED <<accepted, tasks, future>>

Enqueue(p) ==
    /\ ctor = "done"
    /\ ppc[p] = "idle"
    /\ mutex = None
    /\ EnqueueAccept(p) \/ EnqueueThrow(p)
    /\ UNCHANGED <<ctor, workers, stop, active_threads, completed_tasks, mutex,
                   workerVars, closeVars, joinAt, waitVars>>

\* Slip: no notification.
EnqueueNotifyNobody(p) ==
    /\ ppc[p] = "notify"
    /\ ppc' = [ppc EXCEPT ![p] = "idle"]
    /\ UNCHANGED <<ctor, workers, tasks, stop, active_threads, completed_tasks,
                   mutex, wpc, cur, closeVars, joinAt, waitVars, accepted, future>>

\* condition.notify_one, after the mutex was released.
EnqueueNotify(p) ==
    /\ ppc[p] = "notify"
    /\ ppc' = [ppc EXCEPT ![p] = "idle"]
    /\ \/ Waiting = {} /\ UNCHANGED wpc
       \/ \E w \in Waiting : wpc' = [wpc EXCEPT ![w] = "ready"]
    /\ UNCHANGED <<ctor, workers, tasks, stop, active_threads, completed_tasks,
                   mutex, cur, closeVars, joinAt, waitVars, accepted, future>>

-----------------------------------------------------------------------------
(* worker_thread *)

\* The predicate of the wait is false: go to sleep, still with the mutex.
WorkerBlock(w) ==
    /\ ~stop /\ tasks = << >>
    /\ mutex' = w
    /\ wpc' = [wpc EXCEPT ![w] = "blocking"]
    /\ UNCHANGED <<tasks, active_threads, cur>>

WorkerExit(w) ==
    /\ stop /\ tasks = << >>
    /\ wpc' = [wpc EXCEPT ![w] = "exited"]
    /\ UNCHANGED <<tasks, active_threads, mutex, cur>>

\* Slip: the task stays in the queue.
WorkerTakeCopy(w) ==
    /\ tasks # << >>
    /\ cur' = [cur EXCEPT ![w] = Head(tasks)]
    /\ active_threads' = active_threads + 1
    /\ wpc' = [wpc EXCEPT ![w] = "running"]
    /\ UNCHANGED <<tasks, mutex>>

WorkerTake(w) ==
    /\ tasks # << >>
    /\ cur' = [cur EXCEPT ![w] = Head(tasks)]
    /\ tasks' = Tail(tasks)
    /\ active_threads' = active_threads + 1
    /\ wpc' = [wpc EXCEPT ![w] = "running"]
    /\ UNCHANGED mutex

\* The head of the loop and every return from the wait.
WorkerLoop(w) ==
    /\ wpc[w] = "ready"
    /\ mutex = None
    /\ WorkerBlock(w) \/ WorkerExit(w) \/ WorkerTake(w)
    /\ UNCHANGED <<ctor, workers, stop, completed_tasks, ppc, closeVars, joinAt,
                   waitVars, accepted, future>>

\* The wait proper releases the mutex and puts the worker to sleep, at once.
WorkerSleep(w) ==
    /\ wpc[w] = "blocking"
    /\ mutex' = None
    /\ wpc' = [wpc EXCEPT ![w] = "waiting"]
    /\ UNCHANGED <<ctor, workers, tasks, stop, active_threads, completed_tasks,
                   cur, ppc, closeVars, joinAt, waitVars, accepted, future>>

SpuriousWakeup(w) ==
    /\ wpc[w] = "waiting"
    /\ wpc' = [wpc EXCEPT ![w] = "ready"]
    /\ UNCHANGED <<ctor, workers, tasks, stop, active_threads, completed_tasks,
                   mutex, cur, ppc, closeVars, joinAt, waitVars, accepted, future>>

\* task(): the packaged task stores a value or an exception in its future.
WorkerRun(w) ==
    /\ wpc[w] = "running"
    /\ future' = [future EXCEPT ![cur[w]] = "set"]
    /\ wpc' = [wpc EXCEPT ![w] = "finishing"]
    /\ UNCHANGED <<ctor, workers, tasks, stop, active_threads, completed_tasks,
                   mutex, cur, ppc, closeVars, joinAt, waitVars, accepted>>

\* finished.notify_all
WakeWaiters == xpc' = [x \in Waiters |-> IF xpc[x] = "waiting" THEN "woken" ELSE xpc[x]]

\* Slip: nobody is told of the last task.
WorkerFinishSilent(w) ==
    /\ wpc[w] = "finishing"
    /\ mutex = None
    /\ active_threads' = active_threads - 1
    /\ completed_tasks' = completed_tasks + 1
    /\ wpc' = [wpc EXCEPT ![w] = "ready"]
    /\ cur' = [cur EXCEPT ![w] = 0]
    /\ UNCHANGED <<ctor, workers, tasks, stop, mutex, ppc, closeVars, joinAt,
                   waitVars, accepted, future>>

\* Account for the task; the last one wakes the callers of wait_for_completion.
WorkerFinish(w) ==
    /\ wpc[w] = "finishing"
    /\ mutex = None
    /\ active_threads' = active_threads - 1
    /\ completed_tasks' = completed_tasks + 1
    /\ IF tasks = << >> /\ active_threads' = 0 THEN WakeWaiters ELSE UNCHANGED xpc
    /\ wpc' = [wpc EXCEPT ![w] = "ready"]
    /\ cur' = [cur EXCEPT ![w] = 0]
    /\ UNCHANGED <<ctor, workers, tasks, stop, mutex, ppc, closeVars, joinAt,
                   timed, accepted, future>>

-----------------------------------------------------------------------------
(* shutdown (also called by the destructor) and shutdown_now *)

CloseBegin(c, f) ==
    /\ ctor = "done"
    /\ cpc[c] = "idle"
    /\ mutex = None
    /\ call' = [call EXCEPT ![c] = f]
    /\ \/ /\ stop
          /\ cpc' = [cpc EXCEPT ![c] = "returned"]
          /\ UNCHANGED <<stop, tasks, future>>
       \/ /\ ~stop
          /\ stop' = TRUE
          /\ cpc' = [cpc EXCEPT ![c] = "notify"]
          /\ IF f = "shutdown_now"
             THEN \* the swapped-out tasks are destroyed, their promises broken
                  /\ tasks' = << >>
                  /\ future' = [k \in TaskIds |->
                                  IF \E i \in DOMAIN tasks : tasks[i] = k
                                  THEN "broken" ELSE future[k]]
             ELSE UNCHANGED <<tasks, future>>
    /\ UNCHANGED <<ctor, workers, active_threads, completed_tasks, mutex,
                   workerVars, ppc, joinAt, waitVars, accepted>>

CloseNotifyAll(c) ==
    /\ cpc[c] = "notify"
    /\ WakeAll
    /\ cpc' = [cpc EXCEPT ![c] = "join"]
    /\ UNCHANGED <<ctor, workers, tasks, stop, active_threads, completed_tasks,
                   mutex, cur, ppc, call, joinAt, waitVars, accepted, future>>

\* Slip: the threads are not joined.
CloseDetach(c) ==
    /\ cpc[c] = "join"
    /\ cpc' = [cpc EXCEPT ![c] = "joined"]
    /\ UNCHANGED <<ctor, workers, tasks, stop, active_threads, completed_tasks,
                   mutex, workerVars, ppc, call, joinAt, waitVars, accepted, future>>

CloseJoin(c) ==
    /\ cpc[c] = "join"
    /\ \/ /\ joinAt <= workers
          /\ wpc[joinAt] = "exited"
          /\ joinAt' = joinAt + 1
          /\ UNCHANGED cpc
       \/ /\ joinAt > workers
          /\ cpc' = [cpc EXCEPT ![c] = "joined"]
          /\ UNCHANGED joinAt
    /\ UNCHANGED <<ctor, workers, tasks, stop, active_threads, completed_tasks,
                   mutex, workerVars, ppc, call, waitVars, accepted, future>>

-----------------------------------------------------------------------------
(* wait_for_completion *)

WaitBegin(x, f) ==
    /\ ctor = "done"
    /\ xpc[x] = "idle"
    /\ mutex = None
    /\ timed' = [timed EXCEPT ![x] = (f = "timed")]
    /\ xpc' = [xpc EXCEPT ![x] = IF Idle THEN "true" ELSE "waiting"]
    /\ UNCHANGED <<ctor, workers, tasks, stop, active_threads, completed_tasks,
                   mutex, workerVars, ppc, closeVars, joinAt, accepted, future>>

\* A wake-up, or the time limit of a timed wait, evaluates the predicate again.
WaitRecheck(x) ==
    /\ mutex = None
    /\ \/ /\ xpc[x] = "woken"
          /\ xpc' = [xpc EXCEPT ![x] = IF Idle THEN "true" ELSE "waiting"]
       \/ /\ xpc[x] \in {"waiting", "woken"}
          /\ timed[x]
          /\ xpc' = [xpc EXCEPT ![x] = IF Idle THEN "true" ELSE "false"]
    /\ UNCHANGED <<ctor, workers, tasks, stop, active_threads, completed_tasks,
                   mutex, workerVars, ppc, closeVars, joinAt, timed, accepted,
                   future>>

\* A spurious wake-up of a waiter.
WaitSpurious(x) ==
    /\ xpc[x] = "waiting"
    /\ xpc' = [xpc EXCEPT ![x] = "woken"]
    /\ UNCHANGED <<ctor, workers, tasks, stop, active_threads, completed_tasks,
                   mutex, workerVars, ppc, closeVars, joinAt, timed, accepted,
                   future>>

-----------------------------------------------------------------------------
CtorStep == CtorThread \/ CtorFail \/ CtorNotifyAll \/ CtorJoin

WorkerStep(w) ==
    WorkerLoop(w) \/ WorkerSleep(w) \/ WorkerRun(w) \/ WorkerFinish(w)

CloseStep(c) == CloseNotifyAll(c) \/ CloseJoin(c)

Next ==
    \/ CtorStep
    \/ \E p \in Producers : Enqueue(p) \/ EnqueueNotify(p)
    \/ \E w \in Workers : WorkerStep(w) \/ SpuriousWakeup(w)
    \/ \E c \in Closers : (\E f \in CloseCalls : CloseBegin(c, f)) \/ CloseStep(c)
    \/ \E x \in Waiters : \/ \E f \in WaitCalls : WaitBegin(x, f)
                          \/ WaitRecheck(x)
                          \/ WaitSpurious(x)

Spec == Init /\ [][Next]_vars

\* Threads that are inside a call of the pool are scheduled, tasks end, and a
\* mutex that is released again and again is acquired in the end (hence strong
\* fairness where it is needed to go on).  Spurious wake-ups are never owed.
Fairness ==
    /\ WF_vars(CtorStep)
    /\ \A p \in Producers : WF_vars(EnqueueNotify(p))
    /\ \A w \in Workers : SF_vars(WorkerStep(w))
    /\ \A c \in Closers : WF_vars(CloseStep(c))
    /\ \A x \in Waiters : SF_vars(WaitRecheck(x))

FairSpec == Spec /\ Fairness

-----------------------------------------------------------------------------
(* What makes the pool correct *)

\* Types.
TypeOK ==
    /\ ctor \in {"running", "done", "notify", "join", "thrown"}
    /\ workers \in 0..NumThreads
    /\ tasks \in Seq(TaskIds)
    /\ stop \in BOOLEAN
    /\ active_threads \in 0..NumThreads
    /\ completed_tasks \in 0..MaxTasks
    /\ mutex \in Workers \cup {None}
    /\ wpc \in [Workers -> {"unborn", "ready", "blocking", "waiting", "running",
                            "finishing", "exited"}]
    /\ cur \in [Workers -> 0..MaxTasks]
    /\ ppc \in [Producers -> {"idle", "notify", "thrown"}]
    /\ cpc \in [Closers -> {"idle", "notify", "join", "joined", "returned"}]
    /\ call \in [Closers -> {"none", "shutdown", "shutdown_now"}]
    /\ joinAt \in 1..(NumThreads + 1)
    /\ xpc \in [Waiters -> {"idle", "waiting", "woken", "true", "false"}]
    /\ timed \in [Waiters -> BOOLEAN]
    /\ accepted \in 0..MaxTasks
    /\ future \in [TaskIds -> {"none", "pending", "set", "broken"}]

\* A task whose future is still pending is in exactly one place: in the queue,
\* in order, or in the hands of one worker; a task that left both has its future
\* set or broken.  Nothing is run twice, nothing is forgotten.
PendingIsSomewhere ==
    /\ \A k \in TaskIds :
          (future[k] = "pending") =
             ((\E i \in DOMAIN tasks : tasks[i] = k)
              \/ (\E w \in Workers : wpc[w] = "running" /\ cur[w] = k))
    /\ \A i, j \in DOMAIN tasks : i < j => tasks[i] < tasks[j]
    /\ \A w \in Workers : wpc[w] = "running" =>
          /\ \A i \in DOMAIN tasks : cur[w] < tasks[i]
          /\ \A v \in Workers \ {w} : wpc[v] = "running" => cur[v] # cur[w]

\* When wait_for_completion returns true, every task accepted so far has been
\* run to its end, or was thrown away by shutdown_now: no worker is still inside
\* a task that it took out of a queue that looks empty.
TrueMeansCompleted ==
    [][\A x \in Waiters :
          xpc[x] # "true" /\ xpc'[x] = "true"
             => \A k \in 1..accepted : future[k] \in {"set", "broken"}]_vars

\* The call that joined the workers leaves no thread and no unresolved future
\* behind, and after a plain shutdown every accepted task was run.
JoinedMeansDone ==
    \A c \in Closers : cpc[c] = "joined" =>
        /\ \A w \in Workers : wpc[w] = "exited"
        /\ \A k \in 1..accepted : future[k] # "pending"
        /\ call[c] = "shutdown" => \A k \in 1..accepted : future[k] = "set"

\* Every future is resolved in the end: no accepted task waits in the queue
\* forever, with or without a shutdown.
FuturesResolve ==
    \A k \in TaskIds : (future[k] = "pending") ~> (future[k] \in {"set", "broken"})

\* The same, unless shutdown_now threw the tasks away.
WaitReturnsOrDropped ==
    \A x \in Waiters :
        (xpc[x] # "idle") ~> \/ xpc[x] \in {"true", "false"}
                            \/ \E c \in Closers : call[c] = "shutdown_now"

=============================================================================

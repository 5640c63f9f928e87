---------------------------- MODULE TaskQueuePool ---------------------------
(***************************************************************************)
(* CPP_ThreadPool/{BO,OO}_threadPool: ThreadPool over the blocking         *)
(* TaskQueue, with a mutex and the condition variables m_notFull and       *)
(* m_notEmpty.  The two variants differ in what a task is and in what      *)
(* doTask prints, not in their control.                                    *)
(*                                                                         *)
(* wakeup stores m_flag without the mutex, so the test of pop's wait loop  *)
(* and the wait itself are two steps, the mutex being held in between.     *)
(* stop reads the queue's size and stores m_isExit without the mutex too.  *)
(***************************************************************************)
EXTENDS Integers, Sequences, FiniteSets

CONSTANTS NumThreads,   \* threadNum
          QueSize,      \* queSize, the capacity of the queue
          Producers,    \* threads that call addTask
          TasksEach,    \* bound: how many tasks each of them adds
          None          \* no holder of the mutex

Workers == 1..NumThreads

ASSUME PoolAssumption ==
    /\ NumThreads \in Nat \ {0}
    /\ QueSize \in Nat \ {0}
    /\ IsFiniteSet(Producers)
    /\ TasksEach \in Nat \ {0}
    /\ None \notin Workers

VARIABLES
    m_que,      \* the queue: the numbers of the tasks in it
    m_flag, m_isExit,
    mutex,      \* the worker that keeps m_mtx across steps, or None
    wpc,        \* where each worker is
    cur,        \* the task a worker has popped, or 0
    ppc,        \* where each producer is
    left,       \* how many tasks it still has to add
    mpc,        \* where the main thread is: start, then stop
    at,         \* the thread it starts or joins
    quiet,      \* history: stop began after the last addTask had returned
    pushed,     \* how many tasks were pushed; task k is the kth
    done        \* the tasks that were run to their end

queueVars == <<m_que, pushed>>
mainVars == <<m_flag, m_isExit, mpc, at, quiet>>
vars == <<m_que, m_flag, m_isExit, mutex, wpc, cur, ppc, left, mpc, at, quiet,
          pushed, done>>

NotEmptyWaiters == {w \in Workers : wpc[w] = "waiting"}
NotFullWaiters == {p \in Producers : ppc[p] = "waiting"}

Init ==
    /\ m_que = << >>
    /\ m_flag = TRUE
    /\ m_isExit = FALSE
    /\ mutex = None
    /\ wpc = [w \in Workers |-> "unborn"]
    /\ cur = [w \in Workers |-> 0]
    /\ ppc = [p \in Producers |-> "push"]
    /\ left = [p \in Producers |-> TasksEach]
    /\ mpc = "start"
    /\ at = 1
    /\ quiet = FALSE
    /\ pushed = 0
    /\ done = {}

-----------------------------------------------------------------------------
(* addTask and TaskQueue::push *)

PushWait(p) ==
    /\ Len(m_que) = QueSize
    /\ ppc' = [ppc EXCEPT ![p] = "waiting"]
    /\ UNCHANGED <<queueVars, wpc, left>>

\* Slip: no worker is woken.
NotifyNoWorker == UNCHANGED wpc

\* m_notEmpty.notify_one
NotifyNotEmpty ==
    \/ NotEmptyWaiters = {} /\ UNCHANGED wpc
    \/ \E w \in NotEmptyWaiters : wpc' = [wpc EXCEPT ![w] = "pop"]

PushDone(p) ==
    /\ Len(m_que) # QueSize
    /\ m_que' = Append(m_que, pushed + 1)
    /\ pushed' = pushed + 1
    /\ NotifyNotEmpty
    /\ left' = [left EXCEPT ![p] = @ - 1]
    /\ ppc' = [ppc EXCEPT ![p] = IF left[p] = 1 THEN "finished" ELSE "push"]

Push(p) ==
    /\ ppc[p] = "push"
    /\ mutex = None
    /\ PushWait(p) \/ PushDone(p)
    /\ UNCHANGED <<mainVars, mutex, cur, done>>

SpuriousProducer(p) ==
    /\ ppc[p] = "waiting"
    /\ ppc' = [ppc EXCEPT ![p] = "push"]
    /\ UNCHANGED <<queueVars, mainVars, mutex, wpc, cur, left, done>>

-----------------------------------------------------------------------------
(* doTask and TaskQueue::pop *)

\* while (!m_isExit)
LoopTest(w) ==
    /\ wpc[w] = "loop"
    /\ wpc' = [wpc EXCEPT ![w] = IF m_isExit THEN "exited" ELSE "pop"]
    /\ UNCHANGED <<queueVars, mainVars, mutex, cur, ppc, left, done>>

PopBlock(w) ==
    /\ m_que = << >> /\ m_flag
    /\ mutex' = w
    /\ wpc' = [wpc EXCEPT ![w] = "blocking"]
    /\ UNCHANGED <<m_que, cur, ppc>>

\* Slip: no producer is woken.
NotifyNoProducer == UNCHANGED ppc

\* m_notFull.notify_one
NotifyNotFull ==
    \/ NotFullWaiters = {} /\ UNCHANGED ppc
    \/ \E p \in NotFullWaiters : ppc' = [ppc EXCEPT ![p] = "push"]

\* Slip: the task stays in the queue.
PopCopy(w) ==
    /\ m_que # << >> /\ m_flag
    /\ cur' = [cur EXCEPT ![w] = Head(m_que)]
    /\ NotifyNotFull
    /\ wpc' = [wpc EXCEPT ![w] = "running"]
    /\ UNCHANGED <<m_que, mutex>>

PopTask(w) ==
    /\ m_que # << >> /\ m_flag
    /\ cur' = [cur EXCEPT ![w] = Head(m_que)]
    /\ m_que' = Tail(m_que)
    /\ NotifyNotFull
    /\ wpc' = [wpc EXCEPT ![w] = "running"]
    /\ UNCHANGED mutex

\* An empty task: doTask goes back to its loop test.
PopNull(w) ==
    /\ ~m_flag
    /\ wpc' = [wpc EXCEPT ![w] = "loop"]
    /\ UNCHANGED <<m_que, mutex, cur, ppc>>

Pop(w) ==
    /\ wpc[w] = "pop"
    /\ mutex = None
    /\ PopBlock(w) \/ PopTask(w) \/ PopNull(w)
    /\ UNCHANGED <<pushed, mainVars, left, done>>

PopSleep(w) ==
    /\ wpc[w] = "blocking"
    /\ mutex' = None
    /\ wpc' = [wpc EXCEPT ![w] = "waiting"]
    /\ UNCHANGED <<queueVars, mainVars, cur, ppc, left, done>>

SpuriousWorker(w) ==
    /\ wpc[w] = "waiting"
    /\ wpc' = [wpc EXCEPT ![w] = "pop"]
    /\ UNCHANGED <<queueVars, mainVars, mutex, cur, ppc, left, done>>

RunTask(w) ==
    /\ wpc[w] = "running"
    /\ done' = done \cup {cur[w]}
    /\ cur' = [cur EXCEPT ![w] = 0]
    /\ wpc' = [wpc EXCEPT ![w] = "loop"]
    /\ UNCHANGED <<queueVars, mainVars, mutex, ppc, left>>

-----------------------------------------------------------------------------
(* start and stop *)

Start ==
    /\ mpc = "start"
    /\ wpc' = [wpc EXCEPT ![at] = "loop"]
    /\ mpc' = IF at = NumThreads THEN "started" ELSE "start"
    /\ at' = IF at = NumThreads THEN 1 ELSE at + 1
    /\ UNCHANGED <<queueVars, m_flag, m_isExit, quiet, mutex, cur, ppc, left,
                   done>>

StopCall ==
    /\ mpc = "started"
    /\ mpc' = "drain"
    /\ quiet' = \A p \in Producers : ppc[p] = "finished"
    /\ UNCHANGED <<queueVars, m_flag, m_isExit, at, mutex, wpc, cur, ppc, left, done>>

\* Slip: no waiting for the queue to run empty.
StopAtOnce ==
    /\ mpc = "drain"
    /\ mpc' = "exit"
    /\ UNCHANGED <<queueVars, m_flag, m_isExit, at, quiet, mutex, wpc, cur, ppc, left,
                   done>>

\* Sleep and look again until the queue is seen empty.
StopDrained ==
    /\ mpc = "drain"
    /\ m_que = << >>
    /\ mpc' = "exit"
    /\ UNCHANGED <<queueVars, m_flag, m_isExit, at, quiet, mutex, wpc, cur, ppc, left,
                   done>>

StopSetExit ==
    /\ mpc = "exit"
    /\ m_isExit' = TRUE
    /\ mpc' = "wakeup"
    /\ UNCHANGED <<queueVars, m_flag, at, quiet, mutex, wpc, cur, ppc, left,
                   done>>

\* wakeup: the flag, then notify_all, both without the mutex.
StopClearFlag ==
    /\ mpc = "wakeup"
    /\ m_flag' = FALSE
    /\ mpc' = "notify"
    /\ UNCHANGED <<queueVars, m_isExit, at, quiet, mutex, wpc, cur, ppc, left,
                   done>>

StopNotifyAll ==
    /\ mpc = "notify"
    /\ wpc' = [w \in Workers |-> IF wpc[w] = "waiting" THEN "pop" ELSE wpc[w]]
    /\ mpc' = "join"
    /\ UNCHANGED <<queueVars, m_flag, m_isExit, at, quiet, mutex, cur, ppc, left,
                   done>>

StopJoin ==
    /\ mpc = "join"
    /\ wpc[at] = "exited"
    /\ mpc' = IF at = NumThreads THEN "stopped" ELSE "join"
    /\ at' = IF at = NumThreads THEN at ELSE at + 1
    /\ UNCHANGED <<queueVars, m_flag, m_isExit, quiet, mutex, wpc, cur, ppc, left,
                   done>>

-----------------------------------------------------------------------------
WorkerStep(w) == LoopTest(w) \/ Pop(w) \/ PopSleep(w) \/ RunTask(w)

StopStep == StopDrained \/ StopSetExit \/ StopClearFlag \/ StopNotifyAll \/ StopJoin

Next ==
    \/ \E p \in Producers : Push(p) \/ SpuriousProducer(p)
    \/ \E w \in Workers : WorkerStep(w) \/ SpuriousWorker(w)
    \/ Start \/ StopCall \/ StopStep

Spec == Init /\ [][Next]_vars

\* Threads are scheduled, tasks end, and a mutex that is released again and
\* again is acquired in the end.  Nobody has to call stop.
Fairness ==
    /\ \A p \in Producers : SF_vars(Push(p))
    /\ \A w \in Workers : SF_vars(WorkerStep(w))
    /\ WF_vars(Start)
    /\ WF_vars(StopStep)

FairSpec == Spec /\ Fairness

-----------------------------------------------------------------------------
(* What makes the pool correct *)

\* Types, with the queue never beyond its capacity.
TypeOK ==
    /\ m_que \in Seq(Nat) /\ Len(m_que) <= QueSize
    /\ m_flag \in BOOLEAN /\ m_isExit \in BOOLEAN
    /\ mutex \in Workers \cup {None}
    /\ wpc \in [Workers -> {"unborn", "loop", "pop", "blocking", "waiting",
                            "running", "exited"}]
    /\ cur \in [Workers -> Nat]
    /\ ppc \in [Producers -> {"push", "waiting", "finished"}]
    /\ left \in [Producers -> 0..TasksEach]
    /\ mpc \in {"start", "started", "drain", "exit", "wakeup", "notify", "join",
                "stopped"}
    /\ at \in Workers
    /\ quiet \in BOOLEAN
    /\ pushed \in Nat
    /\ done \in SUBSET (1..pushed)

\* A task that was pushed is in the queue, in the hands of exactly one worker, or
\* done, and the queue is in the order of the pushes.
TaskInOnePlace ==
    /\ \A i \in DOMAIN m_que : m_que[i] = pushed - Len(m_que) + i
    /\ \A k \in 1..(pushed - Len(m_que)) :
          k \in done \/ \E w \in Workers : wpc[w] = "running" /\ cur[w] = k
    /\ \A w \in Workers : wpc[w] = "running" =>
          /\ cur[w] \notin done
          /\ \A i \in DOMAIN m_que : m_que[i] # cur[w]
          /\ \A v \in Workers \ {w} : wpc[v] = "running" => cur[v] # cur[w]

\* When a stop that began after the last addTask returns, every task was run to its end: the
\* queue that stop saw empty may still have had its last tasks in the hands of
\* workers, and those are joined.
StopDrains == mpc = "stopped" /\ quiet => done = 1..pushed

\* Every pushed task is run, unless the pool is being stopped.
TasksRun ==
    \A k \in 1..(Cardinality(Producers) * TasksEach) :
        (pushed >= k) ~> (k \in done \/ m_isExit)

\* Every producer gets rid of its tasks: nobody stays blocked on a full queue.
ProducersFinish ==
    \A p \in Producers : <>(ppc[p] = "finished" \/ m_isExit)

=============================================================================

# A verification of the process and thread pools

The repository is a collection of pools: thread pools in C and C++, process
pools in C, two file servers built on them, and a larger redesign
(`new_ProcessPool`) with a lock-free queue, shared memory and eventfds. This
directory holds TLA+ models of their concurrent cores, the TLC configurations
that check them on small instances, and proofs checked by TLAPS.

All paths below are relative to the repository root.

## 1. Inventory

| Component | Source | State | Operations | What is hard | What makes it correct |
|---|---|---|---|---|---|
| C thread pool | `new_CPP_ThreadPool/BO_threadPool/threadpool.c` | ring of tasks with front, rear and count, `thread_count`, `shutdown`, one mutex, one condition variable | create, add, destroy, worker loop, free | one signal per task; `thread_count` read without the mutex by destroy and free while leaving workers decrement it; a second destroy | tasks leave once and in order; no lost wake-up; memory outlives its users; workers end |
| C++ thread pool | `new_CPP_ThreadPool/OO_threadPool/ThreadPool.{h,cpp}` | `std::queue`, atomics `stop`, `active_threads`, `completed_tasks`, two condition variables, futures | constructor, enqueue, shutdown, shutdown_now, wait_for_completion, worker loop | notifications after unlocking; two closing calls at once; `stop` stored without the mutex in the constructor; a wait racing shutdown_now | futures resolve once; counters agree with the threads; closing and waiting calls return and mean what they say |
| Blocking task queue and pool | `CPP_ThreadPool/CPP_ThreadPool/{BO,OO}_threadPool` | bounded queue, `m_flag`, `m_isExit`, two condition variables | push, pop, wakeup, start, stop, addTask, doTask | flags stored without the mutex; stop polls the size; producers blocked on a full queue | each task in one place; no lost wake-up on either side; stop drains |
| Lock-free queue | `new_ProcessPool/src/core/lockfree_queue.c` | `head`, `tail` (free-running `uint32_t`), slots | enqueue, dequeue, batch forms, is_empty, is_full, size | every access interleaves; stale indices; wrap of index and ring | a bounded FIFO; no slot is touched by both sides |
| Process pool | `ProcessPool/{process_pool,worker,utils}.c` | worker table, task queue, pipes, signal flags | create, submit, get_result, run, dispatch, restart, stop, destroy; worker main | workers die at any point; descriptor numbers reused; results read by a child that holds a copy of the pool | a submitted task is answered; dead workers are replaced |
| Task manager | `new_ProcessPool/src/core/task_manager.c` | nodes and their free pool, reference counts of tasks and futures, task state, result, mutex and condition per task | create, destroy, cancel, wait, batch wait, set_result, set_error, get_result, futures | the worker finishes a task without its mutex; cancel against completion; drops in any order; rounding of time limits | a node is freed only when nobody holds it; a final state has its result; waits return |
| Worker processes | `new_ProcessPool/src/core/worker.c` | state, pid, heartbeat, monitor thread, eventfds | create, start, stop, destroy, is_alive, main loop, process_task, monitor | parent and child have copies; zombies look alive; the monitor marks a worker while another thread stops it | a worker that is replaced has been waited for, with its monitor |
| Pool manager | `new_ProcessPool/src/core/pool_manager.c` | pool state, `active_workers`, worker slots, event thread, resources | create, start, stop, resize, destroy | start failing half way; resize in any state; the event loop restarts workers without `pool_mutex` | the count matches the slots; a stopped pool has no children and no thread left |
| Event loop | `new_ProcessPool/src/core/event_loop.c` | `running`, epoll set, eventfds for submission and control, signal and timer descriptors | thread, five handlers, notify, stop | counters that add up; a handler that blocks; restarts | each task announced once; stop returns; dead workers are restarted |
| Shared-memory ring | `new_ProcessPool/src/ipc/shared_memory.c` | positions and slots in shared memory, one mutex, two conditions | create, enqueue, dequeue (blocking, timed), try forms, validate, repair | process death inside the section; one signal per call; an item as large as a slot | a FIFO; items come out as they went in; no lost wake-up |
| eventfd primitives | `new_ProcessPool/src/ipc/eventfd_utils.c` | counter and blocking mode of a descriptor | mutex, semaphore, notifier, drain, queries, validate | queries read the value and write it back; the mode is shared; the counter has a limit | mutual exclusion; units are conserved; the mode is restored |
| Metrics | `new_ProcessPool/src/utils/metrics.c` | counters, trackers (count, sum, minimum, maximum), histograms, registry under a mutex | register, record, timers, observe, reset, reports | several atomics per record; compare-and-swap loops; resets | totals agree with what was recorded |
| File server, processes | `wd_ProcessPool/serve` | table of children, socket pairs | accept, hand over, child ready | a child dies, no child free | a connection goes to one free child |
| File server, threads | `wd_ThreadPool/server` | queue of connections, exit pipe, exit flag | accept, take, exit | exit against queued connections | connections served or closed once |
| `My_ThreadPool` | `My_ThreadPool/threadpool.{hpp,cpp}` | queue, flag | worker function, constructor, destructor | (does not link: `addTask`, `notifyAll` and `notifyOne` are declared and never defined) | |

The pools do not call each other: they are alternative designs. Inside
`new_ProcessPool` `pool_manager.c` creates the lock-free queue and the submit
handler of `event_loop.c` takes from it (through a call whose signature is not
the declared one); nothing in the repository puts tasks into it yet, so the
queue is modelled for the one producer and one consumer its memory orders are
written for. The task manager's tasks are run by `worker_process_task` and
failed by the submit handler; the pool manager and the event loop both create,
stop and replace workers, from different threads. The shared-memory ring and
the eventfd mutex, semaphore and notifier are libraries nothing else calls yet.

Parts of `new_ProcessPool` do not build as they are: the event loop calls
helpers that no file defines (`update_pool_statistics`, `cleanup_expired_tasks`,
`adjust_worker_count`, `assign_task_to_worker`, `force_garbage_collection`),
uses `WORKER_STATE_RUNNING`, which is defined nowhere, and
`event_loop_cleanup` has two signatures; `event_loop_thread` is static and
`pool_manager.c:265` names it, with the pool as the argument. The models take
the reading that is plainly meant and say so in their headers.

`PROJECT.json` lists the hazards, each at its line.

## 2. Modules

| Module | Models | Kind |
|---|---|---|
| `TaskFIFO` | what a bounded task queue promises one producer and one consumer | abstract specification |
| `LockfreeQueue` | `lockfree_queue.c`, access by access | component, refines `TaskFIFO` |
| `CThreadPool` | `threadpool.c` | component |
| `CppThreadPool` | `OO_threadPool/ThreadPool.{h,cpp}` | component |
| `TaskQueuePool` | `CPP_ThreadPool`'s `TaskQueue` and `ThreadPool` | component |
| `ProcessPool` | `ProcessPool/{process_pool,worker,utils}.c`, with processes, pipes and descriptors | component |
| `TaskManager` | `task_manager.c` with `worker_process_task` and the failing path of the submit handler | components composed |
| `ShmRing` | `shared_memory.c` | component, refines `TaskFIFO` |
| `EventfdSync` | `eventfd_utils.c` | component |
| `Metrics` | latency trackers and histograms of `metrics.c` | component |
| `EventLoop` | `event_loop.c` with the workers and monitors of `worker.c` | components composed |
| `PoolManager` | `pool_manager.c` with `worker.c` and the event loop's restarts | components composed |
| `MC...` | instances for TLC | model checking |
| `LockfreeQueueProofs`, `CThreadPoolProofs`, `CppThreadPoolProofs`, `TaskQueuePoolProofs`, `ProcessPoolProofs`, `TaskManagerProofs`, `ShmRingProofs` | the theorems of the component in the name | proofs |
| `SupportProofs` | the theorems of `EventfdSync`, `PoolManager`, `EventLoop` and `Metrics` | proofs |

An operator whose comment begins with "Slip" is a plausible mistake in the
operation that follows it (a dropped test, a missing notification). No
specification uses it. It is substituted for that operation to see that the
property named with it in `PROJECT.json` notices.

### LockfreeQueue

Two actors. Each of them holds the indices it loaded (`pHead`, `pTail`, `cHead`,
`cTail`) while the other moves on. A call is: load one index, load the other and
decide, touch slots one access at a time, store its own index. `queue_enqueue`
and `queue_enqueue_batch` differ in the decision only and share the later steps,
as a batch of one is what a single call does (`lockfree_queue.c:77-84` and
`179-188`); likewise for dequeue. Indices are `uint32_t` and run freely: they
wrap at `IndexMod`, which stands for 2^32. `& mask` is `% Capacity`; the
assumption that `Capacity` divides `IndexMod` is what a power of two gives.
Atomics are `atomic_load` and `atomic_store` with their default, sequentially
consistent order (`internal.h:21-28`), with a full fence before each index
store, so interleaving is the memory model of the indices. The slots are plain;
`NoSlotRace` is the statement that they need not be more. A failed call changes
nothing and its return value is not recorded. `queue_destroy` and the benchmark
are left out.

### CThreadPool

The state is the `threadpool_t`, the program counter of each worker and of each
caller of `threadpool_destroy`, the state of the memory, and two histories
(`accepted`, `started`). A critical section that neither waits nor leaks the
mutex is one step taken while the mutex is free. Two paths keep the mutex and
are modelled with it: a worker between `thread_count--` and its unlock, and the
`break` of a second `threadpool_destroy` (`threadpool.c:127-130`), which never
unlocks. The unlocked reads of `thread_count` in the join loop and in
`threadpool_free` are steps of their own. `phase` follows `threadpool_create`,
which may fail after any thread and then destroys the half-built pool. Failures
of `malloc`, `pthread_mutex_*` and `pthread_cond_*` are not modelled. Calls on a
pool that was freed are undefined; the model marks them and lets them do nothing
else.

### CppThreadPool

Here predicate and sleep of a worker are two steps with the mutex held in
between, because the constructor's error path stores `stop` without the mutex.
Notifications that the code issues after unlocking are steps of their own.
Tasks are numbers; `future` records what becomes of each. `shutdown_now`
destroys the queued `packaged_task`s, which breaks their promises. The
destructor is one more call of `shutdown`; the state after the object is gone
is not modelled. Wait calls may be timed: the time limit can strike at any
moment. A `finished` waiter's test and sleep are one step, as every change of
the predicate is made under the mutex.

### TaskQueuePool

The main thread starts the workers and, once, calls `stop`; producers call
`addTask`. `wakeup` stores `m_flag` and notifies without the mutex, so again the
test and the sleep of a worker are separate. `m_flag` and `m_isExit` are plain
`bool`s read and written by several threads, and `stop` reads the queue's size
without the mutex. Formally these are data races; the model takes a racing read
to return the value before or after the store, which is what the loads and
stores around opaque library calls compile to. `quiet` records whether `stop`
began after the last `addTask` had returned.

### ProcessPool

The tests, the example and the README of this pool run `process_pool_run` in a
forked child; a program can also run it in a thread. `forked`, chosen in the
initial state, covers both: the pool structure (`pool`) and the descriptor table
(`fdtab`) are kept per process, and `RunBegin` copies the caller's for a forked
runner. In a thread the loop and `process_pool_get_result` share the structure
without a lock, so the read of a result and the status set after it (`GetRead`,
`GetMark`), and the write of a task and the status set after it (`DispatchSend`,
`DispatchMark`), are separate steps; the racing fields are aligned integers, read
and written whole. The task queue is not protected either, so in one process the
caller submits before it starts the loop.

`proc`, `parent`, `hold`, `toQ` and `fromQ` are the kernel: which worker
processes run, who may wait for them, which pipe ends they hold (a child inherits
all of its parent's but the far ends of its own pipes), what is in the pipes. A
worker sees the end of file when no process holds the write end. Descriptor
numbers are explicit for the masters, because `create_worker_process` keeps the
numbers of the ends it closes in the worker's structure and the kernel hands out
the lowest free number. A task and a result are smaller than `PIPE_BUF`, so reads
and writes are whole. A failing `pipe` or `fork` and a crashing worker are
faults; after a failed `pipe` the worker's structure keeps the pid it had, as only
`fork` stores one. `select` with nothing to report, a time-out and a closed number in the
set change nothing and are not steps. `TerminateWorker` is one step: SIGTERM, up
to five seconds, SIGKILL, and in either case the child is reaped.

### TaskManager

Nodes come from a pool of at most `MaxPoolSize` free ones, as in
`task_pool_alloc` and `task_pool_free`. A client creates tasks with a future and
submits them, takes further references on a future, cancels, waits with or
without a limit, waits for a batch and asks for results; an executor is either
the worker (`worker_process_task`), the event loop that fails a task it cannot
assign, or `queue_destroy`, which drops what is still queued. Loads and stores of
the state are steps apart from the mutex, because the worker never takes it.
`finisher` remembers who stored a task's final state: the worker's store wakes
nobody, and neither the worker (`worker.c:121-142`) nor the event loop
(`event_loop.c:164-178`) drops the reference that the queue had, so that a
finished task keeps it (section 5). A batch wait counts time in half
milliseconds, since `task_batch_wait` rounds what remains of its limit down to
whole ones, and 0 means "no limit".

### ShmRing

A slot is `SlotSize` cells: the size, then the data. An item fills as many cells
as it is long, in one step, so an item of `MAX_TASK_DATA_SIZE` reaches into the
next slot's header (`shared_memory.c:187`). Calls take the mutex, test, sleep or
copy, store their position, signal and unlock; each of these is a step, so that a
process can die before and after each, holding a mutex that is not robust. (A
death in the middle of the copy leaves cells nobody reads.) A consumer may have a
small buffer, a time limit, or use the try form.

### EventfdSync

One descriptor of one kind. A system call is one step; what a function does
between its calls (remembering the value, the mode, counting the event) is a
step of its own. The blocking flag is part of the open file, so
`eventfd_validate` changes it for everybody.

### Metrics

`metrics_latency_record` is an addition to the count, one to the sum, and two
compare-and-swap loops, each access a step; a reset is four stores under the
registry's mutex, which recordings do not take. `ref` records what the tracker
should hold, `mixed` the trackers whose reset overlapped a recording. Names
longer than the field are cut when stored, so that a second registration does
not find them.

### EventLoop

The loop's thread between `epoll_wait` and its handlers, each blocking point a
step; each worker with its child and its monitor thread; a submitter; two
threads in `event_loop_stop`. Two facts of the code shape the model. A worker's
structure is private memory: the parent's `last_heartbeat` stays what
`worker_create` wrote, so that every worker is "not alive" after the time limit,
and the child's copy of the state is `STARTING`, so that `worker_main_loop` ends
at once. And a dead child is a zombie, which `kill(pid, 0)` finds, until
`worker_stop` waits for it.

### PoolManager

Callers take `pool_mutex` and go over the slots one at a time. The event loop's
thread restarts a worker it finds dead WITHOUT the mutex
(`event_loop.c:211-239`), so `worker_stop`, `worker_destroy`, `worker_create` and
`worker_start` are steps: every test, store, `waitpid`, `kill`, `pthread_join`
and `memset` reads what is in the slot at that moment. The holder of `pool_mutex`
(actor 0) and each event loop thread (actors 1, 2, ...) run the same definitions;
`job` says where each is and in which slot, so a stop can be refused because the
other one stored `STOPPING`, a pid can be read again as 0 or as the new child's,
and a slot found empty can be filled behind the back of `pool_stop`. `kill(0,
SIGKILL)`, which ends the whole process group, ends the behaviour. What a caller
does with the result of a slot (`done`, `nothing`) is an action of its own.
A monitor thread tests and later marks whatever worker is in its slot by then.
Histories (`stray`, `given_up`, `clash`, `gap`, `failed`) name the children, slots
and threads the code is known to lose, so that the invariants can say that it
loses no others; `clash` holds the slots that two actors had in hand at a time.
The steps of `init_pool_resources` are left out: a failed `pool_create` leaves
nothing behind.

## 3. Runs

Each passing run checks one component's safety and liveness on one instance.

| Run | Instance | Shows |
|---|---|---|
| `queue` | 2 tasks, 4 slots, indices of 8 values, batches up to 2 | safety, refinement of `TaskFIFO`, liveness |
| `cpool` | 3 workers, queue of 2, 2 destroyers, 3 tasks | safety, liveness |
| `cpp` | 2 workers, 2 producers, 2 closers, 1 waiter, 2 tasks, constructor may fail | safety, liveness |
| `taskqueue` | 2 workers, queue of 1, 4 producers with a task each | safety, liveness |
| `procpool` | 2 workers, 2 tasks, 1 fault, forked and threaded loop | safety, liveness |
| `taskmgr` | 2 nodes, a pool that keeps 1, 2 clients (one with two futures, which alone waits for a batch), 1 executor | safety, liveness |
| `shmring` | 2 producers, 2 consumers, 3 slots of 2 cells, a short and a full-size item, one small buffer, 1 death | safety, refinement of `TaskFIFO` |
| `eventfd` | 3 threads, counter full at 3, 2 permits, 5 units added, 3 queries | safety |
| `metrics` | 3 threads, 2 values, a name that fits and one that does not, 4 calls | safety |
| `eventloop` | 1 worker with 2 starts, 2 tasks, 2 stoppers | safety, liveness |
| `pool` | 2 callers, 1 to 2 workers, 2 children, 1 event loop thread, 1 clash | safety |
| `eventloop_no_restart` | 1 worker, no tasks, no stop | violation, see section 5 |

Bounds. The ring of 4 with indices of 8 values has two laps to a wrap of the
index, so every alignment of head, tail, the wrap and a batch occurs; the queue
run has no other bound (it is a finite system). Three workers and a queue of two
let a task be signalled to one worker and taken by another, twice over, and let
`threadpool_destroy` find one worker gone, one leaving and one at work;
`MaxAdds` 3 takes a queue of two around its end. Two closers are what it takes
to overlap two closing calls, and two producers to have two notifications
outstanding. Four producers on a queue of one leave up to three of them blocked
at once. Every wait on a condition variable may end without a signal.
Two workers are the fewest of which one can be restarted over the descriptors of
the other. One fault is enough for a cascade: a crash, the healthy worker that
loses its pipe, and workers that the racing reader takes for dead. Eight
processes are the most a behaviour creates, so `MaxPids` 9 is never reached, and
neither is `MaxFd`.
Two nodes and a pool that keeps one reach every path of allocation: fresh,
reused, and freed because the pool is full; a batch of the second client, of its
one future, would repeat the first client's. Three slots are the fewest with a
full ring of two, in which an item that runs over its slot can damage an unread
one. A counter that is full at 3 with 5 units to add is filled and overrun, and
three threads are two that validate around a third that locks. Three threads on
a tracker let a compare-and-swap fail twice. One worker is enough for the
restart races, since the handlers treat workers one by one; the pool run has two
slots for what depends on their order. Two children are two workers, or one and
the one that takes its place; one event loop thread is one successful or failed
`pool_start`. With `MaxClashes` 1 there is at most one slot that two actors ever
have in hand at a time, and both properties name that slot as their exception; the
theorems have any number of them, of children and of event loop threads.

Deadlock checking is off everywhere but for the queue, since a pool that was destroyed, and a
bound that is used up, rightly leave nothing to do, and some of the code's own
hangs (section 5) end a behaviour; there, liveness properties and the
invariants about sleepers say which sleep is allowed.

Fairness. `LockfreeQueue`: weak fairness of each side, as both poll.
`CThreadPool`: weak fairness of each thread's own steps, of creation and of a
started `threadpool_destroy`; nobody has to call add or destroy, and spurious
wake-ups are never owed. `CppThreadPool` and `TaskQueuePool`: strong fairness
for threads that have to acquire a mutex that others keep taking and releasing;
POSIX mutexes are not fair by specification, and this is the usual assumption
that a thread is not starved for ever. `ProcessPool`: weak fairness of the loop,
of a caller that keeps asking for results, of each worker process and of a
creation or destruction once begun; nobody has to submit, stop or destroy, and
faults are never owed. Tasks end. `TaskManager`: weak fairness of a client
inside a call, and strong fairness of the end of a timed wait, because spurious
wake-ups take a client out of the wait and back and the deadline of
`pthread_cond_timedwait` is absolute; nothing is asked of executors, so a wait may
only rely on its time limit. `EventLoop`: weak fairness of the loop's thread, of the monitors and
of a started `event_loop_stop`; `TimedSpec`, which only the violation uses, adds
that the timer is periodic, that time passes and that a child's main loop ends.
`ShmRing`, `EventfdSync`, `Metrics` and `PoolManager` are checked for safety
only.

## 4. Properties worth a word

* `ImplementsFIFO`: the store of `tail` accepts the whole batch, the store of
  `head` hands out; the mapping reads tasks that the consumer has taken out of
  their slots, but not yet accounted for, from the consumer's locals.
* `NoSlotRace`: although `tasks[...] = NULL` in dequeue looks like it could wipe
  out a task written one lap later, the producer never reaches a slot before
  `head` has passed it.
* `NoLostWakeup` (C pool, shared-memory ring): as long as a thread sleeps, the threads on their
  way to the queue (and notifications still to come) suffice for what is queued.
* `FreeIsSafe`: `threadpool_free` trusts an unlocked `thread_count`. It is
  nevertheless safe, since the count reaches zero only when every worker has
  left its loop, and the lock taken before `pthread_mutex_destroy` waits for the
  last of them to unlock.
* `TrueMeansCompleted`: a queue that is empty while tasks are
  being run is never taken for completion.
* `AllWorkersExit`: later workers inherit the write ends of earlier workers'
  task pipes, so closing them in the master is not enough for an end of file.
  It still comes, since the inheritance follows the order of creation: the
  youngest ends first. This matters for workers that nobody terminates, the
  ones whose pid a restart overwrote and the ones a forked runner started.
* `DescriptorsClosed`: closing by stale numbers closes too much, and yet leaves
  nothing open at the end.
* `RefcountSafe`: the reference count is at every step, not only at rest, the
  number of owners: the future while a client holds it, the queue, the
  threads that have a reference still to drop, and the one reference nobody ever
  drops, a finished task's.
* `OnlyWorkerCompletionIsSilent`: of the four ways a task can end only the
  worker's leaves waiters asleep; the event loop's store before its locked
  broadcast, which looks wrong, is not.
* `RingIntact`: a death at any point leaves the unread items whole; the only
  damage is the overrun of a full-size item.
* `UnitsConserved`: a query that reads a value and writes it back loses nothing
  unless the counter has filled up meanwhile, and a mutex's cannot.
* `RestartOrderly`, `StoppedIsQuiet`: the only children lost are those of
  workers a monitor had marked `ERROR` first (`worker_stop` refuses them), those
  of a resize of a pool that is not running, and those of a slot that the event
  loop and the holder of `pool_mutex` had in hand at the same time. Outside of
  such a slot the pool cannot kill its own process group either.
* `DestroyReturns`, `WaitReturnsOrDropped`, `TimedWaitReturns`, `StopReturns`:
  the liveness that is left once the cases of section 5 are set aside; each
  names its exceptions in its formula.

## 5. Where the code and its documentation disagree

One is a run of its own, `eventloop_no_restart`: `new_ProcessPool/README.md:26`
promises that a crashed worker is restarted automatically. On SIGCHLD
`handle_signal_event` asks `worker_is_alive`, which finds the zombie and a
recent heartbeat, and does nothing; then it reads the signal descriptor again,
which blocks (`event_loop.c:79`, `284`), so no timer is ever handled again.

The others show up in the models as the exceptions written into the properties,
or can be seen by checking the formula given here as a PROPERTY of the run.

1. `threadpool_destroy` says that it waits for all the worker threads
   (`threadpool.c:141`). Its loop runs to `thread_count`, which each leaving
   worker decrements, so it stops early, and `threadpool_free` then refuses and
   is ignored: success, with workers still inside and the pool leaked.
   (`cpool`: `[](ret[d] = "SUCCESS" => \A w \in Workers : wpc[w] \in {"unborn",
   "exited"})` fails.)
2. A second `threadpool_destroy` on a pool that the first has left behind
   returns with the mutex held; workers that still need it never end.
   (`cpool`: `shutdown ~> \A w \in Workers : wpc[w] \in {"unborn", "exited"}`.)
3. `shutdown_now` can leave a caller of `wait_for_completion` asleep
   (`ThreadPool.h:65`); the exception of `WaitReturnsOrDropped`.
4. The constructor's cleanup (`ThreadPool.cpp:24`) can hang in its join.
   (`cpp`: `ctor = "notify" ~> ctor = "thrown"`.)
5. `stop` of `CPP_ThreadPool` can hang (`问答记录.md:148`).
   (`taskqueue`: `mpc = "drain" ~> mpc = "stopped"`.)
6. The process pool's tests fork the loop and expect results (`test.c:101`). The
   child serves a copy: the caller's `running` stays 0, and its tasks are in a
   queue nobody empties. (The compiled test program reports these failures.)
7. `restart_dead_worker` cleans up "old resources" (`process_pool.c:136`) by
   number. With two workers the number of worker 1's result pipe end that was
   closed after the fork is the write end of worker 2's task pipe, so when
   worker 1 dies the healthy worker 2 loses its pipe, exits, and what it had
   answered may be lost with it. A restarted worker's task pipe can also get a
   number that an idle worker still remembers, so that with three workers and
   four crashes two tasks go to one process; hence `OneTaskEach` speaks of one
   fault, and of a loop in a process of its own.
8. A worker's completion wakes nobody in `task_wait` (`worker.c:126`): a wait
   without a limit sleeps on a finished task (`OnlyWorkerCompletionIsSilent`),
   and a batch wait with less than a millisecond left has no limit either
   (`task_manager.c:584`; the exception of `TimedWaitReturns`).
9. Two `event_loop_stop` calls before the loop looks add up to the command 2,
   "reload", and the loop does not end (`event_loop.c:341`; `StopReturns`).
10. A failed `pool_start` leaves its event thread running; `pool_resize` before
    `pool_start` leaves workers that the start overwrites; a failed restart
    leaves a hole in the slots; `worker_destroy` of a slot of zeros closes
    descriptor 0 (the exceptions of `ActiveExact` and `StoppedIsQuiet`).
11. The event loop restarts a worker without `pool_mutex`
    (`event_loop.c:221-225`). When the pool stops the same worker, one of the two
    finds it `STOPPING` and forgets the child the other is waiting for; a `memset`
    between two reads of the pid turns `kill(worker->pid, SIGKILL)` into
    `kill(0, SIGKILL)`; and a worker may be started in a slot `pool_stop` has
    already passed. TLC finds each when the exception `clash` is left out: `pool`
    with `~killed`, with the first half of `StoppedIsQuiet` for `stray` and
    `given_up` only, or with "no slot is live" in a pool that is stopped.
12. A finished task is never freed. `worker_process_task` (`worker.c:121-142`) and
    the failing path of `handle_task_submit_event` (`event_loop.c:164-178`) drop
    no reference; only `queue_destroy` drops that of a task nobody took
    (`lockfree_queue.c:55-57`). `RefcountSafe` counts it.
13. `eventfd_mutex_trylock` reads a descriptor that `eventfd_mutex_init` made
    blocking, so it waits like `eventfd_mutex_lock`; its comment speaks of -2
    for a mutex that is taken (`eventfd_utils.c:231-232`).
14. A restarted worker of the process pool does not run the caller's handler:
    `process_pool_run` passes `NULL` to `restart_dead_worker`
    (`process_pool.c:352`), which stands for the default one. The model's tasks
    have no contents, so no property sees the difference.

## 6. Proofs

`LockfreeQueueProofs` proves, for every capacity, index width that it divides,
set of tasks and batch bound (assumption `QueueAssumption`), that `Inv` is
invariant and from it `TypeOK`, `NoOverwrite`, `NoNullTaken`, `NoSlotRace`,
`StaleIndexSafe`, and that `Spec` implements `TaskFIFO` (`ImplementsFIFO`). None
of the four properties is inductive: they speak of the next slot only. `Inv`
describes the whole ring, counted from `head`: emptied slots, tasks, filled but
unpublished slots, empty slots (`RingInv`), and what each side's loaded indices
imply about it (`ProducerInv`, `ConsumerInv`). The arithmetic of the ring
(distances modulo the capacity of indices modulo their width, injectivity within
a lap) comes first in the module. Refinement: `Contents` is unchanged by every
step but the two publishing ones.

`CThreadPoolProofs` proves for every number of threads, queue size and set of
destroyers (`PoolAssumption`) that `Inv` is invariant, and with it `TypeOK`,
`ExactlyOnceInOrder`, `NoLostWakeup`, `NobodySleepsThroughShutdown`,
`ThreadCountExact` and `FreeIsSafe`. `FreeIsSafe` needs `ThreadCountExact` (an
unlocked zero means that all have left) and `LockInv` (a leaving worker holds
the mutex); `NoLostWakeup` needs cardinality reasoning over the workers that are
ready, and `ExactlyOnceInOrder` needs `RingInv`.

`ProcessPoolProofs` proves for any number of workers, tasks, faults and
processes and any queue (`PoolAssumption`) `TypeOK`, `DescriptorsClosed`,
`OnePlace` and `OneTaskEach`. `Types`, the types of every variable, is inductive
by itself and is in everything that follows.

* `DescriptorsClosed`: every descriptor the caller has open is a number that one
  of its worker structures remembers (`FdInv`, with `StageInv` for what creation
  and destruction have reached). A structure may remember a number that is no
  longer its own; none may be open and remembered by nobody.
* `OnePlace`: `Contents` is the table of all places (the queue, the loop's and
  the readers' hands, each pipe, each process, what was delivered). A step moves
  a head from one place to the end of another, removes tasks, or adds a task
  with a number not used before (`Shift`), and each keeps the table free of
  repetitions (`ApartInv`, with `HandsInv` for the tasks in hand). The second
  half, that none is lost, is `FullInv`; it needs that without a fault every
  process that lives has its pipes held by a worker.
* `OneTaskEach`: `StructInv` says what the remembered numbers refer to. The
  kernel hands out the lowest free descriptors, so that worker `w` always has
  the numbers `2w - 1` and `2w`, and a crash breaks at most one worker at a
  time: restarting it closes the next one's task pipe, and that one, `x`, is
  then the broken one until it is restarted in turn. All others are `Good`, and
  have nothing outstanding unless they are `BUSY` (`Load`). A write to the broken
  one fails, so its load does not matter. Without a fault nobody restarts a
  worker and what `select` reported stays readable (`Calm`), which is what makes
  the two readers of the threaded loop safe. `EndsInv` is about the kernel's
  tables, `GetInv` about who may read results. `CountInv` is the property.

TLC checked the whole invariant on the instance of `procpool` (238,425 states)
and, since a chain of broken workers needs three, on one with three workers and
a fault (217,135 states).

`SupportProofs` holds the theorems of four components that share no state.
(`EventfdSpec`, `ManagerSpec` and `MetricsSpec` are named apart from `EventLoop`'s
`Spec`, so that one module can extend all four.) Of `EventfdSync` it proves for
any finite set of threads, counter limit and number of queries
(`EventfdAssumption`) `ModeRestored`, `OneOwner`, the mutual
exclusion of the eventfd mutex (a conjunct of `UnitsConserved`), and
`UnitsConserved` itself. `ModeInv` adds
to `ModeRestored` that only a mutex's descriptor was ever found blocking, and
that a validation about to clear the blocking mode has found it set. `UnitInv`
says where the one unit of a mutex is: in the descriptor, or with exactly one
thread, as owner or in the middle of a query; and that a thread whose lock has
read a value has read the unit. `BooksInv` is the balance: a thread between calls
has nothing in its hands, and each step enters into the sums what it does to the
hands of the one thread that takes it.

Sums over finite sets (of `val` and `held`, of the recordings under way, of the
buckets) are folds, defined by recursion over subsets, and the induction theorems
of the library cannot be used. The lemmas on sums need none: `Additive` says
what it is to give every subset its sum; that such a function exists, and that
the fold is one, follow from a least counterexample (`SmallestOf`, from the
well-foundedness of `<`). What the rest uses is `SumChanged`, the sum of a
function changed at one place.

Of `PoolManager` it proves for any number of callers, slots, children and event
loop threads (`PoolManagerAssumption`) `ActiveExact` and `StoppedIsQuiet`.
`ManagerInv` is about three kinds of threads in the same slots. `ControlInv` says
who is inside `pool_mutex` and that the state is what it has made of it;
`HandsInv` which slot each actor works on, and that a slot in two hands is a
clash; `LoopsInv` which event loop threads there are; `SizeInv` and `SteadyInv`
how far a loop over the slots may count; `SlotInv` what an actor knows of the
structure it works on, by the step it is at, as long as nobody else has it. The
two halves of `ActiveExact` are `PlacedInv` (a slot with a worker, or under
restart, is one that the loop in hand, or `active_workers` when nobody is inside,
accounts for) and `FilledInv` (where the others are). `HeldInv` says that a child
nobody has waited for is in its slot, in a state in which it will be stopped, or
in the hands of the actor that is starting or stopping it, or one of the
exceptions, which gives `QuietInv`, the half of `StoppedIsQuiet` on children;
`KillInv` is the one on `kill(0)`. The worker functions have one lemma each, for
any actor: an actor whose slot is in another hand too is in a clash, and there
nothing is left to show.

Of `EventLoop` it proves for any number of workers, at least one as
`pool_create` demands (`EventLoopAssumption`), `TasksCounted` and
`RestartOrderly`. `CountInv` relates the queue to the three places a notification
can be; `HandlerInv` says where the handlers are; `MonitorInv` and `ChildInv`
say whose monitor runs and whose child is there although the worker is not
`RUNNING`, which is what `worker_restart` relies on.

Of `Metrics` it proves for any finite set of threads and any trackers, values and
boundaries (`MetricsAssumption`; measured values are below `UINT64_MAX`)
`TrackerExact` and `HistogramSound`. `MetricsInv` says of a tracker that no reset
is inside of, and whose resets overlapped no recording, that its count and total
are those of the finished recordings and of the additions already made by the
ones under way; that its maximum is that of the finished ones, whose loop comes
last; that its minimum is that of the finished ones or of one past its loop; and
that what a compare-and-swap loop loaded has not become better since
(`Recording`). A tracker that is being reset has one thread inside, which has
cleared it as far as it has come (`Resetting`). `HistInv` is the same for the
histogram. TLC checked `MetricsInv` on the instance of `metrics` (2,755,010
states).

`CppThreadPoolProofs` proves for any number of workers, producers, closers and
waiters `TypeOK`, `PendingIsSomewhere`, `NoLostWakeup`,
`NobodySleepsThroughShutdown` (those two are not properties of the run: a proof is
the stronger statement), `JoinedMeansDone` and the action property
`TrueMeansCompleted`. `PendingIsSomewhere` is inductive together with
`QueueInv` (only accepted tasks are queued, run or have a future);
`active_threads` and `completed_tasks` are the cardinalities of the busy workers
and of the futures that are set, less those whose worker is still to count them
(`CountInv`). `JoinedMeansDone` rests on `CloseInv`, which says
what a closing call has done by each of its steps, and on `BrokenInv`, which says
who may have broken a promise. `NobodySleepsThroughShutdown` holds although the
constructor's error path (section 5) has a worker sleep through `stop`: it says
that this is the only way.

`TaskQueuePoolProofs` proves for any number of workers, producers and tasks and
any capacity (`PoolAssumption`) `TypeOK`, `TaskInOnePlace`, `StopDrains` and
`NoLostWakeup`, which the run does not check by name: while a worker sleeps and
`m_flag` is up, there are at least as many workers on their way to the queue as
tasks in it, and while a producer sleeps, at least as many producers as free
places, so that one `notify_one` for each push and pop is enough. (Once `wakeup`
stores `m_flag` this ends, which is how `stop` can hang: section 5.)
`TaskInOnePlace` is inductive with `RunningInv`: tasks in hand or done are older
than the queued ones. `StopDrains` follows from `QuietInv` (a queue seen empty
with no producer left stays empty) and `ThreadInv` (what was joined has left).

`ShmRingProofs` proves for any number of producers and consumers, any number of
slots and cells and any choice of item lengths (`ShmRingAssumption`, which asks
the sets of processes to be finite, for counting sleepers) `RingIntact`,
`NoLostWakeup` and that `Spec` implements `TaskFIFO` (`ImplementsFIFO`), deaths
included. `MutexInv` says who is inside, `ProducerInv` and `ConsumerInv` how far
a call has come, `SlotInv` which cells of each unread slot are its item's. The
refinement maps the stores of the positions to `Accept` and `HandOut` and all
others, the copies, the signals, the unlocking and the deaths among them, to
stutters.

`TaskManagerProofs` proves for any number of clients, executors and nodes, any
limit of the pool and of the futures a client holds (`TaskManagerAssumption`; the
threads are finitely many, for counting references) `RefcountSafe`,
`OnlyWorkerCompletionIsSilent` and `ResultMatchesState`. `Inv` has two halves. The
first, `MemoryInv`, is inductive by itself: a reference count is the future's
reference, the queue's, the number of threads that have one still to drop, and
the one a finished task keeps (`RefInv`, with `FinisherInv`: a task that is still
to be finished has no finisher); clients call on futures they hold (`PlaceInv`); no client holds a
future twice (`HeldInv`); the free list is exact (`ListInv`). It makes a node that
is freed, or has just been allocated, one nobody else works on. With that, the
second half holds: a task has one finisher (`OneFinisher`), the result is written
before the state that announces it and empty before (`ResultInv`), and what
`task_get_result` saw cannot change any more (`GetInv`), since `task_cancel` can
store over a final state but not over a result. `QuietRest` covers the steps that
finish nothing, `WorkRest` those of the one finisher on its own task.

Every invariant of a passing run is stated by a theorem. Only model-checked,
since liveness under fairness is out of the prover's reach: the liveness
properties `ProducerGetsThrough`, `AcceptedStarts`, `DestroyReturns`,
`FuturesResolve`, `WaitReturnsOrDropped`, `TasksRun`, `ProducersFinish`,
`AllWorkersExit`, `TimedWaitReturns` and `StopReturns`, and the fair refinement
`ImplementsFairFIFO`. A theorem speaks of the model: what ties the model to the
code is the reading of the code alone.

## 7. Not modelled, and the plan

Not modelled, for good: `new_ProcessPool/src/utils/utils.c` (strings, time,
logging), reports and resource usage in `metrics.c`, the tests, examples and
clients, `My_ThreadPool` (does not link), the two file servers (sockets and file
transfer for the most part; their pools have the shapes of `ProcessPool` and
`TaskQueuePool`). In `ProcessPool`, when a restart notices a zombie, and the race
that leaves a worker `BUSY` when its result is read before
`send_task_to_worker` sets the status, are in the model and have no property of
their own: the code makes no promise there that holds. `shm_validate` and
`shm_repair` look for states that the ring's other calls do not reach.

What could follow: the statistics that `update_pool_statistics` and
`handle_task_complete_event` would keep, once the functions exist that the
event loop calls and nothing defines; and a model of the main loop of the
children of `new_ProcessPool`, once it reads its commands.

---------------------------- MODULE TaskManager ----------------------------
(***************************************************************************)
(* Tasks and futures of new_ProcessPool: task_manager.c, with the two      *)
(* finishers of a task, worker_process_task (worker.c) and the failed      *)
(* assignment in handle_task_submit_event (event_loop.c).                  *)
(*                                                                         *)
(* A task lives in a node of the task pool.  Clients create tasks, hold    *)
(* futures on them, wait, cancel, read results and drop the futures;       *)
(* executors take submitted tasks and finish them.  task->state is stored  *)
(* by executors WITHOUT task->mutex, so every such store is a step of its  *)
(* own; a critical section is one step when nothing outside can tell.      *)
(*                                                                         *)
(* The functions that submit a task (pool_submit_sync, ...) are declared, not *)
(* defined in the repository.  The model takes the convention the reference *)
(* counts are written for: the creator's reference goes to the queue with  *)
(* the task.  queue_destroy drops it for the tasks still queued; nothing   *)
(* drops it for a task an executor has taken, neither worker_process_task  *)
(* nor the event loop: the reference of a finished task is kept for good.  *)
(***************************************************************************)
EXTENDS Integers, Sequences, FiniteSets

CONSTANTS
    Nodes,          \* memory for task_pool_node_t
    Clients,        \* threads that hold futures
    Executors,      \* worker / event-loop threads that finish tasks
    MaxPoolSize,    \* g_task_pool.max_pool_size
    Timeout,        \* timeout_ms of a timed wait, > 0
    MaxTasks,       \* bound: client -> number of task_create calls
    MaxHeld,        \* bound: client -> futures it holds at a time
    NULL

ASSUME TaskManagerAssumption ==
    /\ MaxPoolSize \in Nat /\ Timeout \in Nat \ {0}
    /\ MaxTasks \in [Clients -> Nat] /\ MaxHeld \in [Clients -> Nat]
    /\ Clients \cap Executors = {} /\ IsFiniteSet(Clients \cup Executors)
    /\ NULL \notin Nodes \cup Clients \cup Executors \cup {"out", "worker", "loop"}

VARIABLES
    mem,        \* node -> "unalloc" | "free" | "live"
    freeList,   \* g_task_pool.free_list, a stack; free_count is its length
    created,    \* client -> tasks it created (g_next_task_id counts them)
    task,       \* node -> [state, ref, out, err]
    mutex,      \* node -> thread inside task->mutex, between two steps
    fref,       \* node -> ref_count of the task's future (0: no future)
    queue,      \* submitted tasks
    held,       \* client -> sequence of the futures it holds
    pc, cur,    \* thread -> where it is, and the task it works on
    timed,      \* client -> timeout_ms # 0 in its task_wait
    bat,        \* client -> [i, el] of task_batch_wait, i = 0 outside it
    seen,       \* client -> state task_get_result saw before it locked
    finisher    \* node -> who finished the task and keeps its reference:
                \* "worker", "loop" or NULL

vars == <<mem, freeList, created, task, mutex, fref, queue, held, pc, cur,
          timed, bat, seen, finisher>>

memVars == <<mem, freeList, created>>
refVars == <<fref, queue, held>>
callVars == <<timed, bat, seen>>

Threads == Clients \cup Executors
States == {"PENDING", "RUNNING", "COMPLETED", "FAILED", "CANCELLED"}
Blank == [state |-> "PENDING", ref |-> 0, out |-> NULL, err |-> 0]

Init ==
    /\ mem = [n \in Nodes |-> "unalloc"] /\ freeList = <<>>
    /\ created = [c \in Clients |-> 0]
    /\ task = [n \in Nodes |-> Blank] /\ mutex = [n \in Nodes |-> NULL]
    /\ fref = [n \in Nodes |-> 0] /\ queue = {}
    /\ held = [c \in Clients |-> <<>>]
    /\ pc = [t \in Threads |-> "idle"] /\ cur = [t \in Threads |-> NULL]
    /\ timed = [c \in Clients |-> FALSE]
    /\ bat = [c \in Clients |-> [i |-> 0, el |-> 0]]
    /\ seen = [c \in Clients |-> NULL]
    /\ finisher = [n \in Nodes |-> NULL]

-----------------------------------------------------------------------------
Goto(t, l) == pc' = [pc EXCEPT ![t] = l]
At(t, l, n) == Goto(t, l) /\ cur' = [cur EXCEPT ![t] = n]
Idle(t) == At(t, "idle", NULL)

(* task_is_completed *)
Completed(n) == task[n].state \in {"COMPLETED", "FAILED", "CANCELLED"}

(* pthread_cond_broadcast(&task->completion_cond) by t, which goes to l:     *)
(* every waiter wakes up and tests the state again.                          *)
Broadcast(t, n, l) ==
    pc' = [u \in Threads |-> IF u = t THEN l
                             ELSE IF pc[u] = "asleep" /\ cur[u] = n THEN "wait"
                             ELSE pc[u]]

(* task_pool_alloc *)
PoolAlloc(n) ==
    /\ IF freeList = <<>> THEN mem[n] = "unalloc" /\ freeList' = freeList
                          ELSE n = Head(freeList) /\ freeList' = Tail(freeList)
    /\ mem' = [mem EXCEPT ![n] = "live"]

(* task_pool_free *)
PoolFree(n) ==
    IF Len(freeList) < MaxPoolSize
    THEN freeList' = <<n>> \o freeList /\ mem' = [mem EXCEPT ![n] = "free"]
    ELSE freeList' = freeList /\ mem' = [mem EXCEPT ![n] = "unalloc"]

(* task_create, future_create and the submission; until then nobody else    *)
(* knows the node.  When the copy of the input or the mutex cannot be made, *)
(* task_create puts the node back, at the head of the list; when the future *)
(* cannot be made its reference is gone again, and the creator drops the    *)
(* task.                                                                    *)
TaskCreate(c) ==
    /\ pc[c] = "idle" /\ created[c] < MaxTasks[c] /\ Len(held[c]) < MaxHeld[c]
    /\ created' = [created EXCEPT ![c] = @ + 1]
    /\ \E n \in Nodes :
        \/ /\ PoolAlloc(n) /\ UNCHANGED <<pc, cur>>
           /\ task' = [task EXCEPT ![n] = [Blank EXCEPT !.ref = 2]]
           /\ fref' = [fref EXCEPT ![n] = 1]
           /\ held' = [held EXCEPT ![c] = Append(@, n)]
           /\ queue' = queue \cup {n}
        \/ /\ PoolAlloc(n) /\ At(c, "unref", n)
           /\ task' = [task EXCEPT ![n] = [Blank EXCEPT !.ref = 1]]
           /\ UNCHANGED refVars
        \/ /\ freeList = <<>> /\ mem[n] = "unalloc" /\ PoolFree(n)
           /\ UNCHANGED <<task, refVars, pc, cur>>
    /\ UNCHANGED <<mutex, callVars, finisher>>

(* future_ref: c passes its future to d. *)
FutureRef(c, d) ==
    /\ c # d /\ pc[c] = "idle" /\ pc[d] = "idle" /\ Len(held[d]) < MaxHeld[d]
    /\ \E i \in DOMAIN held[c] :
        /\ \A j \in DOMAIN held[d] : held[d][j] # held[c][i]
        /\ fref' = [fref EXCEPT ![held[c][i]] = @ + 1]
        /\ held' = [held EXCEPT ![d] = Append(@, held[c][i])]
    /\ UNCHANGED <<memVars, task, mutex, queue, pc, cur, callVars, finisher>>

(* future_destroy: the last reference also drops the future's task. *)
FutureDestroy(c) ==
    /\ pc[c] = "idle"
    /\ \E i \in DOMAIN held[c] : LET n == held[c][i] IN
        /\ fref' = [fref EXCEPT ![n] = @ - 1]
        /\ held' = [held EXCEPT ![c] = SubSeq(@, 1, i - 1) \o SubSeq(@, i + 1, Len(@))]
        /\ IF fref[n] > 1 THEN UNCHANGED <<pc, cur>> ELSE At(c, "unref", n)
    /\ UNCHANGED <<memVars, task, mutex, queue, callVars, finisher>>

(* Slip: the count is tested after the decrement: "> 1" of the new value. *)
TaskUnrefNewValue(t) ==
    /\ pc[t] = "unref" /\ Idle(t)
    /\ IF task[cur[t]].ref > 2
       THEN /\ task' = [task EXCEPT ![cur[t]].ref = @ - 1]
            /\ UNCHANGED <<mem, freeList>>
       ELSE task' = [task EXCEPT ![cur[t]] = Blank] /\ PoolFree(cur[t])
    /\ UNCHANGED <<created, mutex, refVars, callVars, finisher>>

(* task_destroy / task_unref: fetch_sub, and the last one cleans up and     *)
(* frees the node, which nobody else can see any more.                      *)
TaskUnref(t) ==
    /\ pc[t] = "unref" /\ Idle(t)
    /\ IF task[cur[t]].ref > 1
       THEN /\ task' = [task EXCEPT ![cur[t]].ref = @ - 1]
            /\ UNCHANGED <<mem, freeList>>
       ELSE task' = [task EXCEPT ![cur[t]] = Blank] /\ PoolFree(cur[t])
    /\ UNCHANGED <<created, mutex, refVars, callVars, finisher>>

(* task_pool_cleanup: frees the list, whatever tasks are still alive. *)
TaskPoolCleanup ==
    /\ freeList # <<>> /\ freeList' = <<>>
    /\ mem' = [n \in Nodes |-> IF mem[n] = "free" THEN "unalloc" ELSE mem[n]]
    /\ UNCHANGED <<created, task, mutex, refVars, pc, cur, callVars, finisher>>

-----------------------------------------------------------------------------
(* task_cancel: locks and reads the state ... *)
CancelLoad(c) ==
    /\ pc[c] = "idle"
    /\ \E i \in DOMAIN held[c] : LET n == held[c][i] IN
        /\ mutex[n] = NULL /\ task[n].state \in {"PENDING", "RUNNING"}
        /\ mutex' = [mutex EXCEPT ![n] = c] /\ At(c, "cancel", n)
    /\ UNCHANGED <<memVars, task, refVars, callVars, finisher>>

(* Slip: CANCELLED is stored without the broadcast. *)
CancelStoreQuiet(c) ==
    /\ pc[c] = "cancel"
    /\ task' = [task EXCEPT ![cur[c]].state = "CANCELLED"]
    /\ mutex' = [mutex EXCEPT ![cur[c]] = NULL]
    /\ Idle(c)
    /\ UNCHANGED <<memVars, refVars, callVars, finisher>>

(* ... then stores CANCELLED over whatever is there now, and wakes waiters. *)
CancelStore(c) ==
    /\ pc[c] = "cancel"
    /\ task' = [task EXCEPT ![cur[c]].state = "CANCELLED"]
    /\ mutex' = [mutex EXCEPT ![cur[c]] = NULL]
    /\ Broadcast(c, cur[c], "idle") /\ cur' = [cur EXCEPT ![c] = NULL]
    /\ UNCHANGED <<memVars, refVars, callVars, finisher>>

(* future_wait, with a timeout or (timeout_ms = 0) without. *)
FutureWait(c) ==
    /\ pc[c] = "idle"
    /\ \E i \in DOMAIN held[c], b \in BOOLEAN :
        At(c, "wait", held[c][i]) /\ timed' = [timed EXCEPT ![c] = b]
    /\ UNCHANGED <<memVars, task, mutex, refVars, bat, seen, finisher>>

(* task_wait returns, to its caller or to the loop of task_batch_wait. *)
WaitReturns(c, ok) ==
    /\ timed' = [timed EXCEPT ![c] = FALSE]
    /\ IF bat[c].i > 0 /\ ok
       THEN At(c, "batch", NULL) /\ bat' = [bat EXCEPT ![c].i = @ + 1]
       ELSE Idle(c) /\ bat' = [bat EXCEPT ![c] = [i |-> 0, el |-> 0]]

(* task_wait under the mutex: return when the task is finished, else sleep. *)
TaskWait(c) ==
    /\ pc[c] = "wait" /\ mutex[cur[c]] = NULL
    /\ IF Completed(cur[c]) THEN WaitReturns(c, TRUE)
                            ELSE Goto(c, "asleep") /\ UNCHANGED <<cur, bat, timed>>
    /\ UNCHANGED <<memVars, task, mutex, refVars, seen, finisher>>

(* pthread_cond_wait returns without a broadcast. *)
SpuriousWake(c) ==
    /\ pc[c] = "asleep" /\ Goto(c, "wait")
    /\ UNCHANGED <<memVars, task, mutex, refVars, cur, callVars, finisher>>

(* Slip: ETIMEDOUT does not leave the loop. *)
WaitTimeoutRetry(c) ==
    /\ pc[c] = "asleep" /\ timed[c] /\ mutex[cur[c]] = NULL
    /\ Goto(c, "wait")
    /\ UNCHANGED <<memVars, task, mutex, refVars, cur, callVars, finisher>>

(* ETIMEDOUT from pthread_cond_timedwait. *)
WaitTimeout(c) ==
    /\ pc[c] = "asleep" /\ timed[c] /\ mutex[cur[c]] = NULL
    /\ WaitReturns(c, FALSE)
    /\ UNCHANGED <<memVars, task, mutex, refVars, seen, finisher>>

(* task_batch_wait over the futures c holds.  Time is counted in half       *)
(* milliseconds, because the remaining timeout is rounded DOWN to whole     *)
(* ones: below one millisecond it becomes 0, which task_wait takes for      *)
(* "no timeout".                                                             *)
BatchWait(c) ==
    /\ pc[c] = "idle" /\ held[c] # <<>>
    /\ Goto(c, "batch") /\ bat' = [bat EXCEPT ![c] = [i |-> 1, el |-> 0]]
    /\ UNCHANGED <<memVars, task, mutex, refVars, cur, timed, seen, finisher>>

BatchNext(c) ==
    /\ pc[c] = "batch"
    /\ \E e \in bat[c].el .. 2 * Timeout :
        IF bat[c].i > Len(held[c]) \/ e = 2 * Timeout
        THEN WaitReturns(c, FALSE)
        ELSE /\ At(c, "wait", held[c][bat[c].i])
             /\ timed' = [timed EXCEPT ![c] = (2 * Timeout - e) \div 2 > 0]
             /\ bat' = [bat EXCEPT ![c].el = e]
    /\ UNCHANGED <<memVars, task, mutex, refVars, seen, finisher>>

(* task_get_result: the state is tested before the mutex is taken ... *)
GetResult(c) ==
    /\ pc[c] = "idle"
    /\ \E i \in DOMAIN held[c] : LET n == held[c][i] IN
        /\ Completed(n) /\ At(c, "get", n)
        /\ seen' = [seen EXCEPT ![c] = task[n].state]
    /\ UNCHANGED <<memVars, task, mutex, refVars, timed, bat, finisher>>

(* ... and the result is copied under it. *)
CopyResult(c) ==
    /\ pc[c] = "get" /\ mutex[cur[c]] = NULL
    /\ Idle(c) /\ seen' = [seen EXCEPT ![c] = NULL]
    /\ UNCHANGED <<memVars, task, mutex, refVars, timed, bat, finisher>>

-----------------------------------------------------------------------------
(* An executor takes a submitted task: a worker runs it, or no worker takes *)
(* it and the event loop fails it.                                          *)
Take(e) ==
    /\ pc[e] = "idle"
    /\ \E n \in queue, l \in {"run", "assignfail"} :
        queue' = queue \ {n} /\ At(e, l, n)
    /\ UNCHANGED <<memVars, task, mutex, fref, held, callVars, finisher>>

(* Slip: the final state is published before the result is written. *)
StoreRunningFinal(e) ==
    /\ pc[e] = "run"
    /\ \E l \in {"setresult", "seterror"} :
        /\ Goto(e, l)
        /\ task' = [task EXCEPT ![cur[e]].state = IF l = "setresult" THEN "COMPLETED" ELSE "FAILED"]
    /\ UNCHANGED <<memVars, mutex, refVars, cur, callVars, finisher>>

(* worker_process_task: RUNNING is stored whatever the state was; then the  *)
(* handler succeeds or fails.                                                *)
StoreRunning(e) ==
    /\ pc[e] = "run"
    /\ task' = [task EXCEPT ![cur[e]].state = "RUNNING"]
    /\ \E l \in {"setresult", "seterror"} : Goto(e, l)
    /\ UNCHANGED <<memVars, mutex, refVars, cur, callVars, finisher>>

(* task_set_result, whose error code worker_process_task ignores: "out"     *)
(* stands for the handler's output, for none, and for a copy malloc refused. *)
SetResult(e) ==
    /\ pc[e] = "setresult" /\ mutex[cur[e]] = NULL
    /\ task' = [task EXCEPT ![cur[e]].out = "out"]
    /\ Goto(e, "complete")
    /\ UNCHANGED <<memVars, mutex, refVars, cur, callVars, finisher>>

(* task_set_error, by the worker or by the event loop. *)
SetError(e) ==
    /\ pc[e] \in {"seterror", "assignfail"} /\ mutex[cur[e]] = NULL
    /\ task' = [task EXCEPT ![cur[e]].err = 1]
    /\ Goto(e, IF pc[e] = "seterror" THEN "fail" ELSE "loopfail")
    /\ UNCHANGED <<memVars, mutex, refVars, cur, callVars, finisher>>

(* The final store: by the worker without a broadcast, by the event loop    *)
(* with one to follow.  The task's reference is dropped by neither.         *)
StoreFinal(e) ==
    /\ pc[e] \in {"complete", "fail", "loopfail"}
    /\ task' = [task EXCEPT ![cur[e]].state = IF pc[e] = "complete" THEN "COMPLETED" ELSE "FAILED"]
    /\ finisher' = [finisher EXCEPT ![cur[e]] = IF pc[e] = "loopfail" THEN "loop" ELSE "worker"]
    /\ IF pc[e] = "loopfail" THEN Goto(e, "broadcast") /\ UNCHANGED cur ELSE Idle(e)
    /\ UNCHANGED <<memVars, mutex, refVars, callVars>>

LoopBroadcast(e) ==
    /\ pc[e] = "broadcast" /\ mutex[cur[e]] = NULL
    /\ Broadcast(e, cur[e], "idle") /\ cur' = [cur EXCEPT ![e] = NULL]
    /\ UNCHANGED <<memVars, task, mutex, refVars, callVars, finisher>>

(* queue_destroy drops a task that is still queued.  The task pool is       *)
(* global: other pools go on.                                               *)
QueueDestroy(e) ==
    /\ pc[e] = "idle"
    /\ \E n \in queue : queue' = queue \ {n} /\ At(e, "unref", n)
    /\ UNCHANGED <<memVars, task, mutex, fref, held, callVars, finisher>>

-----------------------------------------------------------------------------
Begin(c) ==
    \/ TaskCreate(c) \/ FutureDestroy(c) \/ CancelLoad(c) \/ FutureWait(c)
    \/ BatchWait(c) \/ GetResult(c) \/ \E d \in Clients : FutureRef(c, d)
Continue(c) ==
    \/ CancelStore(c) \/ TaskWait(c) \/ WaitTimeout(c)
    \/ BatchNext(c) \/ CopyResult(c)
Execute(e) ==
    \/ Take(e) \/ StoreRunning(e) \/ SetResult(e) \/ SetError(e)
    \/ StoreFinal(e) \/ LoopBroadcast(e) \/ QueueDestroy(e)

Next ==
    \/ \E c \in Clients : Begin(c) \/ Continue(c) \/ SpuriousWake(c)
    \/ \E e \in Executors : Execute(e)
    \/ \E t \in Threads : TaskUnref(t)
    \/ TaskPoolCleanup

(* A client that is inside a call goes on; nobody has to make a call, and  *)
(* nothing is asked of the executors.  The deadline of a wait is absolute:  *)
(* once it is past, every further wait reports it, however often the client *)
(* was woken up before.                                                     *)
Spec ==
    /\ Init /\ [][Next]_vars
    /\ \A c \in Clients : WF_vars(Continue(c)) /\ SF_vars(WaitTimeout(c))
-----------------------------------------------------------------------------
TypeOK ==
    /\ mem \in [Nodes -> {"unalloc", "free", "live"}]
    /\ freeList \in Seq(Nodes) /\ created \in [Clients -> Nat]
    /\ task \in [Nodes -> [state : States, ref : Nat,
                           out : {NULL, "out"}, err : {0, 1}]]
    /\ mutex \in [Nodes -> Clients \cup {NULL}] /\ fref \in [Nodes -> Nat]
    /\ queue \subseteq Nodes /\ held \in [Clients -> Seq(Nodes)]
    /\ cur \in [Threads -> Nodes \cup {NULL}]
    /\ timed \in [Clients -> BOOLEAN]
    /\ finisher \in [Nodes -> {"worker", "loop", NULL}]

(* The threads that hold a reference of task->ref_count to n until they drop *)
(* it or store its final state: executors, and clients whose future was the *)
(* last or came to nothing.                                                 *)
Dropping(n) ==
    {t \in Threads : cur[t] = n /\
        pc[t] \in {"unref", "run", "assignfail", "setresult",
                   "seterror", "complete", "fail", "loopfail"}}
Holders(n) == {c \in Clients : \E i \in DOMAIN held[c] : held[c][i] = n}

(* No use after free, and no leak but one: a live node has exactly the      *)
(* references its owners hold (the future as long as it lives, the queue,   *)
(* and threads) and the one a finished task keeps; a thread or a future     *)
(* only ever refers to a live node; and the free list holds each free node  *)
(* once and nothing else, however the drops of the future, of the creator   *)
(* and of queue_destroy interleave.  (task_destroy, future_destroy,         *)
(* task_pool_free, queue_destroy)                                           *)
RefcountSafe ==
    /\ TypeOK
    /\ \A n \in Nodes :
        /\ task[n].ref = (IF fref[n] > 0 THEN 1 ELSE 0) + (IF n \in queue THEN 1 ELSE 0)
                           + Cardinality(Dropping(n)) + (IF finisher[n] = NULL THEN 0 ELSE 1)
        /\ fref[n] = Cardinality(Holders(n))
        /\ mem[n] = "live" <=> \/ fref[n] > 0 \/ n \in queue \/ finisher[n] # NULL
                               \/ \E t \in Threads : cur[t] = n
    /\ \A i, j \in DOMAIN freeList : freeList[i] = freeList[j] => i = j
    /\ {freeList[i] : i \in DOMAIN freeList} = {n \in Nodes : mem[n] = "free"}

(* The only completion that leaves a waiter asleep is the worker's: a       *)
(* client that sleeps in task_wait on a finished task sleeps on one that    *)
(* worker_process_task finished (it never broadcasts), or the event loop's  *)
(* broadcast is still to come.  A cancel wakes everybody, and the event     *)
(* loop's store before its locked broadcast loses nobody.                   *)
OnlyWorkerCompletionIsSilent ==
    \A c \in Clients :
        pc[c] = "asleep" /\ Completed(cur[c]) =>
            \/ finisher[cur[c]] = "worker"
            \/ \E e \in Executors : pc[e] = "broadcast" /\ cur[e] = cur[c]

(* task_get_result tests the state without the mutex; still, what it then   *)
(* copies is the result of a task seen COMPLETED and the error of a task    *)
(* seen FAILED, because both are written before the state is.               *)
ResultMatchesState ==
    \A c \in Clients : pc[c] = "get" =>
        /\ seen[c] = "COMPLETED" => task[cur[c]].out # NULL /\ task[cur[c]].err = 0
        /\ seen[c] = "FAILED" => task[cur[c]].err = 1 /\ task[cur[c]].out = NULL

(* A wait with a timeout returns, with one exception the code has: a batch  *)
(* wait whose remaining time was below a millisecond sleeps without a       *)
(* timeout.                                                                 *)
TimedWaitReturns ==
    \A c \in Clients :
        (pc[c] = "batch" \/ timed[c])
          ~> (pc[c] = "idle" \/ (pc[c] = "asleep" /\ ~timed[c]
                                  /\ bat[c].el > 2 * Timeout - 2))
============================================================================

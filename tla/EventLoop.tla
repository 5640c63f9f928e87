----------------------------- MODULE EventLoop -----------------------------
(***************************************************************************)
(* The event loop of new_ProcessPool (event_loop.c) with the workers it    *)
(* watches (worker.c): the loop's thread between epoll_wait and its        *)
(* handlers, the monitor thread of each worker, the worker processes, a    *)
(* thread that submits tasks and threads that stop the loop.               *)
(*                                                                         *)
(* A worker's structure is private memory, so that the parent's            *)
(* last_heartbeat is the time of worker_create for ever, and the child's   *)
(* copy of the state is STARTING, with which worker_main_loop ends at      *)
(* once.  A dead child stays a zombie that kill(pid, 0) finds, until       *)
(* worker_stop waits for it.  WORKER_STATE_RUNNING in the timer's handler, *)
(* defined nowhere, is read as WORKER_INTERNAL_RUNNING.                    *)
(***************************************************************************)
EXTENDS Integers, FiniteSets

CONSTANTS
    Workers,        \* slots of pool->workers, 1 .. max_workers
    Stoppers,       \* threads that call event_loop_stop
    QueueCapacity,  \* tasks pool->task_queue holds
    MaxStarts,      \* bound: children started per slot
    MaxTasks        \* bound: tasks submitted

ASSUME EventLoopAssumption ==
    /\ IsFiniteSet(Workers) /\ Workers # {} /\ Workers = 1 .. Cardinality(Workers)
    /\ QueueCapacity \in Nat
    /\ MaxStarts \in Nat \ {0} /\ MaxTasks \in Nat

VARIABLES
    running,        \* loop->running
    pc,             \* where the loop is
    batch,          \* events epoll_wait returned and the loop has not handled
    slot, ret,      \* worker a handler is at, and where that handler returns to
    left,           \* tasks announced that are still to be taken
    queue,          \* tasks in pool->task_queue
    submitEfd, controlEfd,  \* counters of the two eventfds
    sig,            \* pending signals: <<worker, start>> of a SIGCHLD, <<0, 0>> of a SIGTERM
    due,            \* the timer has expired
    w,              \* worker -> [st, start, child, stale, mon, monRun]
    spc,            \* stopper -> "idle" | "join" | "done"
    notify,         \* the submitter has queued a task and not announced it
    tasks,          \* tasks submitted so far
    orphans,        \* children nobody will wait for any more
    marked,         \* children a monitor gave up
    lostStop        \* the loop read a command that is no single stop

vars == <<running, pc, batch, slot, ret, left, queue, submitEfd, controlEfd,
          sig, due, w, spc, notify, tasks, orphans, marked, lostStop>>
loopVars == <<pc, batch, slot, ret, left>>
taskVars == <<queue, submitEfd, notify, tasks>>
stopVars == <<running, controlEfd, spc, lostStop>>
ghosts == <<orphans, marked>>

(* worker_start has succeeded for the n-th time in this slot. *)
Started(n) == [st |-> "RUNNING", start |-> n, child |-> "alive",
               stale |-> FALSE, mon |-> "loop", monRun |-> TRUE]

(* event_loop_init, event_loop_start, and the workers of pool_start *)
Init ==
    /\ running = TRUE /\ pc = "dispatch" /\ batch = {} /\ slot = 0 /\ ret = "dispatch"
    /\ left = 0 /\ queue = 0 /\ submitEfd = 0 /\ controlEfd = 0
    /\ sig = {} /\ due = FALSE /\ w = [i \in Workers |-> Started(1)]
    /\ spc = [s \in Stoppers |-> "idle"] /\ notify = FALSE /\ tasks = 0
    /\ orphans = {} /\ marked = {} /\ lostStop = FALSE

-----------------------------------------------------------------------------
(* worker_is_alive: the process exists, be it a zombie, and the heartbeat   *)
(* is recent.                                                               *)
Alive(i) == w[i].child # "none" /\ ~w[i].stale

(* A SIGCHLD that finds one pending is merged with it. *)
Raise(i) == sig' = IF \E s \in sig : s[1] # 0 THEN sig ELSE sig \cup {<<i, w[i].start>>}

(* The child's main loop ends, or the child crashes. *)
ChildExit(i) ==
    /\ w[i].child = "alive" /\ w' = [w EXCEPT ![i].child = "zombie"] /\ Raise(i)
    /\ UNCHANGED <<loopVars, taskVars, stopVars, due, ghosts>>

(* Twice the heartbeat interval has passed since worker_create. *)
HeartbeatOld(i) ==
    /\ w[i].child # "none" /\ ~w[i].stale /\ w' = [w EXCEPT ![i].stale = TRUE]
    /\ UNCHANGED <<loopVars, taskVars, stopVars, sig, due, ghosts>>

TimerFires ==
    /\ ~due /\ due' = TRUE
    /\ UNCHANGED <<loopVars, taskVars, stopVars, sig, w, ghosts>>

Terminate ==
    /\ <<0, 0>> \notin sig /\ sig' = sig \cup {<<0, 0>>}
    /\ UNCHANGED <<loopVars, taskVars, stopVars, due, w, ghosts>>

(* worker_monitor_thread: the test of the loop ... *)
MonitorCheck(i) ==
    /\ w[i].mon = "loop" /\ (~w[i].monRun \/ ~Alive(i))
    /\ w' = [w EXCEPT ![i].mon = IF w[i].monRun THEN "mark" ELSE "out"]
    /\ UNCHANGED <<loopVars, taskVars, stopVars, sig, due, ghosts>>

(* ... and "marking for restart". *)
MonitorMark(i) ==
    /\ w[i].mon = "mark"
    /\ w' = [w EXCEPT ![i].mon = "out", ![i].st = "ERROR"]
    /\ marked' = marked \cup {<<i, w[i].start>>}
    /\ UNCHANGED <<loopVars, taskVars, stopVars, sig, due, orphans>>

(* A task is queued, then event_loop_notify_task_submit is called. *)
Submit ==
    /\ \/ /\ ~notify /\ tasks < MaxTasks /\ queue < QueueCapacity
          /\ queue' = queue + 1 /\ notify' = TRUE /\ tasks' = tasks + 1
          /\ UNCHANGED submitEfd
       \/ /\ notify /\ notify' = FALSE /\ submitEfd' = submitEfd + 1
          /\ UNCHANGED <<queue, tasks>>
    /\ UNCHANGED <<loopVars, stopVars, sig, due, w, ghosts>>

(* event_loop_stop: the command, and the wait for the thread. *)
Stop(s) ==
    /\ \/ /\ spc[s] = "idle" /\ running /\ controlEfd' = controlEfd + 1
          /\ spc' = [spc EXCEPT ![s] = "join"] /\ UNCHANGED running
       \/ /\ spc[s] = "join" /\ pc = "exited" /\ running' = FALSE
          /\ spc' = [spc EXCEPT ![s] = "done"] /\ UNCHANGED controlEfd
    /\ UNCHANGED <<loopVars, taskVars, lostStop, sig, due, w, ghosts>>

-----------------------------------------------------------------------------
Ready ==
    (IF submitEfd > 0 THEN {"submit"} ELSE {}) \cup (IF controlEfd > 0 THEN {"control"} ELSE {})
    \cup (IF sig # {} THEN {"signal"} ELSE {}) \cup (IF due THEN {"timer"} ELSE {})

(* event_loop_thread: a batch is done, and there is the next or the end. *)
EpollWait ==
    /\ pc = "dispatch" /\ batch = {}
    /\ \/ ~running /\ pc' = "exited" /\ UNCHANGED batch
       \/ running /\ Ready # {} /\ batch' = Ready /\ UNCHANGED pc
    /\ UNCHANGED <<slot, ret, left, taskVars, stopVars, sig, due, w, ghosts>>

Handle(e) == pc = "dispatch" /\ e \in batch /\ batch' = batch \ {e}

(* Slip: one task is taken for a notification of several. *)
HandleTaskSubmitOne ==
    /\ Handle("submit") /\ left' = 1 /\ submitEfd' = 0 /\ pc' = "assign"
    /\ UNCHANGED <<slot, ret, queue, notify, tasks, stopVars, sig, due, w, ghosts>>

(* handle_task_submit_event *)
HandleTaskSubmit ==
    /\ Handle("submit") /\ left' = submitEfd /\ submitEfd' = 0 /\ pc' = "assign"
    /\ UNCHANGED <<slot, ret, queue, notify, tasks, stopVars, sig, due, w, ghosts>>

(* Its loop: queue_dequeue; assigning the task or failing it is not of the  *)
(* loop's own state.                                                        *)
Assign ==
    /\ pc = "assign" /\ pc' = (IF left = 1 THEN "dispatch" ELSE pc)
    /\ left' = left - 1 /\ queue' = (IF queue > 0 THEN queue - 1 ELSE 0)
    /\ UNCHANGED <<batch, slot, ret, submitEfd, notify, tasks, stopVars, sig, due, w, ghosts>>

(* Slip: only the command 1 is read as a stop, any other is left over. *)
HandleControlIgnored ==
    /\ Handle("control") /\ controlEfd' = 0 /\ pc' = "dispatch"
    /\ UNCHANGED <<running, lostStop, slot, ret, left, taskVars, spc, sig, due, w, ghosts>>

(* handle_control_event: the sum of the commands written so far; 1 stops,   *)
(* 2 and 3 are other commands, the rest is unknown.                         *)
HandleControl ==
    /\ Handle("control") /\ controlEfd' = 0 /\ pc' = "dispatch"
    /\ running' = (running /\ controlEfd # 1) /\ lostStop' = (lostStop \/ controlEfd > 1)
    /\ UNCHANGED <<slot, ret, left, taskVars, spc, sig, due, w, ghosts>>

(* handle_signal_event reads until nothing is left, from a descriptor that  *)
(* is blocking: without a signal it waits for the next one.                 *)
HandleSignal ==
    /\ Handle("signal") /\ pc' = "sigread"
    /\ UNCHANGED <<slot, ret, left, taskVars, stopVars, sig, due, w, ghosts>>

ReadSignal ==
    /\ pc = "sigread"
    /\ \E s \in sig :
        /\ sig' = sig \ {s} /\ running' = (running /\ s # <<0, 0>>)
        /\ IF s[1] # 0 /\ w[s[1]].child # "none" /\ w[s[1]].start = s[2]
           THEN slot' = s[1] /\ pc' = "status" /\ ret' = "sigread"
           ELSE UNCHANGED <<slot, pc, ret>>
    /\ UNCHANGED <<batch, left, taskVars, controlEfd, spc, lostStop, due, w, ghosts>>

(* handle_timer_event: the workers' health, one after the other. *)
HandleTimer ==
    /\ Handle("timer") /\ due' = FALSE /\ pc' = "scan" /\ slot' = 1
    /\ UNCHANGED <<ret, left, taskVars, stopVars, sig, w, ghosts>>

NextSlot ==
    IF slot + 1 \in Workers THEN slot' = slot + 1 /\ pc' = "scan"
                            ELSE slot' = 0 /\ pc' = "dispatch"

Scan ==
    /\ pc = "scan"
    /\ IF w[slot].st = "RUNNING" /\ ~Alive(slot)
       THEN pc' = "status" /\ ret' = "scan" /\ UNCHANGED slot
       ELSE NextSlot /\ UNCHANGED ret
    /\ UNCHANGED <<batch, left, taskVars, stopVars, sig, due, w, ghosts>>

-----------------------------------------------------------------------------
(* Back to the handler that found the worker: the scan goes on with the next. *)
Return ==
    /\ ret' = "dispatch"
    /\ IF ret = "scan" THEN NextSlot ELSE slot' = 0 /\ pc' = ret

(* handle_worker_status_event: a worker that is not alive is stopped; the   *)
(* beginning of worker_stop, which refuses one that is not RUNNING.         *)
StatusCheck ==
    /\ pc = "status"
    /\ \/ Alive(slot) /\ Return /\ UNCHANGED w
       \/ /\ ~Alive(slot) /\ w[slot].st = "RUNNING" /\ pc' = "stopping"
          /\ w' = [w EXCEPT ![slot].st = "STOPPING"] /\ UNCHANGED <<slot, ret>>
       \/ /\ ~Alive(slot) /\ w[slot].st # "RUNNING" /\ pc' = "restart"
          /\ UNCHANGED <<w, slot, ret>>
    /\ UNCHANGED <<batch, left, taskVars, stopVars, sig, due, ghosts>>

(* worker_stop: the child is waited for, after a SIGKILL if need be ... *)
WorkerReap ==
    /\ pc = "stopping" /\ pc' = "join"
    /\ w' = [w EXCEPT ![slot].child = "none", ![slot].monRun = FALSE]
    /\ IF w[slot].child = "alive" THEN Raise(slot) ELSE UNCHANGED sig
    /\ UNCHANGED <<batch, slot, ret, left, taskVars, stopVars, due, ghosts>>

(* Slip: the monitor is told to end and not waited for. *)
WorkerJoinSkipped ==
    /\ pc = "join" /\ pc' = "restart" /\ w' = [w EXCEPT ![slot].st = "STOPPED"]
    /\ UNCHANGED <<batch, slot, ret, left, taskVars, stopVars, sig, due, ghosts>>

(* ... and so is the monitor. *)
WorkerJoin ==
    /\ pc = "join" /\ w[slot].mon = "out" /\ pc' = "restart"
    /\ w' = [w EXCEPT ![slot].st = "STOPPED"]
    /\ UNCHANGED <<batch, slot, ret, left, taskVars, stopVars, sig, due, ghosts>>

(* Without a monitor thread, which is no error. *)
Unwatched(n) == [Started(n) EXCEPT !.mon = "out"]
Dead(n) == [Started(n) EXCEPT !.st = "CREATED", !.child = "none", !.mon = "out", !.monRun = FALSE]

(* worker_destroy, worker_create, worker_start: the structure starts anew,  *)
(* whatever child it had; creating or forking may fail.                     *)
WorkerRestart ==
    /\ pc = "restart" /\ Return
    /\ orphans' = IF w[slot].child = "none" THEN orphans ELSE orphans \cup {<<slot, w[slot].start>>}
    /\ \E x \in {Dead(w[slot].start), [Dead(w[slot].start) EXCEPT !.st = "ERROR"]}
                \cup (IF w[slot].start < MaxStarts
                      THEN {Started(w[slot].start + 1), Unwatched(w[slot].start + 1)} ELSE {}) :
        w' = [w EXCEPT ![slot] = x]
    /\ UNCHANGED <<batch, left, taskVars, stopVars, sig, due, marked>>

-----------------------------------------------------------------------------
LoopStep ==
    \/ EpollWait \/ HandleTaskSubmit \/ Assign \/ HandleControl
    \/ HandleSignal \/ ReadSignal \/ HandleTimer \/ Scan \/ StatusCheck
    \/ WorkerReap \/ WorkerJoin \/ WorkerRestart

Monitor(i) == MonitorCheck(i) \/ MonitorMark(i)

Next ==
    \/ LoopStep \/ Submit \/ TimerFires \/ Terminate
    \/ \E s \in Stoppers : Stop(s)
    \/ \E i \in Workers : ChildExit(i) \/ HeartbeatOld(i) \/ Monitor(i)

(* Threads that can run do; nobody has to submit, stop or send a SIGTERM. *)
Spec ==
    /\ Init /\ [][Next]_vars /\ WF_vars(LoopStep)
    /\ \A i \in Workers : WF_vars(Monitor(i))
    /\ \A s \in Stoppers : WF_vars(spc[s] = "join" /\ Stop(s))

(* Besides, the timer is periodic, time passes, and a child's main loop ends. *)
TimedSpec ==
    /\ Spec /\ WF_vars(TimerFires)
    /\ \A i \in Workers : WF_vars(HeartbeatOld(i)) /\ WF_vars(ChildExit(i))

-----------------------------------------------------------------------------
TypeOK ==
    /\ batch \subseteq {"submit", "control", "signal", "timer"}
    /\ left \in Nat /\ queue \in 0 .. QueueCapacity /\ submitEfd \in Nat
    /\ controlEfd \in Nat /\ slot \in 0 .. Cardinality(Workers) + 1
    /\ \A i \in Workers : w[i].start \in 1 .. MaxStarts

(* Every queued task is announced exactly once: what is in the queue is     *)
(* what the eventfd still counts, what the handler has still to take and    *)
(* what the submitter is about to announce, however submissions and the     *)
(* handler interleave, so that no task waits for the next submission and    *)
(* no notification finds the queue empty.  (handle_task_submit_event)       *)
TasksCounted ==
    TypeOK /\ queue = submitEfd + left + (IF notify THEN 1 ELSE 0)

(* Restarting is orderly whenever the monitor has not been faster: a child  *)
(* the loop loses without waiting for it is one whose monitor had marked    *)
(* the worker ERROR, which worker_stop refuses; and a structure that starts *)
(* anew has no monitor of the old one in it.                                *)
(* (handle_worker_status_event, worker_stop, worker_monitor_thread)         *)
RestartOrderly ==
    /\ orphans \subseteq marked
    /\ pc = "restart" => w[slot].mon \notin {"loop", "mark"}

(* event_loop_stop returns, with the two exceptions the code has: the loop  *)
(* waits for ever for the next signal, or two commands were read as one.    *)
(* (event_loop_stop, handle_control_event, handle_signal_event)             *)
StopReturns ==
    \A s \in Stoppers :
        spc[s] = "join" ~> (spc[s] = "done" \/ lostStop \/ [](pc = "sigread"))

(* What README.md says of a crashed worker: it is started again, at least   *)
(* while the loop runs and unless starting fails.                           *)
CrashedWorkerRestarts ==
    \A i \in Workers : \A n \in 1 .. MaxStarts - 1 :
        (w[i].start = n /\ w[i].child = "zombie")
            ~> (w[i].start > n \/ w[i].child = "none" \/ ~running)
============================================================================

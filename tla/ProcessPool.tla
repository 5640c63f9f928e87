----------------------------- MODULE ProcessPool ----------------------------
(***************************************************************************)
(* ProcessPool/{process_pool,worker,utils}.c: a master feeds worker        *)
(* processes through pipes, restarts dead ones and collects results.       *)
(*                                                                         *)
(* The pool structure is ordinary memory.  The tests, the example and the  *)
(* README run process_pool_run in a forked child, which works on a copy of *)
(* its own; a program may also run it in a thread of the caller's process. *)
(* `forked' says which, and every structure is kept per process ("client", *)
(* "runner").  In a thread the two callers race on the structure, so their *)
(* accesses are separate steps: reading a result and setting the status    *)
(* after it, writing a task and setting the status after it.  The task     *)
(* queue has no lock: in one process the caller submits before it starts   *)
(* the loop.                                                               *)
(*                                                                         *)
(* Pipes are kept as the kernel keeps them: every process holds pipe ends, *)
(* a child inherits those of the process that forks it, a reader sees the  *)
(* end of file when nobody holds the write end.  A master's descriptor     *)
(* numbers are explicit, because the structure remembers numbers it has    *)
(* closed and the kernel gives the lowest free number to a new pipe.       *)
(***************************************************************************)
EXTENDS Integers, Sequences, FiniteSets, FiniteSetsExt, Functions

CONSTANTS NumWorkers,   \* worker_count
          MaxQueue,     \* MAX_TASK_QUEUE
          MaxTasks,     \* bound: tasks submitted in a behaviour
          MaxFaults,    \* bound: crashes of workers and failures to create one
          MaxPids,      \* bound: worker processes created in a behaviour
          MaxFd,        \* bound: the largest descriptor number
          Forking       \* the values `forked' may take

Workers == 1..NumWorkers
TaskIds == 1..MaxTasks
Pids == 1..MaxPids
Fds == 0..MaxFd
Masters == {"client", "runner"}
None == -1              \* a pid or a descriptor number that is not set
Closed == << >>         \* what a free descriptor number refers to

\* The ends of the pipes of the worker process k.
Ends == {"to", "from"} \X Pids \X {"r", "w"}

ASSUME PoolAssumption ==
    /\ NumWorkers \in Nat \ {0}
    /\ MaxQueue \in Nat \ {0}
    /\ {MaxTasks, MaxFaults, MaxPids, MaxFd} \subseteq Nat
    /\ Forking \subseteq BOOLEAN

VARIABLES
    forked,        \* does process_pool_run run in a child of its own?
    pool,          \* process_pool_t of each master: queue, running, workers
    next_task_id,  \* the client's (nobody else submits)
    fdtab,         \* what the descriptor numbers of each master refer to
    \* the kernel: worker processes and pipes
    forks,         \* worker processes created so far; the last one's pid
    proc,          \* per pid: "none", "up", "zombie" or "gone"
    parent,        \* per pid: who forked it
    hold,          \* per pid: the pipe ends it holds
    toQ, fromQ,    \* per pid: the tasks and the results in its pipes
    work,          \* per pid: the task its handler is working on (0: none)
    \* where the callers are
    cpc, ci,       \* create, then destroy: stage and loop variable
    rpc, ri, snd,  \* process_pool_run: stage, loop variable, task being sent
    gpc, gi, gset, gres, \* process_pool_get_result: stage, loop variable,
                         \* the numbers select reported, what was read
    should_exit,   \* the runner's pool_should_exit
    \* history
    delivered,     \* the results handed to the client
    faults

kernelVars == <<forks, proc, parent, hold, toQ, fromQ, work>>
callVars == <<cpc, ci>>
runVars == <<rpc, ri, snd>>
getVars == <<gpc, gi, gset, gres>>
vars == <<forked, pool, next_task_id, fdtab, kernelVars, callVars, runVars, getVars,
          should_exit, delivered, faults>>

Runner == IF forked THEN "runner" ELSE "client"
NoSend == [w |-> 1, task |-> 0, ok |-> FALSE]
Blank == [pid |-> None, status |-> "IDLE",
          toR |-> None, toW |-> None, fromR |-> None, fromW |-> None]

\* process_pool_create after its checks and the memset: no worker yet.
Init ==
    /\ forked \in Forking
    /\ pool = [m \in Masters |-> [queue |-> << >>, running |-> FALSE,
                                  workers |-> [w \in Workers |-> Blank]]]
    /\ next_task_id = 1
    /\ fdtab = [m \in Masters |-> [f \in Fds |-> Closed]]
    /\ forks = 0
    /\ proc = [k \in Pids |-> "none"]
    /\ parent = [k \in Pids |-> "client"]
    /\ hold = [k \in Pids |-> {}]
    /\ toQ = [k \in Pids |-> << >>]
    /\ fromQ = [k \in Pids |-> << >>]
    /\ work = [k \in Pids |-> 0]
    /\ cpc = "create" /\ ci = 1
    /\ rpc = "called" /\ ri = 1 /\ snd = NoSend
    /\ gpc = "none" /\ gi = 1 /\ gset = {} /\ gres = 0
    /\ should_exit = FALSE
    /\ delivered = << >>
    /\ faults = 0

-----------------------------------------------------------------------------
(* Pipes and descriptors *)

MasterEnds(m) == Range(fdtab[m]) \ {Closed}

Held(e) == (\E m \in Masters : e \in MasterEnds(m)) \/ (\E k \in Pids : e \in hold[k])

\* The two ends of a worker's pipes that the worker itself keeps.
ChildEnds(k) == {<<"to", k, "r">>, <<"from", k, "w">>}

\* What descriptor number f of master m refers to; -1 refers to nothing.
Entry(m, f) == IF f = None THEN Closed ELSE fdtab[m][f]

\* close_pipe_pair on both pairs of a worker structure: whatever the remembered
\* numbers refer to now is closed.
Remembered(m, w) ==
    LET s == pool[m].workers[w] IN {s.toR, s.toW, s.fromR, s.fromW} \ {None}
ClosedPairs(m, w) ==
    [f \in Fds |-> IF f \in Remembered(m, w) THEN Closed ELSE fdtab[m][f]]
Forgotten(s) == [s EXCEPT !.toR = None, !.toW = None, !.fromR = None, !.fromW = None]

\* create_worker_process succeeds: two pipes on the four lowest free numbers, a
\* child that inherits every end the master holds but the far ends of its own
\* pipes, which the parent keeps and remembers together with the two it closes.
\* `kept' is what the child keeps of its own pipes.
SpawnKeeping(m, w, kept) ==
    LET k == forks + 1
        free == {f \in Fds : fdtab[m][f] = Closed}
        a == Min(free)
        b == Min(free \ {a})
        c == Min(free \ {a, b})
        d == Min(free \ {a, b, c})
    IN
    /\ k <= MaxPids
    /\ Cardinality(free) >= 4
    /\ fdtab' = [fdtab EXCEPT ![m][b] = <<"to", k, "w">>,
                              ![m][c] = <<"from", k, "r">>]
    /\ pool' = [pool EXCEPT ![m].workers[w] =
                    [pid |-> k, status |-> "IDLE",
                     toR |-> a, toW |-> b, fromR |-> c, fromW |-> d]]
    /\ forks' = k
    /\ proc' = [proc EXCEPT ![k] = "up"]
    /\ parent' = [parent EXCEPT ![k] = m]
    /\ hold' = [hold EXCEPT ![k] = MasterEnds(m) \cup kept]
    /\ UNCHANGED <<toQ, fromQ, work>>

\* Slip: the child does not close the write end of its own task pipe.
SpawnChildKeepsWriteEnd(m, w) ==
    SpawnKeeping(m, w, ChildEnds(forks + 1) \cup {<<"to", forks + 1, "w">>})

create_worker_process(m, w) == SpawnKeeping(m, w, ChildEnds(forks + 1))

\* pipe() or fork() fails: what was opened is closed again.  Only fork stores a
\* pid, its -1: after a failed pipe() the worker keeps the one it had.
CreateWorkerFails(m, w) ==
    /\ faults < MaxFaults
    /\ faults' = faults + 1
    /\ \E p \in {None, pool[m].workers[w].pid} :
          pool' = [pool EXCEPT ![m].workers[w] = Forgotten([@ EXCEPT !.pid = p])]
    /\ UNCHANGED <<fdtab, kernelVars>>

-----------------------------------------------------------------------------
(* process_pool_create *)

Create ==
    /\ cpc = "create"
    /\ \/ /\ create_worker_process("client", ci)
          /\ cpc' = IF ci = NumWorkers THEN "ready" ELSE "create"
          /\ ci' = IF ci = NumWorkers THEN 1 ELSE ci + 1
          /\ UNCHANGED faults
       \/ /\ CreateWorkerFails("client", ci)
          /\ cpc' = "undo"
          /\ ci' = 1
    /\ UNCHANGED <<forked, next_task_id, runVars, getVars, should_exit, delivered>>

-----------------------------------------------------------------------------
(* process_pool_submit_task *)

Enqueue(q, t) == IF Len(q) < MaxQueue THEN Append(q, t) ELSE q

process_pool_submit_task ==
    /\ cpc = "ready"
    /\ forked \/ rpc = "called"
    /\ next_task_id <= MaxTasks
    /\ Len(pool["client"].queue) < MaxQueue
    /\ next_task_id' = next_task_id + 1
    /\ pool' = [pool EXCEPT !["client"].queue = Enqueue(@, next_task_id)]
    /\ UNCHANGED <<forked, fdtab, kernelVars, callVars, runVars, getVars, should_exit,
                   delivered, faults>>

-----------------------------------------------------------------------------
(* process_pool_run *)

\* The loop starts; a forked runner has copied the structure and the descriptors.
RunBegin ==
    /\ cpc = "ready"
    /\ rpc = "called"
    /\ pool' = [pool EXCEPT ![Runner] = [pool["client"] EXCEPT !.running = TRUE]]
    /\ fdtab' = [fdtab EXCEPT ![Runner] = fdtab["client"]]
    /\ rpc' = "test"
    /\ UNCHANGED <<forked, next_task_id, kernelVars, callVars, ri, snd, getVars,
                   should_exit, delivered, faults>>

RunTest ==
    /\ rpc = "test"
    /\ pool[Runner].running /\ ~should_exit
    /\ rpc' = "reap"
    /\ UNCHANGED <<forked, pool, next_task_id, fdtab, kernelVars, callVars, ri, snd,
                   getVars, should_exit, delivered, faults>>

\* reap_dead_children: waitpid reports the zombies among the caller's own
\* children; the worker with that pid, if there still is one, is marked.
Zombies(m) == {k \in Pids : proc[k] = "zombie" /\ parent[k] = m}

MarkReaped(ws, dead) ==
    [w \in Workers |-> IF ws[w].pid \in dead
                       THEN [ws[w] EXCEPT !.status = "DEAD", !.pid = None]
                       ELSE ws[w]]

reap_dead_children(m) ==
    /\ proc' = [k \in Pids |-> IF k \in Zombies(m) THEN "gone" ELSE proc[k]]
    /\ pool' = [pool EXCEPT ![m].workers = MarkReaped(@, Zombies(m))]

RunReap ==
    /\ rpc = "reap"
    /\ reap_dead_children(Runner)
    /\ rpc' = "restart"
    /\ ri' = 1
    /\ UNCHANGED <<forked, next_task_id, fdtab, forks, parent, hold, toQ, fromQ, work,
                   callVars, snd, getVars, should_exit, delivered, faults>>

\* The loop over the workers goes on, or the tasks are dispatched.
NextWorker == IF ri = NumWorkers THEN rpc' = "dispatch" /\ ri' = 1
              ELSE rpc' = "restart" /\ ri' = ri + 1

RunSkip ==
    /\ rpc = "restart"
    /\ pool[Runner].workers[ri].status # "DEAD"
    /\ NextWorker
    /\ UNCHANGED <<forked, pool, next_task_id, fdtab, kernelVars, callVars, snd,
                   getVars, should_exit, delivered, faults>>

\* Slip: restart forgets to close the old result pipe.
RunCloseTaskPipeOnly ==
    /\ rpc = "restart"
    /\ pool[Runner].workers[ri].status = "DEAD"
    /\ LET s == pool[Runner].workers[ri] IN
       fdtab' = [fdtab EXCEPT ![Runner] =
                    [f \in Fds |-> IF f \in {s.toR, s.toW} THEN Closed ELSE @[f]]]
    /\ pool' = [pool EXCEPT ![Runner].workers[ri] = Forgotten(@)]
    /\ rpc' = "create"
    /\ UNCHANGED <<forked, next_task_id, kernelVars, callVars, ri, snd, getVars,
                   should_exit, delivered, faults>>

\* restart_dead_worker closes what it remembers of the dead worker ...
RunClose ==
    /\ rpc = "restart"
    /\ pool[Runner].workers[ri].status = "DEAD"
    /\ fdtab' = [fdtab EXCEPT ![Runner] = ClosedPairs(Runner, ri)]
    /\ pool' = [pool EXCEPT ![Runner].workers[ri] = Forgotten(@)]
    /\ rpc' = "create"
    /\ UNCHANGED <<forked, next_task_id, kernelVars, callVars, ri, snd, getVars,
                   should_exit, delivered, faults>>

\* ... and creates a new one; when that fails the worker stays dead.
RunCreate ==
    /\ rpc = "create"
    /\ \/ create_worker_process(Runner, ri) /\ UNCHANGED faults
       \/ CreateWorkerFails(Runner, ri)
    /\ NextWorker
    /\ UNCHANGED <<forked, next_task_id, callVars, snd, getVars, should_exit, delivered>>

\* Slip: any worker with a process will do.
IdleOrBusy(m) == {w \in Workers : pool[m].workers[w].pid # None}

\* find_idle_worker: the first idle worker whose process exists, and a zombie
\* exists.  An idle worker before it whose process is gone is marked on the way.
Idle(m) == {w \in Workers : /\ pool[m].workers[w].status = "IDLE"
                            /\ pool[m].workers[w].pid # None}
IdleAlive(m) == {w \in Idle(m) : proc[pool[m].workers[w].pid] # "gone"}
MarkGone(m, ws) ==
    [w \in Workers |->
        IF w \in Idle(m) \ IdleAlive(m) /\ \A v \in IdleAlive(m) : w < v
        THEN [ws[w] EXCEPT !.status = "DEAD"] ELSE ws[w]]

\* dispatch_tasks takes a task and writes it to the descriptor it remembers for
\* the worker.  The write fails unless that is the write end of a task pipe that
\* still has its reader.
DispatchSend ==
    LET w == Min(IdleAlive(Runner))
        e == Entry(Runner, pool[Runner].workers[w].toW)
        ok == e # Closed /\ e[3] = "w" /\ Held(<<e[1], e[2], "r">>)
        t == Head(pool[Runner].queue)
    IN
    /\ rpc = "dispatch"
    /\ pool[Runner].queue # << >>
    /\ IdleAlive(Runner) # {}
    /\ pool' = [pool EXCEPT ![Runner].queue = Tail(@),
                            ![Runner].workers = MarkGone(Runner, @)]
    /\ toQ' = IF ok THEN [toQ EXCEPT ![e[2]] = Append(@, t)] ELSE toQ
    /\ snd' = [w |-> w, task |-> t, ok |-> ok]
    /\ rpc' = "sent"
    /\ UNCHANGED <<forked, next_task_id, fdtab, forks, proc, parent, hold, fromQ, work,
                   callVars, ri, getVars, should_exit, delivered, faults>>

\* Slip: the task is put back whether it was sent or not.
DispatchMarkRepeats ==
    /\ rpc = "sent"
    /\ pool' = [pool EXCEPT ![Runner].workers[snd.w].status =
                                IF snd.ok THEN "BUSY" ELSE "DEAD",
                            ![Runner].queue = Enqueue(@, snd.task)]
    /\ rpc' = IF snd.ok THEN "dispatch" ELSE "test"
    /\ snd' = NoSend
    /\ UNCHANGED <<forked, next_task_id, fdtab, kernelVars, callVars, ri, getVars,
                   should_exit, delivered, faults>>

\* After the write: the worker is busy and the loop goes on, or the task goes
\* back to the end of the queue, the worker is dead and the round is over.
DispatchMark ==
    /\ rpc = "sent"
    /\ pool' = IF snd.ok
               THEN [pool EXCEPT ![Runner].workers[snd.w].status = "BUSY"]
               ELSE [pool EXCEPT ![Runner].workers[snd.w].status = "DEAD",
                                 ![Runner].queue = Enqueue(@, snd.task)]
    /\ rpc' = IF snd.ok THEN "dispatch" ELSE "test"
    /\ snd' = NoSend
    /\ UNCHANGED <<forked, next_task_id, fdtab, kernelVars, callVars, ri, getVars,
                   should_exit, delivered, faults>>

DispatchDone ==
    /\ rpc = "dispatch"
    /\ pool[Runner].queue = << >> \/ IdleAlive(Runner) = {}
    /\ pool' = IF pool[Runner].queue = << >> THEN pool
               ELSE [pool EXCEPT ![Runner].workers = MarkGone(Runner, @)]
    /\ rpc' = "test"
    /\ UNCHANGED <<forked, next_task_id, fdtab, kernelVars, callVars, ri, snd, getVars,
                   should_exit, delivered, faults>>

\* The loop ends.  A forked runner then exits: the kernel closes its ends, and
\* init takes over its children.
RunEnd ==
    /\ rpc = "test"
    /\ ~pool[Runner].running \/ should_exit
    /\ pool' = [pool EXCEPT ![Runner].running = FALSE]
    /\ rpc' = "ended"
    /\ fdtab' = IF forked THEN [fdtab EXCEPT !["runner"] = [f \in Fds |-> Closed]]
                ELSE fdtab
    /\ proc' = [k \in Pids |-> IF k \in Zombies("runner") THEN "gone" ELSE proc[k]]
    /\ UNCHANGED <<forked, next_task_id, forks, parent, hold, toQ, fromQ, work,
                   callVars, ri, snd, getVars, should_exit, delivered, faults>>

-----------------------------------------------------------------------------
(* worker_main, in the process k *)

\* The process ends: its ends are closed, its unread tasks are gone with it.
Exit(k) ==
    /\ proc' = [proc EXCEPT ![k] = IF parent[k] = "runner" /\ rpc = "ended"
                                   THEN "gone" ELSE "zombie"]
    /\ hold' = [hold EXCEPT ![k] = {}]
    /\ toQ' = [toQ EXCEPT ![k] = << >>]
    /\ work' = [work EXCEPT ![k] = 0]

workerRest == <<forked, pool, next_task_id, fdtab, forks, parent, callVars, runVars,
                getVars, should_exit, delivered>>

WorkerRead(k) ==
    /\ proc[k] = "up" /\ work[k] = 0
    /\ toQ[k] # << >>
    /\ work' = [work EXCEPT ![k] = Head(toQ[k])]
    /\ toQ' = [toQ EXCEPT ![k] = Tail(@)]
    /\ UNCHANGED <<workerRest, proc, hold, fromQ, faults>>

\* safe_read returns 0: nobody can send any more.
WorkerEof(k) ==
    /\ proc[k] = "up" /\ work[k] = 0
    /\ toQ[k] = << >>
    /\ ~Held(<<"to", k, "w">>)
    /\ Exit(k)
    /\ UNCHANGED <<workerRest, fromQ, faults>>

\* The handler returns and the result is written; without a reader the write
\* fails and the worker leaves its loop.
WorkerReply(k) ==
    /\ proc[k] = "up" /\ work[k] # 0
    /\ IF Held(<<"from", k, "r">>)
       THEN /\ fromQ' = [fromQ EXCEPT ![k] = Append(@, work[k])]
            /\ work' = [work EXCEPT ![k] = 0]
            /\ UNCHANGED <<proc, hold, toQ>>
       ELSE Exit(k) /\ UNCHANGED fromQ
    /\ UNCHANGED <<workerRest, faults>>

\* The handler crashes, or somebody kills the process.
WorkerCrash(k) ==
    /\ proc[k] = "up"
    /\ faults < MaxFaults
    /\ faults' = faults + 1
    /\ Exit(k)
    /\ UNCHANGED <<workerRest, fromQ>>

-----------------------------------------------------------------------------
(* process_pool_get_result *)

\* update_fd_sets and select, when select has something to report: a result
\* pipe with a result in it or without a writer.  With nothing to report the
\* caller times out, with a closed number in the set it returns -1, and with no
\* worker to watch it sleeps: nothing changes.
Watched == {pool["client"].workers[w].fromR :
              w \in {v \in Workers : /\ pool["client"].workers[v].status # "DEAD"
                                     /\ pool["client"].workers[v].fromR # None}}
Readable(f) ==
    LET e == fdtab["client"][f] IN
    /\ e[3] = "r"
    /\ fromQ[e[2]] # << >> \/ ~Held(<<"from", e[2], "w">>)

getRest == <<forked, next_task_id, fdtab, forks, proc, parent, hold, toQ, work, callVars,
             runVars, should_exit, faults>>

GetSelect ==
    /\ cpc = "ready" /\ gpc = "none"
    /\ pool["client"].running
    /\ \A f \in Watched : fdtab["client"][f] # Closed
    /\ gset' = {f \in Watched : Readable(f)}
    /\ gset' # {}
    /\ gpc' = "scan"
    /\ gi' = 1
    /\ UNCHANGED <<getRest, pool, fromQ, gres, delivered>>

\* The next worker from gi on that is not dead and was reported.
Reported == {w \in gi..NumWorkers : /\ pool["client"].workers[w].status # "DEAD"
                                    /\ pool["client"].workers[w].fromR \in gset}

GetPick ==
    /\ gpc = "scan"
    /\ IF Reported = {}
       THEN gpc' = "none" /\ gi' = 1 /\ gset' = {}
       ELSE gpc' = "read" /\ gi' = Min(Reported) /\ UNCHANGED gset
    /\ UNCHANGED <<getRest, pool, fromQ, gres, delivered>>

\* safe_read on the remembered number: a result, nothing (the end of the file
\* and an empty pipe look the same), or an error.
GetRead ==
    LET e == Entry("client", pool["client"].workers[gi].fromR) IN
    /\ gpc = "read"
    /\ IF e # Closed /\ e[3] = "r"
       THEN /\ gres' = IF fromQ[e[2]] = << >> THEN 0 ELSE Head(fromQ[e[2]])
            /\ fromQ' = IF fromQ[e[2]] = << >> THEN fromQ
                        ELSE [fromQ EXCEPT ![e[2]] = Tail(@)]
            /\ gpc' = "mark"
            /\ UNCHANGED gi
       ELSE /\ gpc' = "scan"
            /\ gi' = gi + 1
            /\ UNCHANGED <<gres, fromQ>>
    /\ UNCHANGED <<getRest, pool, gset, delivered>>

\* receive_result_from_worker sets the status: a result frees the worker and
\* ends the call, an empty read marks the worker dead and the scan goes on.
GetMark ==
    /\ gpc = "mark"
    /\ pool' = [pool EXCEPT !["client"].workers[gi].status =
                                IF gres = 0 THEN "DEAD" ELSE "IDLE"]
    /\ IF gres = 0
       THEN gpc' = "scan" /\ gi' = gi + 1 /\ UNCHANGED <<gset, delivered>>
       ELSE /\ gpc' = "none" /\ gi' = 1 /\ gset' = {}
            /\ delivered' = Append(delivered, gres)
    /\ gres' = 0
    /\ UNCHANGED <<getRest, fromQ>>

-----------------------------------------------------------------------------
(* process_pool_stop, process_pool_destroy *)

\* The caller stops the pool; a forked runner gets a SIGTERM instead.
process_pool_stop ==
    /\ cpc = "ready"
    /\ rpc \notin {"called", "ended"}
    /\ pool["client"].running \/ (forked /\ ~should_exit)
    /\ pool' = [pool EXCEPT !["client"].running = FALSE]
    /\ should_exit' = forked
    /\ UNCHANGED <<forked, next_task_id, fdtab, kernelVars, callVars, runVars, getVars,
                   delivered, faults>>

\* The caller destroys a pool that never ran, or whose loop it has waited for.
DestroyBegin ==
    /\ cpc = "ready"
    /\ rpc \in {"called", "ended"}
    /\ gpc = "none"
    /\ pool' = [pool EXCEPT !["client"].running = FALSE]
    /\ cpc' = "destroy"
    /\ ci' = 1
    /\ UNCHANGED <<forked, next_task_id, fdtab, kernelVars, runVars, getVars,
                   should_exit, delivered, faults>>

\* terminate_worker_process: SIGTERM, up to five seconds for the worker to leave
\* its loop, then SIGKILL; either way the child is waited for.
TerminateWorker ==
    LET k == pool["client"].workers[ci].pid IN
    /\ cpc \in {"destroy", "undo"}
    /\ ci \in Workers
    /\ IF k # None
       THEN /\ proc' = [proc EXCEPT ![k] = "gone"]
            /\ hold' = [hold EXCEPT ![k] = {}]
            /\ toQ' = [toQ EXCEPT ![k] = << >>]
            /\ work' = [work EXCEPT ![k] = 0]
       ELSE UNCHANGED <<proc, hold, toQ, work>>
    /\ fdtab' = [fdtab EXCEPT !["client"] = ClosedPairs("client", ci)]
    /\ pool' = [pool EXCEPT !["client"].workers[ci] = [Blank EXCEPT !.status = "DEAD"]]
    /\ ci' = ci + 1
    /\ UNCHANGED <<forked, next_task_id, forks, parent, fromQ, cpc, runVars, getVars,
                   should_exit, delivered, faults>>

\* The remaining children are reaped and the structure is freed.  A creation
\* that failed half way frees it without reaping.
FreePool ==
    /\ cpc \in {"destroy", "undo"}
    /\ ci > NumWorkers
    /\ IF cpc = "destroy" THEN reap_dead_children("client") ELSE UNCHANGED <<proc, pool>>
    /\ cpc' = "freed"
    /\ UNCHANGED <<forked, next_task_id, fdtab, forks, parent, hold, toQ, fromQ, work, ci,
                   runVars, getVars, should_exit, delivered, faults>>

-----------------------------------------------------------------------------
RunStep ==
    \/ RunTest \/ RunReap \/ RunSkip \/ RunClose \/ RunCreate
    \/ DispatchSend \/ DispatchMark \/ DispatchDone \/ RunEnd
WorkerStep(k) == WorkerRead(k) \/ WorkerEof(k) \/ WorkerReply(k)
GetStep == GetSelect \/ GetPick \/ GetRead \/ GetMark
DestroyStep == TerminateWorker \/ FreePool

Next ==
    \/ Create
    \/ process_pool_submit_task
    \/ RunBegin
    \/ RunStep
    \/ GetStep
    \/ process_pool_stop
    \/ DestroyBegin
    \/ DestroyStep
    \/ \E k \in Pids : WorkerStep(k) \/ WorkerCrash(k)

Spec == Init /\ [][Next]_vars

\* Scheduling: the loop sleeps and wakes, handlers return, the caller keeps
\* asking for results, and a destruction goes on.  Faults, stopping and starting
\* to destroy are nobody's duty.
FairSpec ==
    /\ Spec
    /\ WF_vars(Create) /\ WF_vars(RunBegin) /\ WF_vars(RunStep)
    /\ WF_vars(GetStep) /\ WF_vars(DestroyStep)
    /\ \A k \in Pids : WF_vars(WorkerStep(k))

-----------------------------------------------------------------------------
(* Properties *)

Status == {"IDLE", "BUSY", "DEAD"}
WorkerRecord == [pid : Pids \cup {None}, status : Status,
                 toR : Fds \cup {None}, toW : Fds \cup {None},
                 fromR : Fds \cup {None}, fromW : Fds \cup {None}]

\* Types of the structures, the kernel's tables and the callers' places.
TypeOK ==
    /\ forked \in Forking
    /\ \A m \in Masters : /\ pool[m].queue \in Seq(TaskIds)
                          /\ Len(pool[m].queue) <= MaxQueue
                          /\ pool[m].running \in BOOLEAN
                          /\ pool[m].workers \in [Workers -> WorkerRecord]
    /\ next_task_id \in 1..(MaxTasks + 1)
    /\ fdtab \in [Masters -> [Fds -> Ends \cup {Closed}]]
    /\ forks \in 0..MaxPids
    /\ proc \in [Pids -> {"none", "up", "zombie", "gone"}]
    /\ parent \in [Pids -> Masters]
    /\ hold \in [Pids -> SUBSET Ends]
    /\ \A k \in Pids : toQ[k] \in Seq(TaskIds) /\ fromQ[k] \in Seq(TaskIds)
    /\ work \in [Pids -> 0..MaxTasks]
    /\ cpc \in {"create", "undo", "ready", "destroy", "freed"}
    /\ ci \in 1..(NumWorkers + 1)
    /\ rpc \in {"called", "test", "reap", "restart", "create", "dispatch", "sent", "ended"}
    /\ ri \in Workers
    /\ snd \in [w : Workers, task : 0..MaxTasks, ok : BOOLEAN]
    /\ gpc \in {"none", "scan", "read", "mark"}
    /\ gi \in 1..(NumWorkers + 1)
    /\ gset \subseteq Fds
    /\ gres \in 0..MaxTasks
    /\ should_exit \in BOOLEAN
    /\ delivered \in Seq(TaskIds)
    /\ faults \in 0..MaxFaults

\* Where a task is, from the queue the loop serves to the results handed over.
Positions(s, t) == {i \in DOMAIN s : s[i] = t}
Places(t) ==
    ({"queue"} \X Positions(pool[Runner].queue, t))
    \cup {<<"sending", 1>> : x \in {y \in {snd} : y.task = t /\ ~y.ok}}
    \cup (UNION {{<<"to", k>>} \X Positions(toQ[k], t) : k \in Pids})
    \cup {<<"work", k>> : k \in {j \in Pids : work[j] = t}}
    \cup (UNION {{<<"from", k>>} \X Positions(fromQ[k], t) : k \in Pids})
    \cup {<<"got", 1>> : x \in {y \in {gres} : y = t}}
    \cup ({"delivered"} \X Positions(delivered, t))

\* A task is never in two places, so it is handled at most once and its result
\* delivered at most once, whatever workers crash, sends fail and descriptor
\* numbers are reused (dispatch_tasks putting a task back, restart_dead_worker).
\* And without a fault a submitted task is in exactly one place while the pool
\* is in use, although in one process the loop and process_pool_get_result race
\* on the workers' status.
OnePlace ==
    \A t \in TaskIds :
        /\ Cardinality(Places(t)) <= 1
        /\ (faults = 0 /\ cpc = "ready" /\ ~forked /\ t < next_task_id)
              => Places(t) # {}

\* A worker process never has more than one task or result outstanding:
\* dispatch_tasks sends to idle workers only and to the pipe of that worker,
\* although a restart closes a descriptor number of the next worker.  One fault
\* cannot break it in a forked runner.  (In one process a crash can, when
\* process_pool_get_result sets the status of a worker that was replaced between
\* its read and the assignment.  Four crashes of three workers break it in a
\* forked runner too: a restarted worker's task pipe gets the number that an
\* idle one still remembers.)
OneTaskEach ==
    (faults = 0 \/ (forked /\ faults <= 1)) =>
        \A k \in Pids :
            Len(toQ[k]) + Len(fromQ[k]) + (IF work[k] = 0 THEN 0 ELSE 1) <= 1

\* Once the pool is freed the caller holds no pipe: every descriptor it opened,
\* for the first workers and for those that replaced them, was closed.
DescriptorsClosed == cpc = "freed" => MasterEnds("client") = {}

\* Once the pool is freed and the runner, if any, has ended, every worker
\* process ends, including a live one whose pid a restart overwrote and those a
\* forked runner started behind the caller's back: the end of file reaches them.
AllWorkersExit ==
    (cpc = "freed" /\ (forked => rpc \in {"called", "ended"}))
        ~> (\A k \in Pids : proc[k] # "up")

=============================================================================

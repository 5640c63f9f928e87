---------------------------- MODULE PoolManager ----------------------------
(***************************************************************************)
(* The life of a pool of new_ProcessPool (pool_manager.c): pool_create,    *)
(* pool_start, pool_stop, pool_resize and pool_destroy called from several *)
(* threads, the worker slots they fill and empty with the functions of     *)
(* worker.c, the monitor threads that mark a worker dead, and the event    *)
(* loop's thread (event_loop.c), which restarts workers with the same      *)
(* functions on the same slots WITHOUT pool_mutex.                         *)
(*                                                                         *)
(* So worker_stop, worker_destroy, worker_create and worker_start are run  *)
(* step by step, by the holder of pool_mutex (actor 0) and by each event   *)
(* loop thread (actors 1, 2, ...); every access to the worker structure    *)
(* reads what is there at that moment.  A child is a number and has a      *)
(* process group of its own; kids are the children nobody has waited for.  *)
(***************************************************************************)
EXTENDS Integers, FiniteSets

CONSTANTS
    Callers,        \* threads that use the pool
    MinWorkers, MaxWorkers,     \* config.min_workers, config.max_workers
    MaxKids,        \* bound: children started
    MaxAttempts,    \* bound: event loop threads started
    MaxClashes,     \* bound: after so many clashes no slot is in two hands at a time
    NULL

ASSUME PoolManagerAssumption ==
    /\ MinWorkers \in Nat \ {0} /\ MaxWorkers \in Nat /\ MinWorkers <= MaxWorkers
    /\ {MaxKids, MaxAttempts, MaxClashes} \subseteq Nat /\ NULL \notin Callers

VARIABLES
    state,          \* pool->state, "NONE" without a pool
    mutex,          \* holder of pool_mutex, or NULL
    phase,          \* caller -> where it is; "idle" outside the pool
    at, to,         \* the index of the holder's loop over slots, and its end
    active,         \* pool->active_workers
    thread,         \* pool->event_thread, 0 for none
    loops,          \* event loop threads that run
    dying,          \* pool_destroy has begun
    worker,         \* slot -> [pid, st, run, mon]: state, monitor_running, monitor_thread
    job,            \* actor -> what it does to which slot
    monitor,        \* child -> its monitor thread: "none", "run" or "mark"
    kids,           \* children not waited for
    next, home,     \* next child; child -> slot it was started for
    stray, given_up,    \* children started outside a running pool, or forgotten
                        \* in their slots; of workers a monitor marked ERROR
    clash,          \* slots two actors have had in hand at a time
    gap,            \* the event loop has failed to restart a worker
    failed,         \* event loop threads of starts that failed
    overrun,        \* a loop went past the workers array
    killed          \* worker_stop killed its own process group

callVars == <<state, mutex, phase, at, to, active, thread, loops, dying>>
kidVars == <<monitor, kids, next, home, stray, given_up>>
ghostVars == <<clash, gap, failed, overrun, killed>>
managerVars == <<callVars, worker, job, kidVars, ghostVars>>

Slots == 0 .. MaxWorkers - 1
Kids == 1 .. MaxKids
Loops == 1 .. MaxAttempts
Actors == 0 .. MaxAttempts
Empty == [pid |-> 0, st |-> "CREATED", run |-> FALSE, mon |-> 0]
NoJob == [slot |-> 0, step |-> "none", nested |-> FALSE, val |-> 0]

ManagerInit ==
    /\ state = "NONE" /\ mutex = NULL /\ phase = [c \in Callers |-> "idle"]
    /\ at = 0 /\ to = 0 /\ active = 0 /\ thread = 0 /\ loops = {} /\ dying = FALSE
    /\ worker = [i \in Slots |-> Empty] /\ job = [a \in Actors |-> NoJob]
    /\ monitor = [k \in Kids |-> "none"] /\ kids = {} /\ next = 1
    /\ home = [k \in Kids |-> 0] /\ stray = {} /\ given_up = {}
    /\ clash = {} /\ gap = FALSE /\ failed = {} /\ overrun = FALSE /\ killed = FALSE

-----------------------------------------------------------------------------
(* The slot a works on, its structure, and a step of a from one line of the *)
(* worker functions to another.                                             *)
Mine(a) == worker[job[a].slot]
InHand(i) == {a \in Actors : job[a].step # "none" /\ job[a].slot = i}
From(a, s) == job[a].step = s
Goto(a, s) == job' = [job EXCEPT ![a].step = s]
Store(a, w) == worker' = [worker EXCEPT ![job[a].slot] = w]

(* a takes slot i in hand; a clash if somebody has it. *)
TakeInHand(a, i, s) ==
    /\ job' = [job EXCEPT ![a] = [NoJob EXCEPT !.slot = i, !.step = s]]
    /\ InHand(i) # {} => Cardinality(clash) < MaxClashes
    /\ clash' = IF InHand(i) = {} THEN clash ELSE clash \cup {i}

(* The pid is tested: by the loops over slots of pool_start, pool_stop and   *)
(* pool_resize, which skip a slot without one; by the event loop, whose      *)
(* second look may find the worker alive after all.                         *)
Look(a) ==
    /\ From(a, "look")
    /\ \/ (a > 0 \/ Mine(a).pid > 0) /\ Goto(a, "stop")
       \/ a = 0 /\ Mine(a).pid = 0 /\ Goto(a, "nothing")
       \/ a > 0 /\ Mine(a).pid > 0 /\ job' = [job EXCEPT ![a] = NoJob]
    /\ UNCHANGED <<callVars, worker, kidVars, ghostVars>>

(* worker_stop returns to its caller, or to worker_destroy that called it.  *)
StopEnds(a) ==
    job' = [job EXCEPT ![a].step = IF job[a].nested THEN "clear" ELSE "destroy",
                       ![a].nested = FALSE]

(* worker_stop refuses a worker without a pid or not RUNNING. *)
StopTests(a) ==
    /\ \/ From(a, "stop") /\ IF Mine(a).pid > 0 THEN Goto(a, "state") ELSE StopEnds(a)
       \/ From(a, "state") /\ IF Mine(a).st = "RUNNING" THEN Goto(a, "stopping") ELSE StopEnds(a)
    /\ UNCHANGED <<callVars, worker, kidVars, ghostVars>>

(* The stores of worker_stop into the structure. *)
StopStores(a) ==
    /\ \/ From(a, "stopping") /\ Store(a, [Mine(a) EXCEPT !.st = "STOPPING"]) /\ Goto(a, "poll")
       \/ From(a, "quiet") /\ Store(a, [Mine(a) EXCEPT !.run = FALSE]) /\ Goto(a, "join")
       \/ From(a, "stopped") /\ Store(a, [Mine(a) EXCEPT !.st = "STOPPED"]) /\ StopEnds(a)
    /\ UNCHANGED <<callVars, kidVars, ghostVars>>

(* Slip: the child that is killed is not waited for. *)
StopWaitsNot(a) ==
    /\ \/ From(a, "poll") /\ kids' = kids \ {Mine(a).pid} /\ \E s \in {"poll", "probe"} : Goto(a, s)
       \/ From(a, "poll") /\ Goto(a, "probe") /\ UNCHANGED kids
       \/ From(a, "reap") /\ Goto(a, "quiet") /\ UNCHANGED kids
    /\ UNCHANGED <<callVars, worker, monitor, next, home, stray, given_up, ghostVars>>

(* waitpid of whatever pid is there now: without blocking, until the child  *)
(* has been waited for, is nobody's, or the time is over (the pid is read    *)
(* again to see which child it was), and after the kill.                    *)
StopWaits(a) ==
    /\ \/ From(a, "poll") /\ kids' = kids \ {Mine(a).pid} /\ \E s \in {"poll", "probe"} : Goto(a, s)
       \/ From(a, "poll") /\ Goto(a, "probe") /\ UNCHANGED kids
       \/ From(a, "reap") /\ kids' = kids \ {Mine(a).pid} /\ Goto(a, "quiet")
    /\ UNCHANGED <<callVars, worker, monitor, next, home, stray, given_up, ghostVars>>

(* kill(pid, 0) finds a child not waited for, or the caller's own process   *)
(* group where the pid is 0 by now; kill(0, SIGKILL) ends everything.       *)
StopKills(a) ==
    /\ \/ From(a, "probe") /\ UNCHANGED killed
          /\ Goto(a, IF Mine(a).pid \in kids \cup {0} THEN "kill" ELSE "quiet")
       \/ From(a, "kill") /\ killed' = (Mine(a).pid = 0) /\ Goto(a, "reap")
    /\ UNCHANGED <<callVars, worker, kidVars, clash, gap, failed, overrun>>

(* pthread_join of the monitor, if the structure names one. *)
StopJoins(a) ==
    /\ \/ /\ From(a, "join") /\ UNCHANGED worker
          /\ IF Mine(a).mon = 0 THEN Goto(a, "stopped")
             ELSE job' = [job EXCEPT ![a].step = "joining", ![a].val = Mine(a).mon]
       \/ /\ From(a, "joining") /\ monitor[job[a].val] = "none"
          /\ Store(a, [Mine(a) EXCEPT !.mon = 0])
          /\ job' = [job EXCEPT ![a].step = "stopped", ![a].val = 0]
    /\ UNCHANGED <<callVars, kidVars, ghostVars>>

(* worker_destroy: stops a RUNNING worker; then the structure is zeroed,    *)
(* and the event loop goes on with worker_create.                           *)
WorkerDestroy(a) ==
    /\ \/ /\ From(a, "destroy") /\ UNCHANGED worker
          /\ IF Mine(a).st = "RUNNING"
             THEN job' = [job EXCEPT ![a].step = "stop", ![a].nested = TRUE]
             ELSE Goto(a, "clear")
       \/ /\ From(a, "clear") /\ Store(a, Empty)
          /\ Goto(a, IF a > 0 THEN "create" ELSE
                     IF phase[mutex] \in {"start", "grow"} THEN "nothing" ELSE "done")
    /\ UNCHANGED <<callVars, kidVars, ghostVars>>

(* A restart by the event loop comes to nothing. *)
RestartFails(a) == job' = [job EXCEPT ![a] = NoJob] /\ gap' = TRUE

(* worker_create zeroes the structure, whatever it holds, and may fail.  A  *)
(* pool resized before its start forgets workers here.                      *)
WorkerCreate(a) ==
    /\ From(a, "create") /\ Store(a, Empty)
    /\ stray' = IF a = 0 /\ stray # {} THEN stray \cup {Mine(a).pid} ELSE stray
    /\ \/ Goto(a, "start") /\ UNCHANGED gap
       \/ a > 0 /\ RestartFails(a)
       \/ a = 0 /\ Goto(a, "nothing") /\ UNCHANGED gap
    /\ UNCHANGED <<callVars, monitor, kids, next, home, given_up, clash, failed, overrun, killed>>

(* After a failed worker_start the pool calls worker_destroy, the event     *)
(* loop does not.                                                           *)
StartFails(a) ==
    IF a = 0 THEN Goto(a, "destroy") /\ UNCHANGED gap ELSE RestartFails(a)

(* worker_start: the state is tested, then STARTING is stored and the child *)
(* forked, which may fail.                                                  *)
StartForks(a) ==
    /\ \/ /\ From(a, "start") /\ UNCHANGED <<worker, kidVars>>
          /\ IF Mine(a).st = "CREATED" THEN Goto(a, "fork") /\ UNCHANGED gap ELSE StartFails(a)
       \/ /\ From(a, "fork") /\ next <= MaxKids /\ UNCHANGED <<gap, monitor, given_up>>
          /\ Store(a, [Mine(a) EXCEPT !.st = "STARTING"])
          /\ job' = [job EXCEPT ![a].step = "pid", ![a].val = next]
          /\ next' = next + 1 /\ kids' = kids \cup {next}
          /\ home' = [home EXCEPT ![next] = job[a].slot]
          /\ stray' = IF state \in {"CREATED", "STOPPED"} THEN stray \cup {next} ELSE stray
       \/ /\ From(a, "fork") /\ UNCHANGED kidVars
          /\ Store(a, [Mine(a) EXCEPT !.st = "ERROR"]) /\ StartFails(a)
    /\ UNCHANGED <<callVars, clash, failed, overrun, killed>>

(* ... then the pid, RUNNING and monitor_running ... *)
StartStores(a) ==
    /\ \/ From(a, "pid") /\ Store(a, [Mine(a) EXCEPT !.pid = job[a].val]) /\ Goto(a, "run")
       \/ From(a, "run") /\ Store(a, [Mine(a) EXCEPT !.st = "RUNNING"]) /\ Goto(a, "watch")
       \/ From(a, "watch") /\ Store(a, [Mine(a) EXCEPT !.run = TRUE]) /\ Goto(a, "thread")
    /\ UNCHANGED <<callVars, kidVars, ghostVars>>

(* ... and the monitor's thread, which may not come into being. *)
StartMonitor(a) ==
    /\ From(a, "thread")
    /\ job' = [job EXCEPT ![a] = IF a = 0 THEN [job[a] EXCEPT !.step = "done", !.val = 0] ELSE NoJob]
    /\ \/ /\ monitor' = [monitor EXCEPT ![job[a].val] = "run"]
          /\ Store(a, [Mine(a) EXCEPT !.mon = job[a].val])
       \/ UNCHANGED <<worker, monitor>>
    /\ UNCHANGED <<callVars, kids, next, home, stray, given_up, ghostVars>>

WorkerFunctions(a) ==
    \/ Look(a) \/ StopTests(a) \/ StopStores(a) \/ StopWaits(a) \/ StopKills(a) \/ StopJoins(a)
    \/ WorkerDestroy(a) \/ WorkerCreate(a) \/ StartForks(a) \/ StartStores(a) \/ StartMonitor(a)

-----------------------------------------------------------------------------
(* pool_create with a valid configuration; a failure leaves nothing. *)
PoolCreate ==
    /\ state = "NONE" /\ ~dying /\ state' = "CREATED"
    /\ UNCHANGED <<mutex, phase, at, to, active, thread, loops, dying, worker, job, kidVars, ghostVars>>

Enter(c, p) == mutex = NULL /\ mutex' = c /\ phase' = [phase EXCEPT ![c] = p]
Leave(c) == mutex' = NULL /\ phase' = [phase EXCEPT ![c] = "idle"] /\ at' = 0 /\ to' = 0
Turn(c, p, i, n) == mutex' = mutex /\ phase' = [phase EXCEPT ![c] = p] /\ at' = i /\ to' = n

(* A call of a pool that exists; nobody calls one that is being destroyed. *)
MayCall(c) == phase[c] = "idle" /\ state # "NONE" /\ ~dying

(* pool_start: its check and its event loop thread; in another state, or    *)
(* when the thread cannot be created, nothing has changed at the return.    *)
PoolStart(c) ==
    /\ MayCall(c) /\ Enter(c, "start") /\ state = "CREATED" /\ state' = "STARTING"
    /\ at' = 0 /\ to' = MinWorkers
    /\ LET n == Cardinality(failed) + 1 IN
        n <= MaxAttempts /\ thread' = n /\ loops' = loops \cup {n}
    /\ UNCHANGED <<active, dying, worker, job, kidVars, ghostVars>>

(* The holder's loop comes to the next slot, to fill it or to look at it.   *)
(* Past the array (pool_resize) it reads what is there, which ends the      *)
(* model's interest in it.                                                  *)
Visit(c) ==
    /\ phase[c] \in {"start", "undo", "stop", "grow", "shrink"} /\ at < to /\ From(0, "none")
    /\ IF at \in Slots
       THEN /\ TakeInHand(0, at, IF phase[c] \in {"start", "grow"} THEN "create" ELSE "look")
            /\ UNCHANGED <<mutex, phase, at, to, overrun>>
       ELSE overrun' = TRUE /\ Leave(c) /\ UNCHANGED <<job, clash>>
    /\ UNCHANGED <<state, active, thread, loops, dying, worker, kidVars, gap, failed, killed>>

(* What came of the slot: a worker started or stopped, or nothing. *)
Came(r) == From(0, r) /\ job' = [job EXCEPT ![0] = NoJob]

StartWorker(c) ==
    /\ phase[c] = "start"
    /\ \/ Came("done") /\ Turn(c, "start", at + 1, to) /\ active' = active + 1 /\ UNCHANGED state
       \/ Came("nothing") /\ Turn(c, "undo", 0, MaxWorkers) /\ state' = "STOPPING" /\ UNCHANGED active
    /\ UNCHANGED <<thread, loops, dying, worker, kidVars, ghostVars>>

StartDone(c) ==
    /\ phase[c] = "start" /\ at = to /\ Leave(c) /\ state' = "RUNNING"
    /\ UNCHANGED <<active, thread, loops, dying, worker, job, kidVars, ghostVars>>

(* The loops over all slots at the end of a failed start and in pool_stop. *)
TearDown(c) ==
    /\ phase[c] \in {"undo", "stop"} /\ Turn(c, phase[c], at + 1, to)
    /\ \E r \in {"done", "nothing"} : Came(r)
    /\ UNCHANGED <<state, active, thread, loops, dying, worker, kidVars, ghostVars>>

(* The end of a failed start: the event loop's thread goes on. *)
StartUndone(c) ==
    /\ phase[c] = "undo" /\ at = to /\ Leave(c) /\ state' = "CREATED" /\ active' = 0
    /\ failed' = failed \cup {thread}
    /\ UNCHANGED <<thread, loops, dying, worker, job, kidVars, clash, gap, overrun, killed>>

(* pool_stop: its check; in another state it returns at once. *)
PoolStop(c) ==
    /\ MayCall(c) /\ Enter(c, "drain") /\ state = "RUNNING" /\ state' = "STOPPING"
    /\ UNCHANGED <<at, to, active, thread, loops, dying, worker, job, kidVars, ghostVars>>

(* While tasks run it sleeps without the mutex; none is left, or the time   *)
(* is over, and the workers are stopped.                                    *)
StopDrain(c) ==
    /\ \/ /\ phase[c] = "drain" /\ mutex' = NULL /\ phase' = [phase EXCEPT ![c] = "sleep"]
          /\ UNCHANGED <<at, to>>
       \/ phase[c] = "sleep" /\ Enter(c, "drain") /\ UNCHANGED <<at, to>>
       \/ phase[c] = "drain" /\ Turn(c, "stop", 0, MaxWorkers)
    /\ UNCHANGED <<state, active, thread, loops, dying, worker, job, kidVars, ghostVars>>

(* The event loop's thread is joined, if there is one. *)
StopDone(c) ==
    /\ phase[c] = "stop" /\ at = to /\ thread \notin loops
    /\ Leave(c) /\ thread' = 0 /\ active' = 0 /\ state' = "STOPPED"
    /\ UNCHANGED <<loops, dying, worker, job, kidVars, ghostVars>>

(* pool_destroy: a running pool is stopped first.  The caller sees to it    *)
(* that nobody else is in the pool.                                         *)
PoolDestroy(c) ==
    /\ MayCall(c) /\ \A d \in Callers : phase[d] = "idle"
    /\ dying' = TRUE
    /\ IF state = "RUNNING" THEN Enter(c, "drain") /\ state' = "STOPPING"
                            ELSE UNCHANGED <<mutex, phase, state>>
    /\ UNCHANGED <<at, to, active, thread, loops, worker, job, kidVars, ghostVars>>

(* cleanup_pool_resources, and the pool is freed: its slots are gone. *)
Cleanup ==
    /\ dying /\ state # "NONE" /\ \A d \in Callers : phase[d] = "idle"
    /\ state' = "NONE" /\ worker' = [i \in Slots |-> Empty]
    /\ UNCHANGED <<mutex, phase, at, to, active, thread, loops, dying, job, kidVars, ghostVars>>

(* pool_resize, in whatever state the pool is. *)
PoolResize(c) ==
    /\ MayCall(c)
    /\ \E n \in MinWorkers .. MaxWorkers :
        /\ at' = (IF n > active THEN active ELSE n) /\ to' = (IF n > active THEN n ELSE active)
        /\ Enter(c, IF n > active THEN "grow" ELSE "shrink")
    /\ UNCHANGED <<state, active, thread, loops, dying, worker, job, kidVars, ghostVars>>

(* Slip: a worker that could not be started is counted. *)
GrowCounts(c) ==
    /\ phase[c] = "grow" /\ active' = active + 1
    /\ \/ Came("done") /\ Turn(c, "grow", at + 1, to)
       \/ Came("nothing") /\ Leave(c)
    /\ UNCHANGED <<state, thread, loops, dying, worker, kidVars, ghostVars>>

Grow(c) ==
    /\ phase[c] = "grow"
    /\ \/ Came("done") /\ Turn(c, "grow", at + 1, to) /\ active' = active + 1
       \/ Came("nothing") /\ Leave(c) /\ UNCHANGED active
    /\ UNCHANGED <<state, thread, loops, dying, worker, kidVars, ghostVars>>

(* Only a slot with a worker is counted off. *)
Shrink(c) ==
    /\ phase[c] = "shrink" /\ Turn(c, "shrink", at + 1, to)
    /\ \/ Came("done") /\ active' = active - 1
       \/ Came("nothing") /\ UNCHANGED active
    /\ UNCHANGED <<state, thread, loops, dying, worker, kidVars, ghostVars>>

ResizeDone(c) ==
    /\ phase[c] \in {"grow", "shrink"} /\ at = to /\ Leave(c)
    /\ UNCHANGED <<state, active, thread, loops, dying, worker, job, kidVars, ghostVars>>

-----------------------------------------------------------------------------
(* worker_monitor_thread of the worker started as child k: it ends when     *)
(* monitor_running is false, or finds its worker dead (too old a heartbeat  *)
(* will do) ...                                                             *)
WatchCheck(k) ==
    /\ monitor[k] = "run"
    /\ monitor' = [monitor EXCEPT ![k] = IF worker[home[k]].run THEN "mark" ELSE "none"]
    /\ UNCHANGED <<callVars, worker, job, kids, next, home, stray, given_up, ghostVars>>

(* ... and then marks whatever is in the slot by now. *)
WatchMark(k) ==
    /\ monitor[k] = "mark" /\ monitor' = [monitor EXCEPT ![k] = "none"]
    /\ LET w == worker[home[k]] IN
        /\ worker' = [worker EXCEPT ![home[k]].st = "ERROR"]
        /\ given_up' = IF w.st = "RUNNING" THEN given_up \cup {w.pid} ELSE given_up
    /\ UNCHANGED <<callVars, job, kids, next, home, stray, ghostVars>>

(* handle_timer_event sees a RUNNING worker, handle_signal_event one whose  *)
(* child has ended, and handle_worker_status_event is called.               *)
LoopPick(n, i) ==
    /\ n \in loops /\ From(n, "none") /\ (worker[i].pid > 0 \/ worker[i].st = "RUNNING")
    /\ TakeInHand(n, i, "look")
    /\ UNCHANGED <<callVars, worker, kidVars, gap, failed, overrun, killed>>

(* The thread of the loop ends. *)
LoopExit(n) ==
    /\ n \in loops /\ From(n, "none") /\ loops' = loops \ {n}
    /\ UNCHANGED <<state, mutex, phase, at, to, active, thread, dying, worker, job, kidVars, ghostVars>>

-----------------------------------------------------------------------------
Call(c) ==
    \/ PoolStart(c) \/ Visit(c) \/ StartWorker(c) \/ StartDone(c) \/ StartUndone(c)
    \/ TearDown(c) \/ PoolStop(c) \/ StopDrain(c) \/ StopDone(c)
    \/ PoolDestroy(c) \/ PoolResize(c) \/ Grow(c) \/ Shrink(c) \/ ResizeDone(c)

(* A pool that is freed is not looked at any more, nor is anything after    *)
(* the process has killed itself.                                           *)
ManagerNext ==
    /\ ~killed
    /\ \/ PoolCreate \/ Cleanup \/ \E c \in Callers : Call(c)
       \/ \E n \in Loops : LoopExit(n)
       \/ /\ state # "NONE"
          /\ \/ \E a \in Actors : WorkerFunctions(a)
             \/ \E k \in Kids : WatchCheck(k) \/ WatchMark(k)
             \/ \E n \in Loops, i \in Slots : LoopPick(n, i)

ManagerSpec == ManagerInit /\ [][ManagerNext]_managerVars

-----------------------------------------------------------------------------
(* The slots with a worker, and those the event loops are restarting one in. *)
Live == {i \in Slots : worker[i].pid > 0}
Restarting == {i \in Slots : \E n \in Loops : n \in InHand(i)}

(* Whenever the pool is left, active_workers is the number of slots with a  *)
(* worker or one the event loop is restarting, and those are the first      *)
(* ones: what pool_resize relies on to find the slots to fill or empty.  No *)
(* loop has gone past the array, and pool_stop divides by no 0.  The        *)
(* exceptions are a child started outside a running pool, after which       *)
(* pool_start counts from there on; a restart by the event loop that        *)
(* failed; and a slot the pool and an event loop had in hand at a time.     *)
(* (pool_start, pool_resize, pool_stop)                                     *)
ActiveExact ==
    /\ active \in 0 .. 2 * MaxWorkers /\ kids \subseteq Kids
    /\ (\E c \in Callers : phase[c] = "stop") => active > 0
    /\ stray = {} =>
        /\ ~overrun
        /\ state = "RUNNING" => active \in MinWorkers .. MaxWorkers
    /\ mutex = NULL /\ state # "NONE" =>
        /\ Live \cup Restarting \subseteq 0 .. active - 1 \cup clash
        /\ (stray = {} /\ ~gap /\ clash = {}) => 0 .. active - 1 \subseteq Live \cup Restarting

(* A pool that is stopped, not started or gone has waited for every child,  *)
(* and its event loop has ended; and worker_stop, which reads the pid again *)
(* for each call, never kills the pool's own process group.  The exceptions *)
(* are the children and loops the code loses: children of a worker its      *)
(* monitor had marked ERROR, of a resize outside a running pool, and of a   *)
(* slot that two had in hand at a time (which may end in that kill, too);   *)
(* and the event loop of a start that failed.  (pool_stop, pool_destroy)    *)
StoppedIsQuiet ==
    /\ (mutex = NULL /\ state \in {"CREATED", "STOPPED", "NONE"}) =>
        /\ \A k \in kids : k \in stray \cup given_up \/ home[k] \in clash
        /\ loops \subseteq failed
    /\ killed => clash # {}
=============================================================================

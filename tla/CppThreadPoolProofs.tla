------------------------- MODULE CppThreadPoolProofs ------------------------
(***************************************************************************)
(* Proofs about CppThreadPool, for every number of threads, producers,     *)
(* closers, waiters and tasks: Inv is inductive, one lemma per part of it, *)
(* and what the pool promises follows from it.                             *)
(***************************************************************************)
EXTENDS CppThreadPool, FiniteSetTheorems, SequenceTheorems, TLAPS

-----------------------------------------------------------------------------
(* The inductive invariant *)

WorkerState == {"unborn", "ready", "blocking", "waiting", "running", "finishing",
                "exited"}

Finishing == {w \in Workers : wpc[w] = "finishing"}
SetFutures == {k \in TaskIds : future[k] = "set"}
Notifying == {p \in Producers : ppc[p] = "notify"}

\* Types, but for the two counters, which CountInv bounds.
Types ==
    /\ ctor \in {"running", "done", "notify", "join", "thrown"}
    /\ workers \in 0..NumThreads
    /\ tasks \in Seq(TaskIds)
    /\ stop \in BOOLEAN
    /\ active_threads \in Int
    /\ completed_tasks \in Nat
    /\ mutex \in Workers \cup {None}
    /\ wpc \in [Workers -> WorkerState]
    /\ cur \in [Workers -> 0..MaxTasks]
    /\ ppc \in [Producers -> {"idle", "notify", "thrown"}]
    /\ cpc \in [Closers -> {"idle", "notify", "join", "joined", "returned"}]
    /\ call \in [Closers -> {"none", "shutdown", "shutdown_now"}]
    /\ joinAt \in 1..(NumThreads + 1)
    /\ xpc \in [Waiters -> {"idle", "waiting", "woken", "true", "false"}]
    /\ timed \in [Waiters -> BOOLEAN]
    /\ accepted \in 0..MaxTasks
    /\ future \in [TaskIds -> {"none", "pending", "set", "broken"}]

\* Only tasks that were accepted are queued, run or have a future.
QueueInv ==
    /\ \A i \in DOMAIN tasks : tasks[i] \in 1..accepted
    /\ \A w \in Workers : wpc[w] = "running" => cur[w] \in 1..accepted
    /\ \A k \in TaskIds : (future[k] = "none") = (k > accepted)

\* The threads the constructor has started are the first of the vector, and a
\* closer finds all of them.
CreationInv ==
    /\ \A w \in Workers : (wpc[w] = "unborn") = (w > workers)
    /\ ctor = "running" => workers < NumThreads /\ ~stop
    /\ ctor = "done" => workers = NumThreads
    /\ \A c \in Closers : cpc[c] # "idle" => ctor = "done"

\* A worker leaves only a pool that is stopped and has nothing left; what was
\* joined has left.
CloseInv ==
    /\ \A w \in Workers : wpc[w] = "exited" => stop /\ tasks = << >>
    /\ \A c \in Closers : cpc[c] \in {"notify", "join", "joined"} => stop
    /\ \A w \in Workers : w < joinAt => wpc[w] = "exited"
    /\ \A c \in Closers : cpc[c] = "joined" => joinAt > NumThreads

\* Promises are broken by shutdown_now alone.
BrokenInv ==
    /\ ~stop => \A k \in TaskIds : future[k] # "broken"
    /\ \A c \in Closers :
          cpc[c] \in {"notify", "join", "joined"} /\ call[c] = "shutdown"
             => \A k \in TaskIds : future[k] # "broken"

\* The mutex is kept across steps by the worker that is about to sleep, and the
\* queue it saw empty stays empty.
MutexInv ==
    /\ \A w \in Workers : (wpc[w] = "blocking") = (mutex = w)
    /\ \A w \in Workers : wpc[w] = "blocking" => tasks = << >>

\* active_threads counts the workers with a task, completed_tasks the futures
\* that are set, but for those whose worker has not come to the counter yet.
CountInv ==
    /\ active_threads = Cardinality(Busy)
    /\ completed_tasks = Cardinality(SetFutures) - Cardinality(Finishing)

\* While a worker sleeps, every queued task has a worker on its way to the queue
\* or a notify_one that is still to come: a notification is never lost between
\* unlocking and notify_one, and a worker that finishes looks at the queue again.
NoLostWakeup ==
    Waiting # {} => Len(tasks) <= Cardinality(Ready) + Cardinality(Notifying)

\* In a pool that is being shut down no worker is between its predicate and its
\* sleep, and none sleeps unless notify_all is still to come.  (The constructor's
\* error path, which stores stop without the mutex, is the exception.)
NobodySleepsThroughShutdown ==
    ctor = "done" /\ stop =>
        /\ \A w \in Workers : wpc[w] # "blocking"
        /\ \A w \in Workers : wpc[w] = "waiting" => \E c \in Closers : cpc[c] = "notify"

Inv ==
    /\ Types /\ QueueInv /\ CreationInv /\ CloseInv /\ BrokenInv /\ MutexInv
    /\ CountInv /\ PendingIsSomewhere /\ NoLostWakeup
    /\ NobodySleepsThroughShutdown

-----------------------------------------------------------------------------
(* Numbers and sets of workers *)

\* The constants as the provers need them.
LEMMA Sizes ==
    /\ NumThreads \in Nat /\ NumThreads >= 1 /\ MaxTasks \in Nat
    /\ \A w \in Workers : w \in Nat /\ 1 <= w /\ w <= NumThreads
    /\ None \notin Workers
    /\ CloseCalls \subseteq {"shutdown", "shutdown_now"}
BY PoolAssumption DEF Workers

\* Sets of workers, of tasks and of producers are finite.
LEMMA SetsAreFinite ==
    /\ \A S \in SUBSET Workers : IsFiniteSet(S) /\ Cardinality(S) \in Nat
    /\ \A S \in SUBSET TaskIds : IsFiniteSet(S) /\ Cardinality(S) \in Nat
    /\ \A S \in SUBSET Producers : IsFiniteSet(S) /\ Cardinality(S) \in Nat
<1>1. IsFiniteSet(Workers) /\ IsFiniteSet(TaskIds) /\ IsFiniteSet(Producers)
  BY FS_Interval, PoolAssumption DEF Workers, TaskIds
<1> QED BY <1>1, FS_Subset, FS_CardinalityType

\* A finite set with an element more, and with an element less.
LEMMA OneMore ==
    ASSUME NEW S, IsFiniteSet(S), NEW x, x \notin S
    PROVE  Cardinality(S \cup {x}) = Cardinality(S) + 1
BY FS_AddElement

LEMMA OneLess ==
    ASSUME NEW S, IsFiniteSet(S), NEW x \in S
    PROVE  Cardinality(S \ {x}) = Cardinality(S) - 1
BY FS_RemoveElement

\* The sets the invariant counts, and their cardinalities.
LEMMA CountedSets ==
    /\ IsFiniteSet(Busy) /\ Cardinality(Busy) \in Nat
    /\ IsFiniteSet(Finishing) /\ Cardinality(Finishing) \in Nat
    /\ IsFiniteSet(Ready) /\ Cardinality(Ready) \in Nat
    /\ IsFiniteSet(Notifying) /\ Cardinality(Notifying) \in Nat
    /\ IsFiniteSet(SetFutures) /\ Cardinality(SetFutures) \in Nat
<1>1. /\ Busy \in SUBSET Workers /\ Finishing \in SUBSET Workers
      /\ Ready \in SUBSET Workers
  BY DEF Busy, Finishing, Ready
<1>2. Notifying \in SUBSET Producers /\ SetFutures \in SUBSET TaskIds
  BY DEF Notifying, SetFutures
<1> QED BY <1>1, <1>2, SetsAreFinite

\* The worker a running one has in hand is a task, and the one that the
\* constructor creates next has no thread yet.
LEMMA InHand ==
    ASSUME Inv
    PROVE  /\ \A w \in Workers : wpc[w] = "running" => cur[w] \in TaskIds
           /\ ctor = "running" => /\ workers + 1 \in Workers
                                  /\ wpc[workers + 1] = "unborn"
<1>1. \A w \in Workers : wpc[w] = "running" => cur[w] \in TaskIds
  BY Sizes DEF Inv, Types, QueueInv, TaskIds
<1>2. ASSUME ctor = "running"
      PROVE  workers + 1 \in Workers /\ wpc[workers + 1] = "unborn"
  <2>1. workers \in Nat /\ workers < NumThreads /\ workers + 1 > workers
    BY <1>2, Sizes DEF Inv, Types, CreationInv
  <2>2. workers + 1 \in Workers
    BY <2>1, Sizes DEF Workers
  <2> QED BY <2>1, <2>2 DEF Inv, CreationInv
<1> QED BY <1>1, <1>2

-----------------------------------------------------------------------------
(* The initial state *)

\* The constructor begins in a state of the invariant.
LEMMA InitInv == Init => Inv
<1> SUFFICES ASSUME Init PROVE Inv
  OBVIOUS
<1>1. Types
  <2>1. workers \in 0..NumThreads /\ joinAt \in 1..(NumThreads + 1)
        /\ accepted \in 0..MaxTasks /\ cur \in [Workers -> 0..MaxTasks]
    BY Sizes DEF Init
  <2>2. tasks \in Seq(TaskIds) /\ mutex \in Workers \cup {None}
    BY DEF Init
  <2>3. stop \in BOOLEAN /\ timed \in [Waiters -> BOOLEAN]
    BY DEF Init
  <2>4. wpc \in [Workers -> WorkerState]
    BY DEF Init, WorkerState
  <2> QED BY <2>1, <2>2, <2>3, <2>4 DEF Init, Types
<1>2. QueueInv
  BY Sizes DEF Init, QueueInv, TaskIds
<1>3. CreationInv /\ CloseInv /\ BrokenInv /\ MutexInv
  BY Sizes DEF Init, CreationInv, CloseInv, BrokenInv, MutexInv
<1>4. Busy = {} /\ Finishing = {} /\ SetFutures = {} /\ Waiting = {}
  BY DEF Init, Busy, Finishing, SetFutures, Waiting
<1>5. CountInv
  BY <1>4, FS_EmptySet DEF Init, CountInv
<1>6. PendingIsSomewhere
  BY DEF Init, PendingIsSomewhere
<1>7. NoLostWakeup /\ NobodySleepsThroughShutdown
  BY <1>4 DEF Init, NoLostWakeup, NobodySleepsThroughShutdown
<1> QED BY <1>1, <1>2, <1>3, <1>5, <1>6, <1>7 DEF Inv

-----------------------------------------------------------------------------
(* Control: types, creation, the mutex, closing *)

\* The parts of the invariant that neither count nor place tasks.
Control ==
    /\ Types /\ QueueInv /\ CreationInv /\ CloseInv /\ BrokenInv /\ MutexInv
    /\ NobodySleepsThroughShutdown

\* The constructor and its error path keep the control part of the invariant.
LEMMA CtorControl == ASSUME Inv, CtorStep PROVE Control'
<1> USE DEF workerVars, closeVars, waitVars
<1>s. NumThreads \in Nat /\ NumThreads >= 1
  BY Sizes
<1>0. wpc \in [Workers -> WorkerState] /\ workers \in 0..NumThreads
  BY DEF Inv, Types
<1>1. CASE CtorThread
  <2> USE <1>1 DEF CtorThread
  <2>1. workers + 1 \in Workers /\ wpc[workers + 1] = "unborn"
    BY InHand
  <2>2. Types'
    <3>1. workers' \in 0..NumThreads
      BY <2>1, <1>0, Sizes
    <3>2. wpc' \in [Workers -> WorkerState]
      BY <1>0, <2>1 DEF WorkerState
    <3> QED BY <3>1, <3>2 DEF Inv, Types
  <2>3. QueueInv'
    BY <1>0, <2>1 DEF Inv, QueueInv
  <2>4. CreationInv'
    BY <1>0, <1>s, <2>1, Sizes DEF Inv, CreationInv
  <2>5. CloseInv' /\ BrokenInv'
    BY <1>0, <2>1 DEF Inv, CloseInv, BrokenInv
  <2>6. MutexInv'
    BY <1>0, <2>1 DEF Inv, MutexInv
  <2>7. NobodySleepsThroughShutdown'
    BY DEF Inv, NobodySleepsThroughShutdown, CreationInv
  <2> QED BY <2>2, <2>3, <2>4, <2>5, <2>6, <2>7 DEF Control
<1>2. CASE CtorFail
  <2> USE <1>2 DEF CtorFail
  <2>1. Types' /\ QueueInv'
    BY DEF Inv, Types, QueueInv
  <2>2. CreationInv' /\ CloseInv' /\ BrokenInv' /\ MutexInv'
    BY DEF Inv, CreationInv, CloseInv, BrokenInv, MutexInv
  <2>3. NobodySleepsThroughShutdown'
    BY DEF NobodySleepsThroughShutdown
  <2> QED BY <2>1, <2>2, <2>3 DEF Control
<1>3. CASE CtorNotifyAll
  <2> USE <1>3 DEF CtorNotifyAll, WakeAll
  <2>1. Types'
    BY <1>0 DEF Inv, Types, WorkerState
  <2>2. QueueInv' /\ CreationInv' /\ CloseInv' /\ BrokenInv' /\ MutexInv'
    BY <1>0 DEF Inv, QueueInv, CreationInv, CloseInv, BrokenInv, MutexInv
  <2>3. NobodySleepsThroughShutdown'
    BY DEF NobodySleepsThroughShutdown
  <2> QED BY <2>1, <2>2, <2>3 DEF Control
<1>4. CASE CtorJoin
  <2> USE <1>4 DEF CtorJoin
  <2>1. joinAt \in 1..(NumThreads + 1) /\ joinAt' \in 1..(NumThreads + 1)
    BY <1>0, <1>s DEF Inv, Types
  <2>2. ctor' \in {"join", "thrown"}
    OBVIOUS
  <2>3. Types'
    BY <2>1, <2>2 DEF Inv, Types
  <2>4. QueueInv' /\ CreationInv' /\ BrokenInv' /\ MutexInv'
    BY <2>2 DEF Inv, QueueInv, CreationInv, BrokenInv, MutexInv
  <2>5. CloseInv'
    BY <2>1, <1>s, Sizes DEF Inv, CloseInv, CreationInv
  <2>6. NobodySleepsThroughShutdown'
    BY <2>2 DEF NobodySleepsThroughShutdown
  <2> QED BY <2>3, <2>4, <2>5, <2>6 DEF Control
<1> QED BY <1>1, <1>2, <1>3, <1>4 DEF CtorStep

\* So does enqueue, whether it accepts the task or throws.
LEMMA EnqueueControl ==
    ASSUME Inv, NEW p \in Producers, Enqueue(p) \/ EnqueueNotify(p)
    PROVE  Control'
<1> USE DEF workerVars, closeVars, waitVars
<1>0. wpc \in [Workers -> WorkerState] /\ accepted \in 0..MaxTasks
      /\ MaxTasks \in Nat /\ tasks \in Seq(TaskIds)
  BY Sizes DEF Inv, Types
<1>1. CASE Enqueue(p) /\ EnqueueAccept(p)
  <2> USE <1>1 DEF Enqueue, EnqueueAccept
  <2>1. accepted + 1 \in TaskIds /\ accepted' \in 0..MaxTasks
    BY <1>0 DEF TaskIds
  <2>2. tasks' \in Seq(TaskIds) /\ Len(tasks') = Len(tasks) + 1
        /\ \A i \in 1..Len(tasks) : tasks'[i] = tasks[i]
        /\ tasks'[Len(tasks) + 1] = accepted + 1
    BY <1>0, <2>1, AppendProperties
  <2>3. Types'
    BY <2>1, <2>2 DEF Inv, Types
  <2>4. QueueInv'
    <3>1. \A i \in DOMAIN tasks' : tasks'[i] \in 1..accepted'
      BY <1>0, <2>1, <2>2 DEF Inv, QueueInv
    <3>2. \A w \in Workers : wpc'[w] = "running" => cur'[w] \in 1..accepted'
      BY <1>0 DEF Inv, QueueInv
    <3>3. \A k \in TaskIds : (future'[k] = "none") = (k > accepted')
      BY <1>0, <2>1 DEF Inv, Types, QueueInv, TaskIds
    <3> QED BY <3>1, <3>2, <3>3 DEF QueueInv
  <2>5. CreationInv'
    BY DEF Inv, CreationInv
  <2>6. CloseInv' /\ BrokenInv'
    BY <2>1 DEF Inv, Types, CloseInv, BrokenInv
  <2>7. MutexInv'
    BY Sizes DEF Inv, MutexInv
  <2>8. NobodySleepsThroughShutdown'
    BY DEF NobodySleepsThroughShutdown
  <2> QED BY <2>3, <2>4, <2>5, <2>6, <2>7, <2>8 DEF Control
<1>2. CASE Enqueue(p) /\ EnqueueThrow(p)
  <2> USE <1>2 DEF Enqueue, EnqueueThrow
  <2>1. Types'
    BY DEF Inv, Types
  <2>2. QueueInv' /\ CreationInv' /\ CloseInv' /\ BrokenInv' /\ MutexInv'
        /\ NobodySleepsThroughShutdown'
    BY DEF Inv, QueueInv, CreationInv, CloseInv, BrokenInv, MutexInv,
           NobodySleepsThroughShutdown
  <2> QED BY <2>1, <2>2 DEF Control
<1>3. CASE EnqueueNotify(p)
  <2> USE <1>3 DEF EnqueueNotify
  <2>1. \/ wpc' = wpc
        \/ \E w \in Workers : wpc[w] = "waiting" /\ wpc' = [wpc EXCEPT ![w] = "ready"]
    BY DEF Waiting
  <2>2. Types'
    BY <1>0, <2>1 DEF Inv, Types, WorkerState
  <2>3. QueueInv' /\ CreationInv' /\ CloseInv' /\ BrokenInv'
    BY <1>0, <2>1 DEF Inv, QueueInv, CreationInv, CloseInv, BrokenInv
  <2>4. MutexInv' /\ NobodySleepsThroughShutdown'
    BY <1>0, <2>1 DEF Inv, MutexInv, NobodySleepsThroughShutdown
  <2> QED BY <2>2, <2>3, <2>4 DEF Control
<1> QED BY <1>1, <1>2, <1>3 DEF Enqueue

\* So does a worker that takes a task, leaves, or finds nothing to do.
LEMMA WorkerLoopControl ==
    ASSUME Inv, NEW w \in Workers, WorkerLoop(w) PROVE Control'
<1> USE DEF WorkerLoop, closeVars, waitVars
<1>0. /\ wpc \in [Workers -> WorkerState] /\ wpc[w] = "ready"
      /\ mutex = None /\ tasks \in Seq(TaskIds) /\ MaxTasks \in Nat
      /\ cur \in [Workers -> 0..MaxTasks]
  BY Sizes DEF Inv, Types
<1>1. \A v \in Workers : wpc[v] # "blocking"
  BY <1>0, Sizes DEF Inv, MutexInv
<1>2. CASE WorkerBlock(w)
  <2> USE <1>2 DEF WorkerBlock
  <2>1. Types'
    BY <1>0 DEF Inv, Types, WorkerState
  <2>2. QueueInv' /\ CreationInv' /\ CloseInv' /\ BrokenInv'
    BY <1>0 DEF Inv, QueueInv, CreationInv, CloseInv, BrokenInv
  <2>3. MutexInv'
    BY <1>0, <1>1 DEF MutexInv
  <2>4. NobodySleepsThroughShutdown'
    BY DEF NobodySleepsThroughShutdown
  <2> QED BY <2>1, <2>2, <2>3, <2>4 DEF Control
<1>3. CASE WorkerExit(w)
  <2> USE <1>3 DEF WorkerExit
  <2>1. Types'
    BY <1>0 DEF Inv, Types, WorkerState
  <2>2. QueueInv' /\ CreationInv' /\ CloseInv' /\ BrokenInv'
    BY <1>0 DEF Inv, QueueInv, CreationInv, CloseInv, BrokenInv
  <2>3. MutexInv' /\ NobodySleepsThroughShutdown'
    BY <1>0 DEF Inv, MutexInv, NobodySleepsThroughShutdown
  <2> QED BY <2>1, <2>2, <2>3 DEF Control
<1>4. CASE WorkerTake(w)
  <2> USE <1>4 DEF WorkerTake
  <2>1. /\ Head(tasks) = tasks[1] /\ 1 \in DOMAIN tasks /\ Head(tasks) \in TaskIds
        /\ Tail(tasks) \in Seq(TaskIds)
        /\ \A i \in DOMAIN Tail(tasks) : /\ i + 1 \in DOMAIN tasks
                                         /\ Tail(tasks)[i] = tasks[i + 1]
    BY <1>0, HeadTailProperties, EmptySeq, ElementOfSeq
  <2>2. Types'
    <3>1. cur' \in [Workers -> 0..MaxTasks]
      BY <1>0, <2>1 DEF TaskIds
    <3>2. wpc' \in [Workers -> WorkerState]
      BY <1>0 DEF WorkerState
    <3>3. active_threads' \in Int
      BY DEF Inv, Types
    <3> QED BY <2>1, <3>1, <3>2, <3>3 DEF Inv, Types
  <2>3. QueueInv'
    BY <1>0, <2>1 DEF Inv, QueueInv
  <2>4. CreationInv' /\ BrokenInv'
    BY <1>0 DEF Inv, CreationInv, BrokenInv
  <2>5. CloseInv'
    BY <1>0 DEF Inv, CloseInv
  <2>6. MutexInv' /\ NobodySleepsThroughShutdown'
    BY <1>0, <1>1 DEF Inv, MutexInv, NobodySleepsThroughShutdown
  <2> QED BY <2>2, <2>3, <2>4, <2>5, <2>6 DEF Control
<1> QED BY <1>2, <1>3, <1>4

\* So do the other steps of a worker.
LEMMA OtherWorkerControl ==
    ASSUME Inv, NEW w \in Workers,
           WorkerSleep(w) \/ SpuriousWakeup(w) \/ WorkerRun(w) \/ WorkerFinish(w)
    PROVE  Control'
<1> USE DEF closeVars, waitVars
<1>0. wpc \in [Workers -> WorkerState]
  BY DEF Inv, Types
<1>1. CASE WorkerSleep(w)
  <2> USE <1>1 DEF WorkerSleep
  <2>1. Types'
    BY <1>0 DEF Inv, Types, WorkerState
  <2>2. QueueInv' /\ CreationInv' /\ CloseInv' /\ BrokenInv'
    BY <1>0 DEF Inv, QueueInv, CreationInv, CloseInv, BrokenInv
  <2>3. MutexInv'
    BY <1>0, Sizes DEF Inv, MutexInv
  <2>4. NobodySleepsThroughShutdown'
    BY <1>0 DEF Inv, NobodySleepsThroughShutdown
  <2> QED BY <2>1, <2>2, <2>3, <2>4 DEF Control
<1>2. CASE SpuriousWakeup(w)
  <2> USE <1>2 DEF SpuriousWakeup
  <2>1. Types'
    BY <1>0 DEF Inv, Types, WorkerState
  <2>2. QueueInv' /\ CreationInv' /\ CloseInv' /\ BrokenInv'
    BY <1>0 DEF Inv, QueueInv, CreationInv, CloseInv, BrokenInv
  <2>3. MutexInv' /\ NobodySleepsThroughShutdown'
    BY <1>0 DEF Inv, MutexInv, NobodySleepsThroughShutdown
  <2> QED BY <2>1, <2>2, <2>3 DEF Control
<1>3. CASE WorkerRun(w)
  <2> USE <1>3 DEF WorkerRun
  <2>0. cur[w] \in TaskIds /\ cur[w] \in 1..accepted /\ accepted \in Nat
    BY InHand DEF Inv, Types, QueueInv
  <2>1. Types'
    BY <1>0, <2>0 DEF Inv, Types, WorkerState
  <2>2. QueueInv'
    BY <1>0, <2>0 DEF Inv, Types, QueueInv
  <2>3. CreationInv' /\ CloseInv'
    BY <1>0 DEF Inv, CreationInv, CloseInv
  <2>4. BrokenInv'
    BY <2>0 DEF Inv, Types, BrokenInv
  <2>5. MutexInv' /\ NobodySleepsThroughShutdown'
    BY <1>0 DEF Inv, MutexInv, NobodySleepsThroughShutdown
  <2> QED BY <2>1, <2>2, <2>3, <2>4, <2>5 DEF Control
<1>4. CASE WorkerFinish(w)
  <2> USE <1>4 DEF WorkerFinish
  <2>1. Types'
    <3>1. xpc' \in [Waiters -> {"idle", "waiting", "woken", "true", "false"}]
      BY DEF Inv, Types, WakeWaiters
    <3>2. active_threads' \in Int /\ completed_tasks' \in Nat
      BY DEF Inv, Types
    <3>3. wpc' \in [Workers -> WorkerState] /\ cur' \in [Workers -> 0..MaxTasks]
      BY <1>0, Sizes DEF Inv, Types, WorkerState
    <3> QED BY <3>1, <3>2, <3>3 DEF Inv, Types
  <2>2. QueueInv' /\ CreationInv' /\ CloseInv' /\ BrokenInv'
    BY <1>0 DEF Inv, Types, QueueInv, CreationInv, CloseInv, BrokenInv
  <2>3. MutexInv' /\ NobodySleepsThroughShutdown'
    BY <1>0 DEF Inv, MutexInv, NobodySleepsThroughShutdown
  <2> QED BY <2>1, <2>2, <2>3 DEF Control
<1> QED BY <1>1, <1>2, <1>3, <1>4

\* shutdown leaves the futures alone, shutdown_now breaks those of queued tasks.
LEMMA CloseFutures ==
    ASSUME Inv, NEW c \in Closers, NEW f \in CloseCalls, CloseBegin(c, f), ~stop
    PROVE  /\ \A k \in TaskIds : future'[k] # future[k] =>
                future'[k] = "broken" /\ (\E i \in DOMAIN tasks : tasks[i] = k)
           /\ f = "shutdown" => future' = future
           /\ future' \in [TaskIds -> {"none", "pending", "set", "broken"}]
<1>1. future \in [TaskIds -> {"none", "pending", "set", "broken"}]
  BY DEF Inv, Types
<1>2. CASE f = "shutdown_now"
  <2>1. future' = [k \in TaskIds |-> IF \E i \in DOMAIN tasks : tasks[i] = k
                                     THEN "broken" ELSE future[k]]
    BY <1>2 DEF CloseBegin
  <2>2. \A k \in TaskIds : future'[k] # future[k] =>
                future'[k] = "broken" /\ (\E i \in DOMAIN tasks : tasks[i] = k)
    BY <2>1
  <2>3. future' \in [TaskIds -> {"none", "pending", "set", "broken"}]
    BY <1>1, <2>1
  <2> QED BY <1>2, <2>2, <2>3
<1>3. CASE f # "shutdown_now"
  <2>1. future' = future
    BY <1>3 DEF CloseBegin
  <2> QED BY <1>1, <2>1
<1> QED BY <1>2, <1>3

\* So do shutdown and shutdown_now.
LEMMA CloseControl ==
    ASSUME Inv, NEW c \in Closers,
           (\E f \in CloseCalls : CloseBegin(c, f)) \/ CloseStep(c)
    PROVE  Control'
<1> USE DEF workerVars, closeVars, waitVars
<1>0. wpc \in [Workers -> WorkerState] /\ tasks \in Seq(TaskIds)
  BY DEF Inv, Types
<1>1. ASSUME NEW f \in CloseCalls, CloseBegin(c, f) PROVE Control'
  <2> USE <1>1 DEF CloseBegin
  <2>0. f \in {"shutdown", "shutdown_now"}
    BY Sizes
  <2>1. \A w \in Workers : wpc[w] # "blocking"
    BY <1>0, Sizes DEF Inv, MutexInv
  <2>2. CASE stop
    <3>1. cpc' = [cpc EXCEPT ![c] = "returned"] /\ UNCHANGED <<stop, tasks, future>>
      BY <2>2
    <3>2. Types'
      BY <2>0, <3>1 DEF Inv, Types
    <3>3. QueueInv' /\ CreationInv' /\ CloseInv'
      BY <2>2, <3>1 DEF Inv, Types, QueueInv, CreationInv, CloseInv
    <3>4. BrokenInv' /\ MutexInv'
      BY <2>2, <3>1 DEF Inv, Types, BrokenInv, MutexInv
    <3>5. NobodySleepsThroughShutdown'
      BY <2>2, <3>1 DEF Inv, Types, NobodySleepsThroughShutdown
    <3> QED BY <3>2, <3>3, <3>4, <3>5 DEF Control
  <2>3. CASE ~stop
    <3>1. /\ cpc' = [cpc EXCEPT ![c] = "notify"] /\ stop' = TRUE
          /\ tasks' = tasks \/ tasks' = << >>
      BY <2>3
    <3>2. /\ \A k \in TaskIds : future'[k] # future[k] =>
                future'[k] = "broken" /\ (\E i \in DOMAIN tasks : tasks[i] = k)
          /\ f = "shutdown" => future' = future
          /\ future' \in [TaskIds -> {"none", "pending", "set", "broken"}]
      BY <2>3, CloseFutures
    <3>3. Types'
      <4>1. tasks' \in Seq(TaskIds)
        BY <1>0, <3>1, EmptySeq
      <4> QED BY <2>0, <3>1, <3>2, <4>1 DEF Inv, Types
    <3>4. QueueInv'
      <4>1. \A k \in TaskIds : (future'[k] = "none") = (future[k] = "none")
        <5>1. \A i \in DOMAIN tasks : future[tasks[i]] # "none"
          BY <1>0, ElementOfSeq, Sizes DEF Inv, Types, QueueInv, TaskIds
        <5> QED BY <3>2, <5>1
      <4> QED BY <3>1, <4>1 DEF Inv, QueueInv
    <3>5. CreationInv' /\ CloseInv'
      BY <2>3, <3>1 DEF Inv, Types, CreationInv, CloseInv
    <3>6. BrokenInv'
      BY <2>3, <3>1, <3>2 DEF Inv, Types, CloseInv, BrokenInv
    <3>7. MutexInv' /\ NobodySleepsThroughShutdown'
      BY <2>1, <3>1 DEF Inv, Types, MutexInv, NobodySleepsThroughShutdown
    <3> QED BY <3>3, <3>4, <3>5, <3>6, <3>7 DEF Control
  <2> QED BY <2>2, <2>3
<1>2. CASE CloseNotifyAll(c)
  <2> USE <1>2 DEF CloseNotifyAll, WakeAll
  <2>1. Types'
    BY <1>0 DEF Inv, Types, WorkerState
  <2>2. QueueInv' /\ CreationInv' /\ CloseInv' /\ BrokenInv' /\ MutexInv'
    BY <1>0 DEF Inv, Types, QueueInv, CreationInv, CloseInv, BrokenInv, MutexInv
  <2>3. NobodySleepsThroughShutdown'
    BY <1>0 DEF Inv, Types, NobodySleepsThroughShutdown
  <2> QED BY <2>1, <2>2, <2>3 DEF Control
<1>3. CASE CloseJoin(c)
  <2> USE <1>3 DEF CloseJoin
  <2>1. /\ joinAt \in 1..(NumThreads + 1) /\ joinAt' \in 1..(NumThreads + 1)
        /\ workers = NumThreads /\ NumThreads \in Nat
    BY Sizes DEF Inv, Types, CreationInv
  <2>2. Types'
    BY <2>1 DEF Inv, Types
  <2>3. QueueInv' /\ CreationInv' /\ BrokenInv' /\ MutexInv'
    BY DEF Inv, Types, QueueInv, CreationInv, BrokenInv, MutexInv
  <2>4. CloseInv'
    BY <2>1, Sizes DEF Inv, Types, CloseInv
  <2>5. NobodySleepsThroughShutdown'
    BY DEF Inv, Types, NobodySleepsThroughShutdown
  <2> QED BY <2>2, <2>3, <2>4, <2>5 DEF Control
<1> QED BY <1>1, <1>2, <1>3 DEF CloseStep

\* So does wait_for_completion, which only moves its caller.
LEMMA WaitControl ==
    ASSUME Inv, NEW x \in Waiters,
           (\E f \in WaitCalls : WaitBegin(x, f)) \/ WaitRecheck(x) \/ WaitSpurious(x)
    PROVE  Control'
<1>1. /\ UNCHANGED <<ctor, workers, tasks, stop, active_threads, completed_tasks, mutex,
                     wpc, cur, ppc, cpc, call, joinAt, accepted, future>>
      /\ xpc' \in [Waiters -> {"idle", "waiting", "woken", "true", "false"}]
      /\ timed' \in [Waiters -> BOOLEAN]
  BY DEF WaitBegin, WaitRecheck, WaitSpurious, workerVars, closeVars, Inv, Types
<1>2. Types'
  BY <1>1 DEF Inv, Types
<1>3. QueueInv' /\ CreationInv' /\ CloseInv' /\ BrokenInv' /\ MutexInv'
      /\ NobodySleepsThroughShutdown'
  BY <1>1 DEF Inv, QueueInv, CreationInv, CloseInv, BrokenInv, MutexInv,
              NobodySleepsThroughShutdown
<1> QED BY <1>2, <1>3 DEF Control

\* Every step keeps the control part of the invariant.
LEMMA NextControl == ASSUME Inv, [Next]_vars PROVE Control'
<1>1. CASE UNCHANGED vars
  BY <1>1 DEF vars, Inv, Control, Types, QueueInv, CreationInv, CloseInv, BrokenInv,
              MutexInv, NobodySleepsThroughShutdown
<1>2. ASSUME Next PROVE Control'
  BY <1>2, CtorControl, EnqueueControl, WorkerLoopControl, OtherWorkerControl,
     CloseControl, WaitControl DEF Next, WorkerStep
<1> QED BY <1>1, <1>2

-----------------------------------------------------------------------------
(* Where the tasks are *)

\* A step that leaves the queue, the futures and the workers that run a task
\* alone leaves every task where it is.
LEMMA TasksStay ==
    ASSUME PendingIsSomewhere, UNCHANGED <<tasks, future>>,
           \A w \in Workers : (wpc'[w] = "running") = (wpc[w] = "running"),
           \A w \in Workers : wpc[w] = "running" => cur'[w] = cur[w]
    PROVE  PendingIsSomewhere'
<1>1. \A k \in TaskIds :
          (future'[k] = "pending") =
             ((\E i \in DOMAIN tasks' : tasks'[i] = k)
              \/ (\E w \in Workers : wpc'[w] = "running" /\ cur'[w] = k))
  BY DEF PendingIsSomewhere
<1>2. \A i, j \in DOMAIN tasks' : i < j => tasks'[i] < tasks'[j]
  BY DEF PendingIsSomewhere
<1>3. \A w \in Workers : wpc'[w] = "running" =>
          /\ \A i \in DOMAIN tasks' : cur'[w] < tasks'[i]
          /\ \A v \in Workers \ {w} : wpc'[v] = "running" => cur'[v] # cur'[w]
  BY DEF PendingIsSomewhere
<1> QED BY <1>1, <1>2, <1>3 DEF PendingIsSomewhere

\* enqueue puts the new task, the largest number so far, at the end.
LEMMA AcceptPlaces ==
    ASSUME Inv, NEW p \in Producers, Enqueue(p), EnqueueAccept(p)
    PROVE  PendingIsSomewhere'
<1> USE DEF Enqueue, EnqueueAccept, workerVars
<1> DEFINE n == accepted + 1
<1>0. /\ accepted \in Nat /\ MaxTasks \in Nat /\ tasks \in Seq(TaskIds)
      /\ future \in [TaskIds -> {"none", "pending", "set", "broken"}]
      /\ accepted < MaxTasks
  BY Sizes DEF Inv, Types
<1>1. n \in TaskIds /\ n \in Nat
  BY <1>0 DEF TaskIds
<1>2. /\ Len(tasks) \in Nat
      /\ DOMAIN tasks = 1..Len(tasks) /\ DOMAIN tasks' = 1..(Len(tasks) + 1)
      /\ \A i \in 1..Len(tasks) : tasks'[i] = tasks[i]
      /\ tasks'[Len(tasks) + 1] = n
  BY <1>0, <1>1, AppendProperties, LenProperties
<1>3. \A i \in 1..Len(tasks) : tasks[i] \in Nat /\ tasks[i] < n
  BY <1>0, <1>2 DEF Inv, QueueInv
<1>4. \A w \in Workers : wpc[w] = "running" => cur[w] \in Nat /\ cur[w] < n
  BY <1>0 DEF Inv, QueueInv
<1>5. \A k \in TaskIds :
          (future'[k] = "pending") =
             ((\E i \in DOMAIN tasks' : tasks'[i] = k)
              \/ (\E w \in Workers : wpc'[w] = "running" /\ cur'[w] = k))
  <2> SUFFICES ASSUME NEW k \in TaskIds
               PROVE  (future'[k] = "pending") =
                        ((\E i \in DOMAIN tasks' : tasks'[i] = k)
                         \/ (\E w \in Workers : wpc[w] = "running" /\ cur[w] = k))
    OBVIOUS
  <2>1. CASE k = n
    <3>1. future'[k] = "pending"
      BY <1>0, <1>1, <2>1
    <3>2. \E i \in DOMAIN tasks' : tasks'[i] = k
      BY <1>2, <2>1
    <3> QED BY <3>1, <3>2
  <2>2. CASE k # n
    <3>1. future'[k] = future[k]
      BY <1>0, <2>2
    <3>2. (\E i \in DOMAIN tasks' : tasks'[i] = k) <=> (\E i \in DOMAIN tasks : tasks[i] = k)
      BY <1>2, <2>2
    <3> QED BY <3>1, <3>2 DEF Inv, PendingIsSomewhere
  <2> QED BY <2>1, <2>2
<1>6. \A i, j \in DOMAIN tasks' : i < j => tasks'[i] < tasks'[j]
  <2> SUFFICES ASSUME NEW i \in 1..(Len(tasks) + 1), NEW j \in 1..(Len(tasks) + 1), i < j
               PROVE  tasks'[i] < tasks'[j]
    BY <1>2
  <2>1. i \in 1..Len(tasks) /\ tasks'[i] = tasks[i]
    BY <1>2
  <2>2. CASE j = Len(tasks) + 1
    BY <2>1, <2>2, <1>2, <1>3
  <2>3. CASE j # Len(tasks) + 1
    <3>1. j \in 1..Len(tasks) /\ tasks'[j] = tasks[j]
      BY <1>2, <2>3
    <3> QED BY <2>1, <3>1, <1>2 DEF Inv, PendingIsSomewhere
  <2> QED BY <2>2, <2>3
<1>7. \A w \in Workers : wpc'[w] = "running" =>
          /\ \A i \in DOMAIN tasks' : cur'[w] < tasks'[i]
          /\ \A v \in Workers \ {w} : wpc'[v] = "running" => cur'[v] # cur'[w]
  BY <1>2, <1>4 DEF Inv, PendingIsSomewhere
<1> QED BY <1>5, <1>6, <1>7 DEF PendingIsSomewhere

\* A worker takes the oldest task.
LEMMA TakePlaces ==
    ASSUME Inv, NEW w \in Workers, WorkerLoop(w), WorkerTake(w)
    PROVE  PendingIsSomewhere'
<1> USE DEF WorkerLoop, WorkerTake
<1>0. /\ wpc \in [Workers -> WorkerState] /\ cur \in [Workers -> 0..MaxTasks]
      /\ tasks \in Seq(TaskIds) /\ tasks # << >> /\ wpc[w] = "ready"
  BY DEF Inv, Types
<1>1. /\ Len(tasks) \in Nat /\ Len(tasks) >= 1 /\ DOMAIN tasks = 1..Len(tasks)
      /\ DOMAIN tasks' = 1..(Len(tasks) - 1)
      /\ \A i \in 1..(Len(tasks) - 1) : tasks'[i] = tasks[i + 1]
      /\ Head(tasks) = tasks[1]
  <2>1. Tail(tasks) \in Seq(TaskIds) /\ Len(Tail(tasks)) = Len(tasks) - 1
    BY <1>0, HeadTailProperties
  <2> QED BY <1>0, <2>1, HeadTailProperties, LenProperties, EmptySeq
<1>2. /\ cur'[w] = tasks[1] /\ wpc'[w] = "running"
      /\ \A v \in Workers \ {w} : cur'[v] = cur[v] /\ wpc'[v] = wpc[v]
  BY <1>0, <1>1
<1>3. \A i \in 1..(Len(tasks) - 1) : tasks[1] < tasks[i + 1]
  BY <1>1 DEF Inv, PendingIsSomewhere
<1>4. \A v \in Workers : wpc[v] = "running" =>
          cur[v] \in Nat /\ \A i \in 1..Len(tasks) : cur[v] < tasks[i]
  BY <1>0, <1>1 DEF Inv, PendingIsSomewhere, QueueInv
<1>n. \A i \in 1..Len(tasks) : tasks[i] \in Nat
  <2>1. \A i \in 1..Len(tasks) : tasks[i] \in TaskIds
    BY <1>0, ElementOfSeq
  <2> QED BY <2>1 DEF TaskIds
<1>5. \A k \in TaskIds :
          (future'[k] = "pending") =
             ((\E i \in DOMAIN tasks' : tasks'[i] = k)
              \/ (\E v \in Workers : wpc'[v] = "running" /\ cur'[v] = k))
  <2> SUFFICES ASSUME NEW k \in TaskIds
               PROVE  (future[k] = "pending") =
                        ((\E i \in DOMAIN tasks' : tasks'[i] = k)
                         \/ (\E v \in Workers : wpc'[v] = "running" /\ cur'[v] = k))
    OBVIOUS
  <2>1. (\E i \in DOMAIN tasks : tasks[i] = k)
          <=> (\E i \in DOMAIN tasks' : tasks'[i] = k) \/ k = tasks[1]
    <3>1. ASSUME NEW i \in DOMAIN tasks, tasks[i] = k, i # 1
          PROVE  \E j \in DOMAIN tasks' : tasks'[j] = k
      <4>1. i - 1 \in 1..(Len(tasks) - 1) /\ tasks'[i - 1] = tasks[i]
        BY <1>1, <3>1
      <4> QED BY <4>1, <3>1, <1>1
    <3>2. ASSUME NEW j \in DOMAIN tasks', tasks'[j] = k
          PROVE  \E i \in DOMAIN tasks : tasks[i] = k
      <4>1. j + 1 \in DOMAIN tasks /\ tasks[j + 1] = k
        BY <1>1, <3>2
      <4> QED BY <4>1
    <3>3. 1 \in DOMAIN tasks
      BY <1>1
    <3> QED BY <3>1, <3>2, <3>3
  <2>2. (\E v \in Workers : wpc'[v] = "running" /\ cur'[v] = k)
          <=> (\E v \in Workers : wpc[v] = "running" /\ cur[v] = k) \/ k = tasks[1]
    BY <1>0, <1>2
  <2>3. (future[k] = "pending") <=>
             ((\E i \in DOMAIN tasks : tasks[i] = k)
              \/ (\E v \in Workers : wpc[v] = "running" /\ cur[v] = k))
    BY DEF Inv, PendingIsSomewhere
  <2> QED BY <2>1, <2>2, <2>3
<1>6. \A i, j \in DOMAIN tasks' : i < j => tasks'[i] < tasks'[j]
  <2> SUFFICES ASSUME NEW i \in 1..(Len(tasks) - 1), NEW j \in 1..(Len(tasks) - 1), i < j
               PROVE  tasks'[i] < tasks'[j]
    BY <1>1
  <2>1. i + 1 \in 1..Len(tasks) /\ j + 1 \in 1..Len(tasks) /\ i + 1 < j + 1
    BY <1>1
  <2>2. tasks[i + 1] < tasks[j + 1]
    BY <2>1, <1>1 DEF Inv, PendingIsSomewhere
  <2> QED BY <2>2, <1>1
<1>7. \A v \in Workers : wpc'[v] = "running" =>
          /\ \A i \in DOMAIN tasks' : cur'[v] < tasks'[i]
          /\ \A u \in Workers \ {v} : wpc'[u] = "running" => cur'[u] # cur'[v]
  <2> SUFFICES ASSUME NEW v \in Workers, wpc'[v] = "running"
               PROVE  /\ \A i \in DOMAIN tasks' : cur'[v] < tasks'[i]
                      /\ \A u \in Workers \ {v} : wpc'[u] = "running" => cur'[u] # cur'[v]
    OBVIOUS
  <2>1. \A u \in Workers \ {w} : wpc'[u] = "running" => cur'[u] # tasks[1]
    BY <1>1, <1>2, <1>4, <1>n
  <2>2. CASE v = w
    BY <2>1, <2>2, <1>1, <1>2, <1>3
  <2>3. CASE v # w
    <3>1. wpc[v] = "running" /\ cur'[v] = cur[v]
      BY <1>2, <2>3
    <3>2. \A i \in DOMAIN tasks' : cur[v] < tasks'[i]
      BY <3>1, <1>1, <1>4
    <3>3. \A u \in Workers \ {v} : wpc'[u] = "running" => cur'[u] # cur'[v]
      BY <2>1, <2>3, <3>1, <1>2 DEF Inv, PendingIsSomewhere
    <3> QED BY <3>1, <3>2, <3>3
  <2> QED BY <2>2, <2>3
<1> QED BY <1>5, <1>6, <1>7 DEF PendingIsSomewhere

\* The packaged task resolves the future of the task in hand, and of no other.
LEMMA RunPlaces ==
    ASSUME Inv, NEW w \in Workers, WorkerRun(w)
    PROVE  PendingIsSomewhere'
<1> USE DEF WorkerRun
<1>0. /\ wpc \in [Workers -> WorkerState] /\ cur[w] \in TaskIds
      /\ future \in [TaskIds -> {"none", "pending", "set", "broken"}]
      /\ wpc[w] = "running"
  BY InHand DEF Inv, Types
<1>1. /\ wpc'[w] = "finishing" /\ \A v \in Workers \ {w} : wpc'[v] = wpc[v]
      /\ future'[cur[w]] = "set"
      /\ \A k \in TaskIds \ {cur[w]} : future'[k] = future[k]
      /\ tasks' = tasks /\ cur' = cur
  BY <1>0
<1>2. \A i \in DOMAIN tasks : tasks[i] # cur[w]
  <2>1. \A i \in DOMAIN tasks : cur[w] < tasks[i] /\ tasks[i] \in Nat /\ cur[w] \in Nat
    BY <1>0 DEF Inv, PendingIsSomewhere, QueueInv, TaskIds
  <2> QED BY <2>1
<1>3. \A v \in Workers \ {w} : wpc[v] = "running" => cur[v] # cur[w]
  BY <1>0 DEF Inv, PendingIsSomewhere
<1>4. \A k \in TaskIds :
          (future'[k] = "pending") =
             ((\E i \in DOMAIN tasks : tasks[i] = k)
              \/ (\E v \in Workers : wpc'[v] = "running" /\ cur[v] = k))
  <2> SUFFICES ASSUME NEW k \in TaskIds
               PROVE  (future'[k] = "pending") <=>
                        ((\E i \in DOMAIN tasks : tasks[i] = k)
                         \/ (\E v \in Workers : wpc'[v] = "running" /\ cur[v] = k))
    OBVIOUS
  <2>1. CASE k = cur[w]
    BY <2>1, <1>1, <1>2, <1>3
  <2>2. CASE k # cur[w]
    <3>1. (\E v \in Workers : wpc'[v] = "running" /\ cur[v] = k)
            <=> (\E v \in Workers : wpc[v] = "running" /\ cur[v] = k)
      BY <2>2, <1>1
    <3> QED BY <2>2, <3>1, <1>1 DEF Inv, PendingIsSomewhere
  <2> QED BY <2>1, <2>2
<1>5. \A v \in Workers : wpc'[v] = "running" =>
          /\ \A i \in DOMAIN tasks : cur[v] < tasks[i]
          /\ \A u \in Workers \ {v} : wpc'[u] = "running" => cur[u] # cur[v]
  BY <1>0, <1>1 DEF Inv, PendingIsSomewhere
<1> QED BY <1>1, <1>4, <1>5 DEF Inv, PendingIsSomewhere

\* shutdown_now breaks the promises of exactly the tasks it takes out.
LEMMA DropPlaces ==
    ASSUME Inv, NEW c \in Closers, NEW f \in CloseCalls, CloseBegin(c, f)
    PROVE  PendingIsSomewhere'
<1> USE DEF CloseBegin, workerVars
<1>1. CASE UNCHANGED <<tasks, future>>
  BY <1>1, TasksStay DEF Inv
<1>2. CASE /\ tasks' = << >>
           /\ future' = [k \in TaskIds |-> IF \E i \in DOMAIN tasks : tasks[i] = k
                                           THEN "broken" ELSE future[k]]
  <2>1. \A w \in Workers : wpc[w] = "running" => \A i \in DOMAIN tasks : tasks[i] # cur[w]
    <3>1. \A w \in Workers : wpc[w] = "running" => \A i \in DOMAIN tasks :
             cur[w] < tasks[i] /\ tasks[i] \in Nat /\ cur[w] \in Nat
      BY DEF Inv, PendingIsSomewhere, QueueInv
    <3> QED BY <3>1
  <2>2. DOMAIN tasks' = {}
    BY <1>2
  <2>3. \A k \in TaskIds :
          (future'[k] = "pending") = (\E w \in Workers : wpc[w] = "running" /\ cur[w] = k)
    <3> SUFFICES ASSUME NEW k \in TaskIds
                 PROVE  (future'[k] = "pending")
                          <=> (\E w \in Workers : wpc[w] = "running" /\ cur[w] = k)
      OBVIOUS
    <3>1. CASE \E i \in DOMAIN tasks : tasks[i] = k
      BY <1>2, <2>1, <3>1
    <3>2. CASE ~\E i \in DOMAIN tasks : tasks[i] = k
      BY <1>2, <3>2 DEF Inv, PendingIsSomewhere
    <3> QED BY <3>1, <3>2
  <2> QED BY <2>2, <2>3 DEF Inv, PendingIsSomewhere
<1> QED BY <1>1, <1>2

\* Every step leaves every pending task in exactly one place.
LEMMA NextPlaces == ASSUME Inv, [Next]_vars PROVE PendingIsSomewhere'
<1> USE DEF workerVars, closeVars, waitVars
<1>0. wpc \in [Workers -> WorkerState]
  BY DEF Inv, Types
<1>q. ASSUME UNCHANGED <<tasks, future>>,
             \A w \in Workers : (wpc'[w] = "running") = (wpc[w] = "running"),
             \A w \in Workers : wpc[w] = "running" => cur'[w] = cur[w]
      PROVE  PendingIsSomewhere'
  BY <1>q, TasksStay DEF Inv
<1>1. CASE UNCHANGED vars
  BY <1>1, <1>q DEF vars
<1>2. CASE CtorStep
  <2>1. ctor = "running" => workers + 1 \in Workers /\ wpc[workers + 1] = "unborn"
    BY InHand
  <2> QED BY <1>0, <1>2, <2>1, <1>q DEF CtorStep, CtorThread, CtorFail, CtorNotifyAll,
                                        WakeAll, CtorJoin
<1>3. ASSUME NEW p \in Producers, Enqueue(p) \/ EnqueueNotify(p) PROVE PendingIsSomewhere'
  <2>1. CASE Enqueue(p) /\ EnqueueAccept(p)
    BY <2>1, AcceptPlaces
  <2>2. CASE Enqueue(p) /\ EnqueueThrow(p)
    BY <2>2, <1>q DEF Enqueue, EnqueueThrow
  <2>3. CASE EnqueueNotify(p)
    BY <2>3, <1>0, <1>q DEF EnqueueNotify, Waiting
  <2> QED BY <1>3, <2>1, <2>2, <2>3 DEF Enqueue
<1>4. ASSUME NEW w \in Workers, WorkerStep(w) \/ SpuriousWakeup(w) PROVE PendingIsSomewhere'
  <2>1. CASE WorkerLoop(w) /\ WorkerTake(w)
    BY <2>1, TakePlaces
  <2>2. CASE WorkerLoop(w) /\ (WorkerBlock(w) \/ WorkerExit(w))
    BY <2>2, <1>0, <1>q DEF WorkerLoop, WorkerBlock, WorkerExit
  <2>3. CASE WorkerRun(w)
    BY <2>3, RunPlaces
  <2>4. CASE WorkerSleep(w) \/ SpuriousWakeup(w)
    BY <2>4, <1>0, <1>q DEF WorkerSleep, SpuriousWakeup
  <2>5. CASE WorkerFinish(w)
    <3>1. cur \in [Workers -> 0..MaxTasks]
      BY DEF Inv, Types
    <3> QED BY <2>5, <3>1, <1>0, <1>q DEF WorkerFinish
  <2> QED BY <1>4, <2>1, <2>2, <2>3, <2>4, <2>5 DEF WorkerStep, WorkerLoop
<1>5. ASSUME NEW c \in Closers, (\E f \in CloseCalls : CloseBegin(c, f)) \/ CloseStep(c)
      PROVE  PendingIsSomewhere'
  BY <1>5, <1>0, <1>q, DropPlaces DEF CloseStep, CloseNotifyAll, CloseJoin, WakeAll
<1>6. ASSUME NEW x \in Waiters, \/ \E f \in WaitCalls : WaitBegin(x, f)
                                \/ WaitRecheck(x) \/ WaitSpurious(x)
      PROVE  PendingIsSomewhere'
  BY <1>6, <1>q DEF WaitBegin, WaitRecheck, WaitSpurious
<1> QED BY <1>1, <1>2, <1>3, <1>4, <1>5, <1>6 DEF Next

-----------------------------------------------------------------------------
(* Counting *)

\* The counters follow the workers and the futures.
LEMMA NextCounts == ASSUME Inv, [Next]_vars PROVE CountInv'
<1> USE DEF workerVars, closeVars, waitVars
<1>0. /\ wpc \in [Workers -> WorkerState] /\ active_threads \in Int
      /\ completed_tasks \in Int
      /\ future \in [TaskIds -> {"none", "pending", "set", "broken"}]
  BY DEF Inv, Types
<1>1. CASE /\ UNCHANGED <<active_threads, completed_tasks>>
           /\ Busy' = Busy /\ Finishing' = Finishing /\ SetFutures' = SetFutures
  BY <1>1 DEF Inv, CountInv
<1>2. ASSUME UNCHANGED <<active_threads, completed_tasks, future>>,
             \A w \in Workers : wpc'[w] = wpc[w]
                \/ {wpc[w], wpc'[w]} \cap {"running", "finishing"} = {}
      PROVE  CountInv'
  <2>1. Busy' = Busy /\ Finishing' = Finishing /\ SetFutures' = SetFutures
    BY <1>2 DEF Busy, Finishing, SetFutures
  <2> QED BY <1>1, <1>2, <2>1
<1>3. CASE UNCHANGED vars
  BY <1>2, <1>3 DEF vars
<1>4. CASE CtorStep
  <2>1. ctor = "running" => workers + 1 \in Workers /\ wpc[workers + 1] = "unborn"
    BY InHand
  <2> QED BY <1>0, <1>2, <1>4, <2>1 DEF CtorStep, CtorThread, CtorFail, CtorNotifyAll,
                                        WakeAll, CtorJoin
<1>5. ASSUME NEW p \in Producers, Enqueue(p) \/ EnqueueNotify(p) PROVE CountInv'
  <2>1. CASE Enqueue(p) /\ EnqueueAccept(p)
    <3>1. accepted + 1 \in TaskIds /\ future[accepted + 1] = "none"
      BY <2>1, Sizes DEF EnqueueAccept, Inv, Types, QueueInv, TaskIds
    <3>2. SetFutures' = SetFutures
      BY <1>0, <2>1, <3>1 DEF EnqueueAccept, SetFutures
    <3>3. Busy' = Busy /\ Finishing' = Finishing
      BY <2>1 DEF Enqueue, Busy, Finishing
    <3> QED BY <1>1, <2>1, <3>2, <3>3 DEF Enqueue
  <2>2. CASE Enqueue(p) /\ EnqueueThrow(p)
    BY <1>2, <2>2 DEF Enqueue, EnqueueThrow
  <2>3. CASE EnqueueNotify(p)
    BY <1>0, <1>2, <2>3 DEF EnqueueNotify, Waiting
  <2> QED BY <1>5, <2>1, <2>2, <2>3 DEF Enqueue
<1>6. ASSUME NEW w \in Workers, WorkerStep(w) \/ SpuriousWakeup(w) PROVE CountInv'
  <2>1. CASE WorkerLoop(w) /\ WorkerTake(w)
    <3> USE <2>1 DEF WorkerLoop, WorkerTake
    <3>1. Busy' = Busy \cup {w} /\ w \notin Busy /\ Finishing' = Finishing
      BY <1>0 DEF Busy, Finishing
    <3>2. Cardinality(Busy') = Cardinality(Busy) + 1
      BY <3>1, CountedSets, OneMore
    <3>3. SetFutures' = SetFutures
      BY DEF SetFutures
    <3> QED BY <3>1, <3>2, <3>3 DEF Inv, CountInv
  <2>2. CASE WorkerLoop(w) /\ (WorkerBlock(w) \/ WorkerExit(w))
    BY <2>2, <1>0, <1>2 DEF WorkerLoop, WorkerBlock, WorkerExit
  <2>3. CASE WorkerRun(w)
    <3> USE <2>3 DEF WorkerRun
    <3>1. cur[w] \in TaskIds
      BY InHand
    <3>2. future[cur[w]] = "pending"
      BY <3>1 DEF Inv, PendingIsSomewhere
    <3>3. SetFutures' = SetFutures \cup {cur[w]} /\ cur[w] \notin SetFutures
      BY <1>0, <3>1, <3>2 DEF SetFutures
    <3>4. Busy' = Busy /\ Finishing' = Finishing \cup {w} /\ w \notin Finishing
      BY <1>0 DEF Busy, Finishing
    <3>5. Cardinality(SetFutures') = Cardinality(SetFutures) + 1
      BY <3>3, CountedSets, OneMore
    <3>6. Cardinality(Finishing') = Cardinality(Finishing) + 1
      BY <3>4, CountedSets, OneMore
    <3> QED BY <3>4, <3>5, <3>6, <1>0, CountedSets DEF Inv, CountInv
  <2>4. CASE WorkerSleep(w) \/ SpuriousWakeup(w)
    BY <2>4, <1>0, <1>2 DEF WorkerSleep, SpuriousWakeup
  <2>5. CASE WorkerFinish(w)
    <3> USE <2>5 DEF WorkerFinish
    <3>1. /\ Busy' = Busy \ {w} /\ w \in Busy
          /\ Finishing' = Finishing \ {w} /\ w \in Finishing
      BY <1>0 DEF Busy, Finishing
    <3>2. Cardinality(Busy') = Cardinality(Busy) - 1
      BY <3>1, CountedSets, OneLess
    <3>3. Cardinality(Finishing') = Cardinality(Finishing) - 1
      BY <3>1, CountedSets, OneLess
    <3>4. SetFutures' = SetFutures
      BY DEF SetFutures
    <3> QED BY <3>2, <3>3, <3>4, <1>0, CountedSets DEF Inv, CountInv
  <2> QED BY <1>6, <2>1, <2>2, <2>3, <2>4, <2>5 DEF WorkerStep, WorkerLoop
<1>7. ASSUME NEW c \in Closers, NEW f \in CloseCalls, CloseBegin(c, f) PROVE CountInv'
  <2>1. \A i \in DOMAIN tasks : tasks[i] \in TaskIds => future[tasks[i]] = "pending"
    BY DEF Inv, PendingIsSomewhere
  <2>2. CASE ~stop
    <3>1. \A k \in TaskIds : (future'[k] = "set") <=> (future[k] = "set")
      BY <1>7, <2>1, <2>2, CloseFutures
    <3>2. SetFutures' = SetFutures
      BY <3>1 DEF SetFutures
    <3>3. Busy' = Busy /\ Finishing' = Finishing
      BY <1>7 DEF CloseBegin, Busy, Finishing
    <3> QED BY <1>1, <1>7, <3>2, <3>3 DEF CloseBegin
  <2>3. CASE stop
    BY <1>2, <1>7, <2>3 DEF CloseBegin
  <2> QED BY <2>2, <2>3
<1>8. ASSUME NEW c \in Closers, CloseStep(c) PROVE CountInv'
  BY <1>0, <1>2, <1>8 DEF CloseStep, CloseNotifyAll, CloseJoin, WakeAll
<1>9. ASSUME NEW x \in Waiters, \/ \E f \in WaitCalls : WaitBegin(x, f)
                                \/ WaitRecheck(x) \/ WaitSpurious(x)
      PROVE  CountInv'
  BY <1>2, <1>9 DEF WaitBegin, WaitRecheck, WaitSpurious
<1> QED BY <1>3, <1>4, <1>5, <1>6, <1>7, <1>8, <1>9 DEF Next

\* No step loses a wake-up.
LEMMA NextWakes == ASSUME Inv, [Next]_vars PROVE NoLostWakeup'
<1> USE DEF workerVars, closeVars, waitVars
<1>0. /\ wpc \in [Workers -> WorkerState] /\ tasks \in Seq(TaskIds)
      /\ ppc \in [Producers -> {"idle", "notify", "thrown"}]
  BY DEF Inv, Types
<1>c. /\ IsFiniteSet(Ready) /\ Cardinality(Ready) \in Nat
      /\ IsFiniteSet(Notifying) /\ Cardinality(Notifying) \in Nat
      /\ Len(tasks) \in Nat
  BY <1>0, CountedSets, LenProperties
<1>d. Cardinality(Ready') \in Nat /\ Cardinality(Notifying') \in Nat
  <2>1. Ready' \in SUBSET Workers /\ Notifying' \in SUBSET Producers
    BY DEF Ready, Notifying
  <2> QED BY <2>1, SetsAreFinite
<1>1. ASSUME tasks' = << >> PROVE NoLostWakeup'
  <2>1. Len(tasks') = 0
    BY <1>1, EmptySeq
  <2> QED BY <2>1, <1>d DEF NoLostWakeup
<1>2. ASSUME UNCHANGED <<tasks, ppc, wpc>> PROVE NoLostWakeup'
  BY <1>2 DEF Inv, NoLostWakeup, Waiting, Ready, Notifying
<1>3. ASSUME NEW w \in Workers, wpc[w] # "ready", wpc' = [wpc EXCEPT ![w] = "ready"],
             UNCHANGED <<tasks, ppc>>
      PROVE  NoLostWakeup'
  <2>1. Ready' = Ready \cup {w} /\ w \notin Ready /\ Waiting' \subseteq Waiting
        /\ Notifying' = Notifying
    BY <1>0, <1>3 DEF Ready, Waiting, Notifying
  <2>2. Cardinality(Ready') = Cardinality(Ready) + 1
    BY <2>1, <1>c, OneMore
  <2> QED BY <2>1, <2>2, <1>3, <1>c DEF Inv, NoLostWakeup
<1>4. ASSUME WakeAll PROVE NoLostWakeup'
  <2>1. Waiting' = {}
    BY <1>0, <1>4 DEF WakeAll, Waiting
  <2> QED BY <2>1 DEF NoLostWakeup
<1>5. CASE UNCHANGED vars
  BY <1>2, <1>5 DEF vars
<1>6. CASE CtorStep
  <2>1. ctor = "running" => workers + 1 \in Workers /\ wpc[workers + 1] = "unborn"
    BY InHand
  <2>2. CASE CtorThread
    BY <1>3, <2>1, <2>2 DEF CtorThread
  <2>3. CASE CtorFail \/ CtorJoin
    BY <1>2, <2>3 DEF CtorFail, CtorJoin
  <2>4. CASE CtorNotifyAll
    BY <1>4, <2>4 DEF CtorNotifyAll
  <2> QED BY <1>6, <2>2, <2>3, <2>4 DEF CtorStep
<1>7. ASSUME NEW p \in Producers, Enqueue(p) \/ EnqueueNotify(p) PROVE NoLostWakeup'
  <2>1. CASE Enqueue(p) /\ EnqueueAccept(p)
    <3> USE <2>1 DEF Enqueue, EnqueueAccept
    <3>1. Notifying' = Notifying \cup {p} /\ p \notin Notifying /\ Ready' = Ready
          /\ Waiting' = Waiting
      BY <1>0 DEF Notifying, Ready, Waiting
    <3>2. Cardinality(Notifying') = Cardinality(Notifying) + 1
      BY <3>1, <1>c, OneMore
    <3>3. accepted + 1 \in TaskIds
      BY Sizes DEF Inv, Types, TaskIds
    <3>4. Len(tasks') = Len(tasks) + 1
      BY <1>0, <3>3, AppendProperties
    <3> QED BY <3>1, <3>2, <3>4, <1>c DEF Inv, NoLostWakeup
  <2>2. CASE Enqueue(p) /\ EnqueueThrow(p)
    <3>1. Notifying' = Notifying /\ Ready' = Ready /\ Waiting' = Waiting /\ tasks' = tasks
      BY <1>0, <2>2 DEF Enqueue, EnqueueThrow, Notifying, Ready, Waiting
    <3> QED BY <3>1 DEF Inv, NoLostWakeup
  <2>3. CASE EnqueueNotify(p)
    <3> USE <2>3 DEF EnqueueNotify
    <3>1. CASE Waiting = {} /\ wpc' = wpc
      BY <3>1 DEF NoLostWakeup, Waiting
    <3>2. ASSUME NEW w \in Waiting, wpc' = [wpc EXCEPT ![w] = "ready"]
          PROVE  NoLostWakeup'
      <4>1. /\ Ready' = Ready \cup {w} /\ w \notin Ready /\ Waiting' \subseteq Waiting
            /\ Notifying' = Notifying \ {p} /\ p \in Notifying
        BY <1>0, <3>2 DEF Ready, Waiting, Notifying
      <4>2. Cardinality(Ready') = Cardinality(Ready) + 1
        BY <4>1, <1>c, OneMore
      <4>3. Cardinality(Notifying') = Cardinality(Notifying) - 1
        BY <4>1, <1>c, OneLess
      <4> QED BY <4>1, <4>2, <4>3, <1>c DEF Inv, NoLostWakeup
    <3> QED BY <3>1, <3>2
  <2> QED BY <1>7, <2>1, <2>2, <2>3 DEF Enqueue
<1>8. ASSUME NEW w \in Workers, WorkerStep(w) \/ SpuriousWakeup(w) PROVE NoLostWakeup'
  <2>1. CASE WorkerLoop(w) /\ WorkerTake(w)
    <3> USE <2>1 DEF WorkerLoop, WorkerTake
    <3>1. Ready' = Ready \ {w} /\ w \in Ready /\ Waiting' = Waiting /\ Notifying' = Notifying
      BY <1>0 DEF Ready, Waiting, Notifying
    <3>2. Cardinality(Ready') = Cardinality(Ready) - 1
      BY <3>1, <1>c, OneLess
    <3>3. Len(tasks') = Len(tasks) - 1
      BY <1>0, HeadTailProperties
    <3> QED BY <3>1, <3>2, <3>3, <1>c DEF Inv, NoLostWakeup
  <2>2. CASE WorkerLoop(w) /\ (WorkerBlock(w) \/ WorkerExit(w))
    BY <1>1, <2>2 DEF WorkerLoop, WorkerBlock, WorkerExit
  <2>3. CASE WorkerRun(w)
    <3>1. Ready' = Ready /\ Waiting' = Waiting /\ Notifying' = Notifying /\ tasks' = tasks
      BY <1>0, <2>3 DEF WorkerRun, Ready, Waiting, Notifying
    <3> QED BY <3>1 DEF Inv, NoLostWakeup
  <2>4. CASE WorkerSleep(w)
    BY <1>1, <2>4 DEF WorkerSleep, Inv, MutexInv
  <2>5. CASE SpuriousWakeup(w)
    BY <1>3, <2>5 DEF SpuriousWakeup
  <2>6. CASE WorkerFinish(w)
    BY <1>3, <2>6 DEF WorkerFinish
  <2> QED BY <1>8, <2>1, <2>2, <2>3, <2>4, <2>5, <2>6 DEF WorkerStep, WorkerLoop
<1>9. ASSUME NEW c \in Closers, (\E f \in CloseCalls : CloseBegin(c, f)) \/ CloseStep(c)
      PROVE  NoLostWakeup'
  <2>1. ASSUME NEW f \in CloseCalls, CloseBegin(c, f) PROVE NoLostWakeup'
    BY <1>1, <1>2, <2>1 DEF CloseBegin
  <2> QED BY <1>2, <1>4, <1>9, <2>1 DEF CloseStep, CloseNotifyAll, CloseJoin
<1>10. ASSUME NEW x \in Waiters, \/ \E f \in WaitCalls : WaitBegin(x, f)
                                 \/ WaitRecheck(x) \/ WaitSpurious(x)
       PROVE  NoLostWakeup'
  BY <1>2, <1>10 DEF WaitBegin, WaitRecheck, WaitSpurious
<1> QED BY <1>5, <1>6, <1>7, <1>8, <1>9, <1>10 DEF Next

-----------------------------------------------------------------------------
(* Theorems *)

\* Every step of the pool keeps the invariant.
LEMMA NextInv == ASSUME Inv, [Next]_vars PROVE Inv'
BY NextControl, NextPlaces, NextCounts, NextWakes DEF Inv, Control

\* ThreadPool.cpp keeps its queue, its counters, its mutex and its futures
\* consistent with what every thread is doing, for any number of threads.
THEOREM Invariance == Spec => []Inv
<1>1. Init => Inv
  BY InitInv
<1>2. Inv /\ [Next]_vars => Inv'
  BY NextInv
<1> QED BY <1>1, <1>2, PTL DEF Spec

\* Type correctness: active_threads never falls below zero nor exceeds the number
\* of threads, and completed_tasks never exceeds the tasks that were accepted,
\* although a future is set before its worker comes to the counters.
THEOREM TypeCorrect == Spec => []TypeOK
<1>1. ASSUME Inv PROVE TypeOK
  <2> USE <1>1
  <2>1. /\ IsFiniteSet(Workers) /\ Cardinality(Workers) = NumThreads
        /\ IsFiniteSet(TaskIds) /\ Cardinality(TaskIds) = MaxTasks
    BY FS_Interval, Sizes DEF Workers, TaskIds
  <2>2. Cardinality(Busy) <= NumThreads
    <3>1. Busy \subseteq Workers
      BY DEF Busy
    <3> QED BY <2>1, <3>1, FS_Subset
  <2>3. Cardinality(SetFutures) <= MaxTasks
    <3>1. SetFutures \subseteq TaskIds
      BY DEF SetFutures
    <3> QED BY <2>1, <3>1, FS_Subset
  <2>4. active_threads \in 0..NumThreads
    BY <2>2, CountedSets, Sizes DEF Inv, CountInv
  <2>5. completed_tasks \in 0..MaxTasks
    BY <2>3, CountedSets, Sizes DEF Inv, Types, CountInv
  <2> QED BY <2>4, <2>5 DEF Inv, Types, TypeOK, WorkerState
<1> QED BY <1>1, Invariance, PTL

\* A pending task is in the queue, in order, or in the hands of one worker:
\* enqueue, the workers and shutdown_now lose no task and run none twice.
THEOREM EveryTaskHasAPlace == Spec => []PendingIsSomewhere
<1>1. Inv => PendingIsSomewhere
  BY DEF Inv
<1> QED BY <1>1, Invariance, PTL

\* notify_one after unlocking is enough: while a worker sleeps, every queued task
\* has a worker or a notification on its way.
THEOREM WakeupsSuffice == Spec => []NoLostWakeup
<1>1. Inv => NoLostWakeup
  BY DEF Inv
<1> QED BY <1>1, Invariance, PTL

\* Once the constructor is done, shutdown and shutdown_now reach every sleeping
\* worker, because they store stop under the mutex that the predicate is tested
\* under.
THEOREM ShutdownReachesAll == Spec => []NobodySleepsThroughShutdown
<1>1. Inv => NobodySleepsThroughShutdown
  BY DEF Inv
<1> QED BY <1>1, Invariance, PTL

\* An idle pool, as wait_for_completion tests it, has no pending future left.
LEMMA IdleMeansResolved ==
    ASSUME Inv, tasks = << >>, \A w \in Workers : wpc[w] # "running"
    PROVE  \A k \in 1..accepted : future[k] \in {"set", "broken"}
<1> SUFFICES ASSUME NEW k \in 1..accepted PROVE future[k] \in {"set", "broken"}
  OBVIOUS
<1>1. k \in TaskIds /\ ~(k > accepted)
  BY Sizes DEF Inv, Types, TaskIds
<1>2. DOMAIN tasks = {}
  OBVIOUS
<1>3. future[k] # "pending"
  BY <1>1, <1>2 DEF Inv, PendingIsSomewhere
<1>4. future[k] # "none"
  BY <1>1 DEF Inv, QueueInv
<1> QED BY <1>1, <1>3, <1>4 DEF Inv, Types

\* The call of shutdown or shutdown_now that joined the workers leaves no thread
\* and no unresolved future behind; after shutdown every accepted task was run.
THEOREM JoinedIsDone == Spec => []JoinedMeansDone
<1>1. ASSUME Inv PROVE JoinedMeansDone
  <2> SUFFICES ASSUME NEW c \in Closers, cpc[c] = "joined"
               PROVE  /\ \A w \in Workers : wpc[w] = "exited"
                      /\ \A k \in 1..accepted : future[k] # "pending"
                      /\ call[c] = "shutdown" => \A k \in 1..accepted : future[k] = "set"
    BY DEF JoinedMeansDone
  <2> USE <1>1
  <2>1. joinAt \in Nat /\ joinAt > NumThreads
    BY Sizes DEF Inv, Types, CloseInv
  <2>2. \A w \in Workers : wpc[w] = "exited"
    BY <2>1, Sizes DEF Inv, CloseInv
  <2>3. 1 \in Workers
    BY Sizes DEF Workers
  <2>4. tasks = << >>
    BY <2>2, <2>3 DEF Inv, CloseInv
  <2>5. \A k \in 1..accepted : future[k] \in {"set", "broken"}
    BY <2>2, <2>4, IdleMeansResolved
  <2>6. call[c] = "shutdown" => \A k \in TaskIds : future[k] # "broken"
    BY DEF Inv, BrokenInv
  <2>7. 1..accepted \subseteq TaskIds
    BY Sizes DEF Inv, Types, TaskIds
  <2> QED BY <2>2, <2>5, <2>6, <2>7
<1> QED BY <1>1, Invariance, PTL

\* wait_for_completion returns true only when every task accepted so far was run
\* to its end or thrown away: active_threads and the queue are read under one
\* lock, and a worker counts itself in the critical section that takes the task.
THEOREM TrueIsTrue == Spec => TrueMeansCompleted
<1> DEFINE A == \A x \in Waiters :
                  xpc[x] # "true" /\ xpc'[x] = "true"
                     => \A k \in 1..accepted : future[k] \in {"set", "broken"}
<1>1. ASSUME Inv, [Next]_vars PROVE A
  <2> SUFFICES ASSUME NEW x \in Waiters, xpc[x] # "true", xpc'[x] = "true"
               PROVE  \A k \in 1..accepted : future[k] \in {"set", "broken"}
    OBVIOUS
  <2> USE <1>1
  <2>0. xpc \in [Waiters -> {"idle", "waiting", "woken", "true", "false"}]
    BY DEF Inv, Types
  <2>1. Idle
    <3>1. CASE xpc' = xpc
      BY <3>1
    <3>2. CASE WakeWaiters
      BY <2>0, <3>2 DEF WakeWaiters
    <3>3. ASSUME NEW y \in Waiters, \/ \E f \in WaitCalls : WaitBegin(y, f)
                                    \/ WaitRecheck(y) \/ WaitSpurious(y)
          PROVE  Idle
      <4>1. x = y
        BY <2>0, <3>3 DEF WaitBegin, WaitRecheck, WaitSpurious
      <4> QED BY <2>0, <3>3, <4>1 DEF WaitBegin, WaitRecheck, WaitSpurious
    <3>4. CASE CtorStep
      BY <3>1, <3>4 DEF CtorStep, CtorThread, CtorFail, CtorNotifyAll, CtorJoin, waitVars
    <3>5. ASSUME NEW p \in Producers, Enqueue(p) \/ EnqueueNotify(p) PROVE Idle
      BY <3>1, <3>5 DEF Enqueue, EnqueueNotify, waitVars
    <3>6. ASSUME NEW w \in Workers, WorkerStep(w) \/ SpuriousWakeup(w) PROVE Idle
      BY <3>1, <3>2, <3>6 DEF WorkerStep, SpuriousWakeup, WorkerLoop, WorkerSleep,
                              WorkerRun, WorkerFinish, waitVars
    <3>7. ASSUME NEW c \in Closers, (\E f \in CloseCalls : CloseBegin(c, f)) \/ CloseStep(c)
          PROVE  Idle
      BY <3>1, <3>7 DEF CloseStep, CloseBegin, CloseNotifyAll, CloseJoin, waitVars
    <3> QED BY <3>1, <3>3, <3>4, <3>5, <3>6, <3>7 DEF Next, vars
  <2>2. Cardinality(Busy) = 0 /\ tasks = << >>
    BY <2>1 DEF Idle, Inv, CountInv
  <2>3. Busy = {}
    BY <2>2, CountedSets, FS_EmptySet
  <2> QED BY <2>2, <2>3, IdleMeansResolved DEF Busy
<1>2. Inv /\ [Next]_vars => [A]_vars
  BY <1>1
<1> QED BY <1>2, Invariance, PTL DEF Spec, TrueMeansCompleted
=============================================================================

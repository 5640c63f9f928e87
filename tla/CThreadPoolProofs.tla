-------------------------- MODULE CThreadPoolProofs -------------------------
(***************************************************************************)
(* Proofs about CThreadPool, for every number of threads, tasks and        *)
(* callers of threadpool_destroy and every length of the queue: Inv is     *)
(* inductive, one lemma per part of it, and its parts are theorems.        *)
(***************************************************************************)
EXTENDS CThreadPool, SequenceTheorems, FiniteSetTheorems, TLAPS

-----------------------------------------------------------------------------
(* Counting workers *)

\* Sets of workers are finite.
LEMMA WorkersFinite ==
    ASSUME NEW S \in SUBSET Workers
    PROVE  IsFiniteSet(S) /\ Cardinality(S) \in Nat
<1>1. IsFiniteSet(Workers)
  BY FS_Interval, PoolAssumption DEF Workers
<1>2. IsFiniteSet(S)
  BY <1>1, FS_Subset
<1> QED BY <1>2, FS_CardinalityType

\* One worker more, one worker less, a set that did not shrink.
LEMMA OneMore ==
    ASSUME NEW S \in SUBSET Workers, NEW x \in Workers, x \notin S
    PROVE  Cardinality(S \cup {x}) = Cardinality(S) + 1
BY WorkersFinite, FS_AddElement

\* A finite set without one of its elements is smaller by one.
LEMMA OneLess ==
    ASSUME NEW S \in SUBSET Workers, NEW x \in S
    PROVE  Cardinality(S \ {x}) = Cardinality(S) - 1 /\ Cardinality(S) >= 1
<1>1. Cardinality(S \ {x}) = Cardinality(S) - 1
  BY WorkersFinite, FS_RemoveElement
<1>2. S \ {x} \in SUBSET Workers
  OBVIOUS
<1>3. Cardinality(S \ {x}) \in Nat /\ Cardinality(S) \in Nat
  BY <1>2, WorkersFinite
<1> QED BY <1>1, <1>3

\* The pool's sets of workers.
LEMMA SetsOfWorkers ==
    /\ Counted \in SUBSET Workers
    /\ Ready \in SUBSET Workers
    /\ Waiting \in SUBSET Workers
BY DEF Counted, Ready, Waiting

\* Numbers of threads and places.
LEMMA Sizes ==
    /\ NumThreads \in Nat /\ NumThreads >= 1
    /\ QueueSize \in Nat /\ QueueSize >= 1
    /\ \A w \in Workers : w \in Nat /\ 1 <= w /\ w <= NumThreads
BY PoolAssumption DEF Workers

-----------------------------------------------------------------------------
(* The initial state *)

\* threadpool_create begins in a state of the invariant.
LEMMA InitInv == Init => Inv
<1> SUFFICES ASSUME Init PROVE Inv
  OBVIOUS
<1>1. TypeOK
  <2>1. /\ thread_count \in 0..NumThreads /\ queue_count \in 0..QueueSize
        /\ queue_front \in 0..(QueueSize - 1) /\ queue_rear \in 0..(QueueSize - 1)
        /\ joinAt \in [Destroyers -> 0..NumThreads]
    BY Sizes DEF Init
  <2>2. /\ task_queue \in [0..(QueueSize - 1) -> Task \cup {None}]
        /\ running \in [Workers -> Task \cup {None}]
        /\ accepted \in Seq(Task) /\ started \in Seq(Task)
    BY DEF Init
  <2>3. /\ lock \in Workers \cup Destroyers \cup {None}
        /\ shutdown \in BOOLEAN /\ misuse \in BOOLEAN
    BY DEF Init
  <2> QED BY <2>1, <2>2, <2>3 DEF Init, TypeOK
<1>2. CreationInv /\ LockInv /\ DestroyInv
  BY Sizes DEF Init, CreationInv, LockInv, DestroyInv
<1>3. RingInv
  BY PoolAssumption DEF Init, RingInv
<1>4. Counted = {} /\ Waiting = {}
  BY DEF Init, Counted, Waiting
<1>5. ThreadCountExact
  BY <1>4, FS_EmptySet DEF Init, ThreadCountExact
<1>6. FreeIsSafe /\ NobodySleepsThroughShutdown /\ NoLostWakeup
  BY <1>4 DEF Init, FreeIsSafe, NobodySleepsThroughShutdown, NoLostWakeup
<1>7. ExactlyOnceInOrder
  BY DEF Init, ExactlyOnceInOrder, Contents
<1> QED BY <1>1, <1>2, <1>3, <1>5, <1>6, <1>7 DEF Inv

-----------------------------------------------------------------------------
(* Types, creation, the mutex and the memory: one lemma per action *)

\* The parts of the invariant that do not count or order anything.
Control ==
    /\ TypeOK /\ CreationInv /\ LockInv /\ DestroyInv
    /\ NobodySleepsThroughShutdown /\ FreeIsSafe

\* The task at the front of a queue that is not empty is a task.
LEMMA FrontIsTask ==
    ASSUME Inv, queue_count # 0
    PROVE  task_queue[queue_front] \in Task
<1>1. queue_front \in 0..(QueueSize - 1) /\ queue_count \in 0..QueueSize
  BY DEF Inv, TypeOK
<1>2. (queue_front + 0) % QueueSize = queue_front /\ 0 \in 0..(queue_count - 1)
  BY <1>1, Sizes
<1> QED BY <1>2 DEF Inv, RingInv

\* Creating a thread, or failing to, keeps the control part of the invariant.
LEMMA CreateControl == ASSUME Inv, Create PROVE Control'
<1>0. NumThreads \in Nat
  BY Sizes
<1>1. CASE CreateThread
  <2> USE <1>1 DEF CreateThread, queueVars, destroyVars, histVars
  <2>1. thread_count \in Nat /\ thread_count + 1 \in Workers
    BY <1>0 DEF Inv, TypeOK, CreationInv, Workers
  <2>2. TypeOK'
    BY <2>1, <1>0 DEF Inv, TypeOK, CreationInv
  <2>3. CreationInv'
    BY <2>1, <1>0, Sizes DEF Inv, TypeOK, CreationInv
  <2>4. LockInv' /\ DestroyInv'
    BY <2>1 DEF Inv, TypeOK, LockInv, DestroyInv
  <2>5. NobodySleepsThroughShutdown' /\ FreeIsSafe'
    BY DEF Inv, CreationInv, NobodySleepsThroughShutdown, FreeIsSafe
  <2> QED BY <2>2, <2>3, <2>4, <2>5 DEF Control
<1>2. CASE CreateFail
  BY <1>2 DEF CreateFail, queueVars, destroyVars, histVars, Inv, Control, TypeOK,
              CreationInv, LockInv, DestroyInv, NobodySleepsThroughShutdown,
              FreeIsSafe, Waiting, Counted
<1> QED BY <1>1, <1>2 DEF Create

\* What pthread_cond_signal does to the workers.
LEMMA SignalEffect ==
    ASSUME Inv, Signal
    PROVE  /\ wpc' \in [Workers -> {"unborn", "ready", "waiting", "running",
                                    "exiting", "exited"}]
           /\ \/ wpc' = wpc /\ Waiting = {}
              \/ \E w \in Waiting : wpc' = [wpc EXCEPT ![w] = "ready"]
           /\ \A w \in Workers : wpc'[w] \notin {"unborn", "exiting"}
                                   \/ wpc'[w] = wpc[w]
           /\ Counted' = Counted
           /\ Waiting' \subseteq Waiting
<1>0. wpc \in [Workers -> {"unborn", "ready", "waiting", "running", "exiting",
                           "exited"}]
  BY DEF Inv, TypeOK
<1>1. CASE Waiting = {} /\ wpc' = wpc
  BY <1>0, <1>1 DEF Counted, Waiting
<1>2. CASE \E w \in Waiting : wpc' = [wpc EXCEPT ![w] = "ready"]
  <2>1. PICK w \in Waiting : wpc' = [wpc EXCEPT ![w] = "ready"]
    BY <1>2
  <2>2. w \in Workers /\ wpc[w] = "waiting"
    BY DEF Waiting
  <2> QED BY <1>0, <2>1, <2>2 DEF Counted, Waiting
<1> QED BY <1>1, <1>2 DEF Signal

\* So does threadpool_add.
LEMMA AddControl == ASSUME Inv, NEW t \in Task, Add(t) PROVE Control'
<1> USE DEF Add, destroyVars, queueVars
<1>s. QueueSize \in Nat /\ QueueSize >= 1
  BY Sizes
<1>1. CASE AddAccepted(t)
  <2> USE <1>1 DEF AddAccepted
  <2>0. /\ wpc' \in [Workers -> {"unborn", "ready", "waiting", "running",
                                  "exiting", "exited"}]
        /\ \A w \in Workers : wpc'[w] \notin {"unborn", "exiting"}
                               \/ wpc'[w] = wpc[w]
        /\ Counted' = Counted /\ Waiting' \subseteq Waiting
    BY SignalEffect
  <2>1. TypeOK'
    <3>1. queue_rear' \in 0..(QueueSize - 1) /\ queue_count' \in 0..QueueSize
      BY <1>s DEF Inv, TypeOK
    <3>2. task_queue' \in [0..(QueueSize - 1) -> Task \cup {None}]
      BY DEF Inv, TypeOK
    <3>3. accepted' \in Seq(Task)
      BY AppendProperties DEF Inv, TypeOK
    <3> QED BY <2>0, <3>1, <3>2, <3>3 DEF Inv, TypeOK
  <2>2. CreationInv'
    BY DEF CreationInv
  <2>3. LockInv' /\ DestroyInv'
    BY <2>0 DEF Inv, LockInv, DestroyInv
  <2>4. NobodySleepsThroughShutdown' /\ FreeIsSafe'
    BY <2>0 DEF Inv, NobodySleepsThroughShutdown, FreeIsSafe
  <2> QED BY <2>1, <2>2, <2>3, <2>4 DEF Control
<1>2. CASE AddRejected
  BY <1>2 DEF AddRejected, Inv, Control, TypeOK, CreationInv, LockInv, DestroyInv,
              NobodySleepsThroughShutdown, FreeIsSafe, Waiting, Counted
<1> QED BY <1>1, <1>2

\* So does a worker at the head of its loop.
LEMMA WorkerLoopControl ==
    ASSUME Inv, NEW w \in Workers, WorkerLoop(w) PROVE Control'
<1> USE DEF WorkerLoop, destroyVars, queueVars
<1>s. QueueSize \in Nat /\ QueueSize >= 1 /\ NumThreads \in Nat
  BY Sizes
<1>0. /\ wpc[w] = "ready" /\ lock = None /\ w \in Counted
      /\ wpc \in [Workers -> {"unborn", "ready", "waiting", "running", "exiting",
                               "exited"}]
      /\ \A v \in Workers : wpc[v] # "exiting"
  BY PoolAssumption DEF Inv, TypeOK, Counted, LockInv
<1>1. memory = "allocated"
  BY <1>0 DEF Inv, FreeIsSafe
<1>2. CASE WorkerWait(w)
  <2> USE <1>2 DEF WorkerWait
  <2>1. TypeOK'
    BY <1>0 DEF Inv, TypeOK
  <2>2. CreationInv' /\ LockInv' /\ DestroyInv'
    BY <1>0 DEF Inv, CreationInv, LockInv, DestroyInv
  <2>3. NobodySleepsThroughShutdown' /\ FreeIsSafe'
    BY <1>1 DEF NobodySleepsThroughShutdown, FreeIsSafe
  <2> QED BY <2>1, <2>2, <2>3 DEF Control
<1>3. CASE WorkerTake(w)
  <2> USE <1>3 DEF WorkerTake
  <2>1. TypeOK'
    <3>1. queue_front' \in 0..(QueueSize - 1) /\ queue_count' \in 0..QueueSize
      BY <1>s DEF Inv, TypeOK
    <3>2. task_queue[queue_front] \in Task
      BY FrontIsTask
    <3>3. started' \in Seq(Task)
      BY <3>2, AppendProperties DEF Inv, TypeOK
    <3>4. running' \in [Workers -> Task \cup {None}]
      BY <3>2 DEF Inv, TypeOK
    <3> QED BY <1>0, <3>1, <3>3, <3>4 DEF Inv, TypeOK
  <2>2. CreationInv' /\ LockInv' /\ DestroyInv'
    BY <1>0 DEF Inv, CreationInv, LockInv, DestroyInv
  <2>3. NobodySleepsThroughShutdown' /\ FreeIsSafe'
    BY <1>1 DEF NobodySleepsThroughShutdown, FreeIsSafe
  <2> QED BY <2>1, <2>2, <2>3 DEF Control
<1>4. CASE WorkerLeave(w)
  <2> USE <1>4 DEF WorkerLeave
  <2>1. TypeOK'
    <3>1. thread_count' \in 0..NumThreads
      <4>1. thread_count \in 0..NumThreads /\ thread_count >= 1
        BY <1>0, OneLess, SetsOfWorkers DEF Inv, TypeOK, ThreadCountExact
      <4> QED BY <4>1, <1>s
    <3> QED BY <1>0, <3>1 DEF Inv, TypeOK
  <2>2. CreationInv' /\ LockInv' /\ DestroyInv'
    BY <1>0 DEF Inv, CreationInv, LockInv, DestroyInv
  <2>3. NobodySleepsThroughShutdown' /\ FreeIsSafe'
    BY <1>0, <1>1 DEF Inv, NobodySleepsThroughShutdown, FreeIsSafe, Waiting
  <2> QED BY <2>1, <2>2, <2>3 DEF Control
<1> QED BY <1>2, <1>3, <1>4

\* So do the other steps of a worker.
LEMMA OtherWorkerControl ==
    ASSUME Inv, NEW w \in Workers,
           WorkerFinishTask(w) \/ WorkerUnlockAndExit(w) \/ SpuriousWakeup(w)
    PROVE  Control'
<1> USE DEF destroyVars, queueVars, histVars
<1>0. wpc \in [Workers -> {"unborn", "ready", "waiting", "running", "exiting",
                           "exited"}]
  BY DEF Inv, TypeOK
<1>1. CASE WorkerFinishTask(w)
  <2> USE <1>1 DEF WorkerFinishTask
  <2>1. TypeOK'
    BY <1>0 DEF Inv, TypeOK
  <2>2. CreationInv' /\ LockInv' /\ DestroyInv'
    BY <1>0 DEF Inv, CreationInv, LockInv, DestroyInv
  <2>3. NobodySleepsThroughShutdown' /\ FreeIsSafe'
    BY <1>0 DEF Inv, NobodySleepsThroughShutdown, FreeIsSafe, Waiting, Counted
  <2> QED BY <2>1, <2>2, <2>3 DEF Control
<1>2. CASE WorkerUnlockAndExit(w)
  <2> USE <1>2 DEF WorkerUnlockAndExit
  <2>1. TypeOK'
    BY <1>0 DEF Inv, TypeOK
  <2>2. CreationInv' /\ DestroyInv'
    BY <1>0 DEF Inv, CreationInv, DestroyInv
  <2>3. LockInv'
    BY <1>0 DEF Inv, LockInv
  <2>4. NobodySleepsThroughShutdown' /\ FreeIsSafe'
    BY <1>0 DEF Inv, NobodySleepsThroughShutdown, FreeIsSafe, Waiting, Counted
  <2> QED BY <2>1, <2>2, <2>3, <2>4 DEF Control
<1>3. CASE SpuriousWakeup(w)
  <2> USE <1>3 DEF SpuriousWakeup
  <2>1. TypeOK'
    BY <1>0 DEF Inv, TypeOK
  <2>2. CreationInv' /\ LockInv' /\ DestroyInv'
    BY <1>0 DEF Inv, CreationInv, LockInv, DestroyInv
  <2>3. NobodySleepsThroughShutdown' /\ FreeIsSafe'
    BY <1>0 DEF Inv, NobodySleepsThroughShutdown, FreeIsSafe, Waiting, Counted
  <2> QED BY <2>1, <2>2, <2>3 DEF Control
<1> QED BY <1>1, <1>2, <1>3

\* So does a call of threadpool_destroy.
LEMMA DestroyBeginControl ==
    ASSUME Inv, NEW d \in Destroyers, DestroyBegin(d) \/ DestroyFreed(d)
    PROVE  Control'
<1> USE DEF queueVars, histVars
<1>0. wpc \in [Workers -> {"unborn", "ready", "waiting", "running", "exiting",
                           "exited"}]
  BY DEF Inv, TypeOK
<1>1. CASE DestroyBegin(d) /\ DestroyFirst(d)
  <2> USE <1>1 DEF DestroyBegin, DestroyFirst
  <2>1. TypeOK'
    BY <1>0 DEF Inv, TypeOK
  <2>2. CreationInv' /\ LockInv' /\ DestroyInv'
    BY <1>0 DEF Inv, TypeOK, CreationInv, LockInv, DestroyInv
  <2>3. NobodySleepsThroughShutdown' /\ FreeIsSafe'
    BY <1>0 DEF Inv, NobodySleepsThroughShutdown, FreeIsSafe, Waiting, Counted
  <2> QED BY <2>1, <2>2, <2>3 DEF Control
<1>2. CASE DestroyBegin(d) /\ DestroyAgain(d)
  <2> USE <1>2 DEF DestroyBegin, DestroyAgain
  <2>1. TypeOK'
    BY DEF Inv, TypeOK
  <2>2. CreationInv' /\ DestroyInv'
    BY DEF Inv, TypeOK, CreationInv, DestroyInv
  <2>3. LockInv'
    BY <1>0, PoolAssumption DEF Inv, LockInv
  <2>4. NobodySleepsThroughShutdown' /\ FreeIsSafe'
    BY DEF Inv, NobodySleepsThroughShutdown, FreeIsSafe, Waiting, Counted
  <2> QED BY <2>1, <2>2, <2>3, <2>4 DEF Control
<1>3. CASE DestroyFreed(d)
  <2> USE <1>3 DEF DestroyFreed
  <2>1. TypeOK'
    BY DEF Inv, TypeOK
  <2>2. CreationInv' /\ LockInv' /\ DestroyInv'
    BY DEF Inv, TypeOK, CreationInv, LockInv, DestroyInv
  <2>3. NobodySleepsThroughShutdown' /\ FreeIsSafe'
    BY DEF Inv, NobodySleepsThroughShutdown, FreeIsSafe, Waiting, Counted
  <2> QED BY <2>1, <2>2, <2>3 DEF Control
<1> QED BY <1>1, <1>2, <1>3 DEF DestroyBegin

\* So do the joins and threadpool_free.
LEMMA DestroyStepControl ==
    ASSUME Inv, NEW d \in Destroyers, DestroyStep(d) PROVE Control'
<1> USE DEF queueVars, histVars
<1>s. NumThreads \in Nat
  BY Sizes
<1>1. CASE DestroyJoinTest(d)
  <2> USE <1>1 DEF DestroyJoinTest
  <2>1. TypeOK'
    BY DEF Inv, TypeOK
  <2>2. CreationInv' /\ LockInv'
    BY DEF Inv, CreationInv, LockInv
  <2>3. DestroyInv'
    BY <1>s DEF Inv, TypeOK, DestroyInv
  <2>4. NobodySleepsThroughShutdown' /\ FreeIsSafe'
    BY DEF Inv, NobodySleepsThroughShutdown, FreeIsSafe, Waiting, Counted
  <2> QED BY <2>1, <2>2, <2>3, <2>4 DEF Control
<1>2. CASE DestroyJoin(d)
  <2> USE <1>2 DEF DestroyJoin
  <2>1. TypeOK'
    <3>1. joinAt[d] \in 0..NumThreads /\ joinAt[d] < NumThreads
      BY DEF Inv, TypeOK, DestroyInv
    <3>2. joinAt' \in [Destroyers -> 0..NumThreads]
      BY <3>1, <1>s DEF Inv, TypeOK
    <3> QED BY <3>2 DEF Inv, TypeOK
  <2>2. CreationInv' /\ LockInv' /\ DestroyInv'
    BY DEF Inv, TypeOK, CreationInv, LockInv, DestroyInv
  <2>3. NobodySleepsThroughShutdown' /\ FreeIsSafe'
    BY DEF Inv, NobodySleepsThroughShutdown, FreeIsSafe, Waiting, Counted
  <2> QED BY <2>1, <2>2, <2>3 DEF Control
<1>3. CASE FreeTest(d) /\ FreeRefused(d)
  <2> USE <1>3 DEF FreeTest, FreeRefused
  <2>1. TypeOK'
    BY DEF Inv, TypeOK
  <2>2. CreationInv' /\ LockInv' /\ DestroyInv'
    BY DEF Inv, TypeOK, CreationInv, LockInv, DestroyInv
  <2>3. NobodySleepsThroughShutdown' /\ FreeIsSafe'
    BY DEF Inv, NobodySleepsThroughShutdown, FreeIsSafe, Waiting, Counted
  <2> QED BY <2>1, <2>2, <2>3 DEF Control
<1>4. CASE FreeTest(d) /\ FreeArrays(d)
  <2> USE <1>4 DEF FreeTest, FreeArrays
  <2>1. TypeOK'
    BY DEF Inv, TypeOK
  <2>2. CreationInv' /\ LockInv' /\ DestroyInv'
    BY DEF Inv, TypeOK, CreationInv, LockInv, DestroyInv
  <2>3. Counted = {}
    <3>1. Cardinality(Counted) = 0
      BY <1>s DEF Inv, TypeOK, ThreadCountExact
    <3>2. IsFiniteSet(Counted)
      BY WorkersFinite, SetsOfWorkers
    <3> QED BY <3>1, <3>2, FS_EmptySet
  <2>4. NobodySleepsThroughShutdown' /\ FreeIsSafe'
    BY <2>3 DEF Inv, NobodySleepsThroughShutdown, FreeIsSafe, Waiting, Counted
  <2> QED BY <2>1, <2>2, <2>4 DEF Control
<1>5. CASE FreePool(d)
  <2> USE <1>5 DEF FreePool
  <2>1. TypeOK'
    BY DEF Inv, TypeOK
  <2>2. CreationInv' /\ LockInv' /\ DestroyInv'
    BY DEF Inv, TypeOK, CreationInv, LockInv, DestroyInv
  <2>3. \A w \in Workers : wpc[w] # "exiting"
    BY PoolAssumption DEF Inv, LockInv
  <2>4. NobodySleepsThroughShutdown' /\ FreeIsSafe'
    BY <2>3 DEF Inv, NobodySleepsThroughShutdown, FreeIsSafe, DestroyInv, Waiting,
                Counted
  <2> QED BY <2>1, <2>2, <2>4 DEF Control
<1> QED BY <1>1, <1>2, <1>3, <1>4, <1>5 DEF DestroyStep, FreeTest

-----------------------------------------------------------------------------
(* Counting: thread_count, and the workers on their way to the queue *)

\* The counter follows the threads, whatever the order in which they come and go.
LEMMA NextCounts == ASSUME Inv, [Next]_vars PROVE ThreadCountExact'
<1>0. wpc \in [Workers -> {"unborn", "ready", "waiting", "running", "exiting",
                           "exited"}]
  BY DEF Inv, TypeOK
<1>1. CASE thread_count' = thread_count /\ Counted' = Counted
  BY <1>1 DEF Inv, ThreadCountExact
<1>2. CASE CreateThread
  <2>1. thread_count + 1 \in Workers /\ wpc[thread_count + 1] = "unborn"
    BY <1>2, Sizes DEF CreateThread, Inv, TypeOK, CreationInv, Workers
  <2>2. Counted' = Counted \cup {thread_count + 1} /\ thread_count + 1 \notin Counted
    BY <1>0, <1>2, <2>1 DEF CreateThread, Counted
  <2>3. Cardinality(Counted') = Cardinality(Counted) + 1
    BY <2>1, <2>2, OneMore, SetsOfWorkers
  <2> QED BY <1>2, <2>3 DEF CreateThread, Inv, ThreadCountExact
<1>3. ASSUME NEW w \in Workers, WorkerLoop(w) PROVE ThreadCountExact'
  <2>1. CASE WorkerWait(w) \/ WorkerTake(w)
    <3>1. Counted' = Counted /\ thread_count' = thread_count
      BY <1>0, <1>3, <2>1 DEF WorkerLoop, WorkerWait, WorkerTake, Counted
    <3> QED BY <3>1, <1>1
  <2>2. CASE WorkerLeave(w)
    <3>1. Counted' = Counted \ {w} /\ w \in Counted
      BY <1>0, <1>3, <2>2 DEF WorkerLoop, WorkerLeave, Counted
    <3>2. Cardinality(Counted') = Cardinality(Counted) - 1
      BY <3>1, OneLess, SetsOfWorkers
    <3> QED BY <2>2, <3>2 DEF WorkerLeave, Inv, ThreadCountExact
  <2> QED BY <1>3, <2>1, <2>2 DEF WorkerLoop
<1>4. CASE CreateFail
  BY <1>1, <1>4 DEF CreateFail, Counted
<1>5. ASSUME NEW t \in Task, Add(t) PROVE ThreadCountExact'
  <2>1. CASE AddAccepted(t)
    BY <1>1, <1>5, <2>1, SignalEffect DEF Add, AddAccepted
  <2>2. CASE AddRejected
    BY <1>1, <1>5, <2>2 DEF Add, AddRejected, Counted
  <2> QED BY <1>5, <2>1, <2>2 DEF Add
<1>6. ASSUME NEW w \in Workers,
             WorkerFinishTask(w) \/ WorkerUnlockAndExit(w) \/ SpuriousWakeup(w)
      PROVE  ThreadCountExact'
  <2>1. Counted' = Counted /\ thread_count' = thread_count
    BY <1>0, <1>6 DEF WorkerFinishTask, WorkerUnlockAndExit, SpuriousWakeup, Counted
  <2> QED BY <2>1, <1>1
<1>7. ASSUME NEW d \in Destroyers, DestroyBegin(d) PROVE ThreadCountExact'
  <2>1. Counted' = Counted /\ thread_count' = thread_count
    BY <1>0, <1>7 DEF DestroyBegin, DestroyFirst, DestroyAgain, Counted
  <2> QED BY <2>1, <1>1
<1>8. ASSUME NEW d \in Destroyers, DestroyFreed(d) \/ DestroyStep(d)
      PROVE  ThreadCountExact'
  <2>1. Counted' = Counted /\ thread_count' = thread_count
    BY <1>8 DEF DestroyFreed, DestroyStep, DestroyJoinTest, DestroyJoin, FreeTest,
                FreePool, Counted
  <2> QED BY <2>1, <1>1
<1>9. CASE UNCHANGED vars
  BY <1>1, <1>9 DEF vars, Counted
<1> QED BY <1>2, <1>3, <1>4, <1>5, <1>6, <1>7, <1>8, <1>9
        DEF Next, Create, WorkerStep

\* threadpool_add wakes one worker per task and a worker takes one task per turn,
\* so the workers on their way never become fewer than the tasks.
LEMMA NextWakes == ASSUME Inv, [Next]_vars PROVE NoLostWakeup'
<1>0. wpc \in [Workers -> {"unborn", "ready", "waiting", "running", "exiting",
                           "exited"}]
  BY DEF Inv, TypeOK
<1>n. Cardinality(Ready) \in Nat /\ queue_count \in Nat
  BY WorkersFinite, SetsOfWorkers, Sizes DEF Inv, TypeOK
<1>1. ASSUME UNCHANGED <<queue_count, shutdown>>, NEW w \in Workers,
             wpc[w] # "ready", wpc' = [wpc EXCEPT ![w] = "ready"]
      PROVE  NoLostWakeup'
  <2>1. Ready' = Ready \cup {w} /\ w \notin Ready /\ Waiting' \subseteq Waiting
    BY <1>0, <1>1 DEF Ready, Waiting
  <2>2. Cardinality(Ready') = Cardinality(Ready) + 1
    BY <2>1, OneMore, SetsOfWorkers
  <2>3. ~shutdown /\ Waiting # {} => queue_count <= Cardinality(Ready)
    BY DEF Inv, NoLostWakeup
  <2> QED BY <1>1, <1>n, <2>1, <2>2, <2>3 DEF NoLostWakeup
<1>2. ASSUME UNCHANGED <<queue_count, shutdown, wpc>> PROVE NoLostWakeup'
  BY <1>2 DEF Inv, NoLostWakeup, Waiting, Ready
<1>3. CASE CreateThread
  <2>1. thread_count + 1 \in Workers /\ wpc[thread_count + 1] = "unborn"
    BY <1>3, Sizes DEF CreateThread, Inv, TypeOK, CreationInv, Workers
  <2> QED BY <1>1, <1>3, <2>1 DEF CreateThread, queueVars
<1>4. ASSUME NEW t \in Task, Add(t) PROVE NoLostWakeup'
  <2>1. CASE AddAccepted(t)
    <3>1. CASE Waiting = {}
      <4>1. Waiting' = {}
        BY <3>1, <2>1, SignalEffect DEF AddAccepted
      <4> QED BY <4>1 DEF NoLostWakeup
    <3>2. CASE Waiting # {}
      <4>1. PICK w \in Waiting : wpc' = [wpc EXCEPT ![w] = "ready"]
        BY <3>2, <2>1 DEF AddAccepted, Signal
      <4>2. Ready' = Ready \cup {w} /\ w \notin Ready /\ w \in Workers
        BY <1>0, <4>1 DEF Ready, Waiting
      <4>3. Cardinality(Ready') = Cardinality(Ready) + 1
        BY <4>2, OneMore, SetsOfWorkers
      <4>4. queue_count <= Cardinality(Ready) /\ queue_count' = queue_count + 1
        BY <2>1, <3>2 DEF AddAccepted, Inv, NoLostWakeup
      <4> QED BY <4>3, <4>4, <1>n DEF NoLostWakeup
    <3> QED BY <3>1, <3>2
  <2>2. CASE AddRejected
    BY <1>2, <1>4, <2>2 DEF Add, AddRejected, queueVars
  <2> QED BY <1>4, <2>1, <2>2 DEF Add
<1>5. ASSUME NEW w \in Workers, WorkerLoop(w) PROVE NoLostWakeup'
  <2>1. CASE WorkerWait(w)
    <3>1. queue_count' = 0 /\ Cardinality(Ready \ {w}) \in Nat
      BY <2>1, WorkersFinite, SetsOfWorkers DEF WorkerWait, queueVars
    <3>2. Ready' = Ready \ {w}
      BY <1>0, <2>1 DEF WorkerWait, Ready
    <3> QED BY <3>1, <3>2 DEF NoLostWakeup
  <2>2. CASE WorkerTake(w)
    <3>1. Ready' = Ready \ {w} /\ w \in Ready /\ Waiting' = Waiting
      BY <1>0, <1>5, <2>2 DEF WorkerLoop, WorkerTake, Ready, Waiting
    <3>2. Cardinality(Ready') = Cardinality(Ready) - 1
      BY <3>1, OneLess, SetsOfWorkers
    <3>3. queue_count' = queue_count - 1 /\ ~shutdown
      BY <2>2 DEF WorkerTake
    <3>4. Waiting # {} => queue_count <= Cardinality(Ready)
      BY <3>3 DEF Inv, NoLostWakeup
    <3> QED BY <1>n, <3>1, <3>2, <3>3, <3>4 DEF NoLostWakeup
  <2>3. CASE WorkerLeave(w)
    BY <1>5, <2>3 DEF WorkerLoop, WorkerLeave, NoLostWakeup
  <2> QED BY <1>5, <2>1, <2>2, <2>3 DEF WorkerLoop
<1>6. ASSUME NEW w \in Workers, WorkerFinishTask(w) \/ SpuriousWakeup(w)
      PROVE  NoLostWakeup'
  BY <1>1, <1>6 DEF WorkerFinishTask, SpuriousWakeup, queueVars
<1>7. ASSUME NEW w \in Workers, WorkerUnlockAndExit(w) PROVE NoLostWakeup'
  <2>1. Ready' = Ready /\ Waiting' = Waiting
    BY <1>0, <1>7 DEF WorkerUnlockAndExit, Ready, Waiting
  <2> QED BY <1>7, <2>1 DEF WorkerUnlockAndExit, queueVars, Inv, NoLostWakeup
<1>8. ASSUME NEW d \in Destroyers, DestroyBegin(d) PROVE NoLostWakeup'
  BY <1>8 DEF DestroyBegin, DestroyFirst, DestroyAgain, NoLostWakeup
<1>9. ASSUME NEW d \in Destroyers, DestroyFreed(d) \/ DestroyStep(d)
      PROVE  NoLostWakeup'
  BY <1>2, <1>9 DEF DestroyFreed, DestroyStep, DestroyJoinTest, DestroyJoin,
                    FreeTest, FreePool, queueVars
<1>10. CASE CreateFail \/ UNCHANGED vars
  BY <1>2, <1>10 DEF CreateFail, vars, queueVars
<1> QED BY <1>3, <1>4, <1>5, <1>6, <1>7, <1>8, <1>9, <1>10
        DEF Next, Create, WorkerStep

-----------------------------------------------------------------------------
(* The ring *)

\* Appending behind a concatenation, and moving an element across it.
LEMMA AppendBehind ==
    ASSUME NEW s \in Seq(Task), NEW c \in Seq(Task), NEW t \in Task
    PROVE  Append(s \o c, t) = s \o Append(c, t)
OBVIOUS

\* Taking the first element of a queue and appending it to what was taken keeps their concatenation.
LEMMA MoveAcross ==
    ASSUME NEW s \in Seq(Task), NEW c \in Seq(Task), c # << >>
    PROVE  Append(s, Head(c)) \o Tail(c) = s \o c
OBVIOUS

\* Contents is a sequence of queue_count tasks.
LEMMA ContentsType ==
    ASSUME Inv
    PROVE  /\ Contents \in Seq(Task) /\ Len(Contents) = queue_count
           /\ \A k \in 1..queue_count :
                 Contents[k] = task_queue[(queue_front + (k - 1)) % QueueSize]
<1>1. queue_count \in Nat /\ queue_front \in Nat
  BY Sizes DEF Inv, TypeOK
<1>2. \A k \in 1..queue_count :
         /\ k - 1 \in 0..(queue_count - 1)
         /\ queue_front + k - 1 = queue_front + (k - 1)
  BY <1>1
<1>3. \A k \in 1..queue_count :
         task_queue[(queue_front + (k - 1)) % QueueSize] \in Task
  BY <1>2 DEF Inv, RingInv
<1>4. Contents = [k \in 1..queue_count |->
                    task_queue[(queue_front + (k - 1)) % QueueSize]]
  BY <1>2 DEF Contents
<1>5. Contents \in [1..queue_count -> Task]
  BY <1>3, <1>4
<1>6. Contents \in Seq(Task) /\ Len(Contents) = queue_count
  BY <1>1, <1>5
<1> QED BY <1>4, <1>6

\* A remainder within two laps of the ring.
LEMMA WithinTwoLaps ==
    ASSUME NEW a \in 0 .. 2 * QueueSize - 1
    PROVE  a % QueueSize = IF a < QueueSize THEN a ELSE a - QueueSize
<1>0. QueueSize \in Nat \ {0}
  BY Sizes
<1>1. ASSUME NEW q \in Int, NEW r \in 0 .. QueueSize - 1 PROVE (QueueSize * q + r) % QueueSize = r
  BY <1>0
<1>2. CASE a < QueueSize
  <2>1. a \in 0 .. QueueSize - 1 /\ QueueSize * 0 + a = a
    BY <1>0, <1>2
  <2> QED BY <1>1, <1>2, <2>1
<1>3. CASE ~(a < QueueSize)
  <2> DEFINE r == a - QueueSize
  <2>1. r \in 0 .. QueueSize - 1 /\ QueueSize * 1 + r = a
    BY <1>0, <1>3
  <2> HIDE DEF r
  <2>2. (QueueSize * 1 + r) % QueueSize = r
    BY <1>1, <2>1
  <2> QED BY <1>3, <2>1, <2>2 DEF r
<1> QED BY <1>2, <1>3

\* A function on 1..m that agrees with a sequence of length m is that sequence.
LEMMA FunctionIsSeq ==
    ASSUME NEW S, NEW f, NEW t \in Seq(S), NEW m \in Nat, Len(t) = m,
           f = [k \in 1..m |-> f[k]], \A k \in 1..m : f[k] = t[k]
    PROVE  f = t
<1>1. \A k \in 1..m : t[k] \in S
  BY ElementOfSeq
<1>2. f \in [1..m -> S]
  BY <1>1
<1>3. f \in Seq(S) /\ Len(f) = m
  BY <1>2
<1> QED BY <1>3, SeqEqual

\* threadpool_add puts the task behind the others.
LEMMA AddAppends ==
    ASSUME Inv, NEW t \in Task, Add(t), AddAccepted(t)
    PROVE  RingInv' /\ ExactlyOnceInOrder'
<1> DEFINE f == queue_front
           c == queue_count
<1>0. /\ f \in Nat /\ f < QueueSize /\ c \in Nat /\ c < QueueSize /\ QueueSize \in Nat \ {0}
      /\ c \in 0..(QueueSize - 1) /\ queue_front' = f /\ queue_count' = c + 1
      /\ queue_rear = (f + c) % QueueSize
      /\ task_queue \in [0..(QueueSize - 1) -> Task \cup {None}]
  BY Sizes DEF Inv, TypeOK, RingInv, AddAccepted
<1>n. f \in Nat /\ c \in Nat /\ QueueSize \in Nat
  BY <1>0
<1>1. queue_rear' = (f + (c + 1)) % QueueSize
  <2>1. queue_rear' = (((f + c) % QueueSize) + 1) % QueueSize
    BY <1>0 DEF AddAccepted
  <2>2. f + c \in 0 .. 2 * QueueSize - 1 /\ f + (c + 1) \in 0 .. 2 * QueueSize - 1
    BY <1>0
  <2>3. (f + c) % QueueSize = IF f + c < QueueSize THEN f + c ELSE f + c - QueueSize
    BY <1>n, <2>2, WithinTwoLaps
  <2>4. f + (c + 1) = (f + c) + 1 /\ 0 \in 0 .. 2 * QueueSize - 1
        /\ ((f + c) % QueueSize) + 1 \in 0 .. 2 * QueueSize - 1
    BY <1>0, <2>3
  <2>5. (((f + c) % QueueSize) + 1) % QueueSize = (f + (c + 1)) % QueueSize
    <3>1. (f + (c + 1)) % QueueSize =
             IF f + (c + 1) < QueueSize THEN f + (c + 1) ELSE f + (c + 1) - QueueSize
      BY <1>n, <2>2, WithinTwoLaps
    <3>2. (((f + c) % QueueSize) + 1) % QueueSize =
             IF ((f + c) % QueueSize) + 1 < QueueSize THEN ((f + c) % QueueSize) + 1
             ELSE ((f + c) % QueueSize) + 1 - QueueSize
      BY <1>n, <2>4, WithinTwoLaps
    <3> QED BY <1>0, <2>3, <3>1, <3>2
  <2> QED BY <2>1, <2>5
<1>2. ASSUME NEW k \in 0..c
      PROVE  /\ (f + k) % QueueSize \in 0..(QueueSize - 1)
             /\ task_queue'[(f + k) % QueueSize] =
                  IF k = c THEN t ELSE task_queue[(f + k) % QueueSize]
  <2>1. k \in 0..(QueueSize - 1) /\ f + k \in Int
    BY <1>0
  <2>2. (f + k) % QueueSize \in 0..(QueueSize - 1)
    BY <2>1, <1>0
  <2>3. ASSUME (f + k) % QueueSize = (f + c) % QueueSize PROVE k = c
    <3>1. f + k \in 0 .. 2 * QueueSize - 1 /\ f + c \in 0 .. 2 * QueueSize - 1
      BY <1>0, <2>1
    <3>2. /\ (f + k) % QueueSize = IF f + k < QueueSize THEN f + k ELSE f + k - QueueSize
          /\ (f + c) % QueueSize = IF f + c < QueueSize THEN f + c ELSE f + c - QueueSize
      BY <1>n, <3>1, WithinTwoLaps
    <3> QED BY <1>0, <2>1, <2>3, <3>2
  <2>4. task_queue' = [task_queue EXCEPT ![(f + c) % QueueSize] = t]
    BY <1>0 DEF AddAccepted
  <2> HIDE DEF f, c
  <2> QED BY <2>2, <2>3, <2>4, <1>0
<1>3. RingInv'
  <2> SUFFICES ASSUME NEW k \in 0..(c + 1 - 1)
               PROVE  task_queue'[(f + k) % QueueSize] \in Task
    BY <1>0, <1>1 DEF RingInv
  <2>1. k \in 0..c /\ (k # c => k \in 0..(c - 1))
    BY <1>0
  <2>2. k # c => task_queue[(f + k) % QueueSize] \in Task
    BY <2>1 DEF Inv, RingInv
  <2> QED BY <1>2, <2>1, <2>2
<1>4. /\ Contents \in Seq(Task) /\ Len(Contents) = c
      /\ \A k \in 1..c : Contents[k] = task_queue[(f + (k - 1)) % QueueSize]
  BY ContentsType
<1>5. Contents' = Append(Contents, t)
  <2> DEFINE g == Contents'
             a == Append(Contents, t)
             m == c + 1
  <2>1. g = [k \in 1..m |-> task_queue'[(f + k - 1) % QueueSize]]
    BY <1>0 DEF Contents
  <2>2. /\ a \in Seq(Task) /\ Len(a) = m /\ m \in Nat
        /\ \A k \in 1..c : a[k] = Contents[k]
        /\ a[m] = t
    BY <1>0, <1>4, AppendProperties
  <2>3. ASSUME NEW k \in 1..m PROVE g[k] = a[k]
    <3>1. k - 1 \in 0..c /\ f + k - 1 = f + (k - 1) /\ (k - 1 # c => k \in 1..c)
          /\ (k - 1 = c => k = m)
      BY <1>0
    <3>2. g[k] = IF k - 1 = c THEN t ELSE task_queue[(f + (k - 1)) % QueueSize]
      BY <2>1, <3>1, <1>2
    <3> QED BY <3>1, <3>2, <2>2, <1>4
  <2>4. g = [k \in 1..m |-> g[k]]
    BY <2>1
  <2> HIDE DEF g, a, m
  <2>5. g = a
    BY <2>2, <2>3, <2>4, FunctionIsSeq
  <2> QED BY <2>5 DEF g, a
<1>6. accepted' = started' \o Contents'
  <2>1. accepted' = Append(started \o Contents, t) /\ started' = started
    BY DEF Inv, ExactlyOnceInOrder, AddAccepted, Add
  <2>2. started \in Seq(Task)
    BY DEF Inv, TypeOK
  <2> QED BY <2>1, <2>2, <1>4, <1>5, AppendBehind
<1> QED BY <1>3, <1>6 DEF ExactlyOnceInOrder

\* A worker takes the oldest task.
LEMMA TakeRemoves ==
    ASSUME Inv, NEW w \in Workers, WorkerLoop(w), WorkerTake(w)
    PROVE  RingInv' /\ ExactlyOnceInOrder'
<1> DEFINE f == queue_front
           c == queue_count
<1>0. /\ f \in 0..(QueueSize - 1) /\ f \in Nat /\ c \in Nat /\ c >= 1 /\ c <= QueueSize
      /\ QueueSize \in Nat \ {0}
      /\ queue_front' = (f + 1) % QueueSize /\ queue_count' = c - 1
      /\ queue_rear' = (f + c) % QueueSize /\ task_queue' = task_queue
  BY Sizes DEF Inv, TypeOK, RingInv, WorkerTake
<1>1. ASSUME NEW k \in 0..(c - 1)
      PROVE  (queue_front' + k) % QueueSize = (f + (k + 1)) % QueueSize
  <2>1. /\ f + 1 \in 0 .. 2 * QueueSize - 1 /\ f + (k + 1) \in 0 .. 2 * QueueSize - 1
        /\ k <= QueueSize - 1
    BY <1>0
  <2>2. queue_front' = IF f + 1 < QueueSize THEN f + 1 ELSE f + 1 - QueueSize
    BY <1>0, <2>1, WithinTwoLaps
  <2>3. queue_front' + k \in 0 .. 2 * QueueSize - 1
    BY <1>0, <2>1, <2>2
  <2>4. /\ (queue_front' + k) % QueueSize =
             IF queue_front' + k < QueueSize THEN queue_front' + k ELSE queue_front' + k - QueueSize
        /\ (f + (k + 1)) % QueueSize =
             IF f + (k + 1) < QueueSize THEN f + (k + 1) ELSE f + (k + 1) - QueueSize
    BY <1>0, <2>1, <2>2, <2>3, WithinTwoLaps
  <2> QED BY <1>0, <2>1, <2>2, <2>4
<1>2. RingInv'
  <2>1. queue_rear' = (queue_front' + queue_count') % QueueSize
    <3>1. c - 1 \in 0..(c - 1) /\ f + (c - 1 + 1) = f + c
      BY <1>0
    <3> QED BY <1>0, <1>1, <3>1
  <2>2. ASSUME NEW k \in 0..(c - 1 - 1)
        PROVE  task_queue[(queue_front' + k) % QueueSize] \in Task
    <3>1. k \in 0..(c - 1) /\ k + 1 \in 0..(c - 1)
      BY <1>0
    <3>2. task_queue[(f + (k + 1)) % QueueSize] \in Task
      BY <3>1 DEF Inv, RingInv
    <3> QED BY <3>1, <3>2, <1>1
  <2> QED BY <1>0, <2>1, <2>2 DEF RingInv
<1>3. /\ Contents \in Seq(Task) /\ Len(Contents) = c
      /\ \A k \in 1..c : Contents[k] = task_queue[(f + (k - 1)) % QueueSize]
  BY ContentsType
<1>4. Contents # << >>
  BY <1>0, <1>3
<1>5. Head(Contents) = task_queue[f]
  <2>1. 1 \in 1..c /\ (f + (1 - 1)) % QueueSize = f
    BY <1>0
  <2>2. Contents[1] = task_queue[f]
    BY <1>3, <2>1
  <2> QED BY <1>3, <1>4, <2>2
<1>6. Contents' = Tail(Contents)
  <2> DEFINE g == Contents'
             a == Tail(Contents)
             m == c - 1
  <2>1. g = [k \in 1..m |-> task_queue[(queue_front' + k - 1) % QueueSize]]
    BY <1>0 DEF Contents
  <2>2. /\ a \in Seq(Task) /\ Len(a) = m /\ m \in Nat
        /\ \A k \in 1..m : a[k] = Contents[k + 1]
    BY <1>0, <1>3, <1>4, HeadTailProperties
  <2>3. ASSUME NEW k \in 1..m PROVE g[k] = a[k]
    <3>1. /\ k - 1 \in 0..(c - 1) /\ k - 1 + 1 = k /\ k + 1 \in 1..c /\ (k + 1) - 1 = k
          /\ queue_front' + k - 1 = queue_front' + (k - 1)
      <4>1. queue_front' \in Int
        BY <1>0
      <4> QED BY <1>0, <4>1
    <3>2. g[k] = task_queue[(f + k) % QueueSize]
      BY <2>1, <3>1, <1>1
    <3>3. Contents[k + 1] = task_queue[(f + k) % QueueSize]
      BY <1>3, <3>1
    <3> QED BY <2>2, <3>2, <3>3
  <2>4. g = [k \in 1..m |-> g[k]]
    BY <2>1
  <2> HIDE DEF g, a, m
  <2>5. g = a
    BY <2>2, <2>3, <2>4, FunctionIsSeq
  <2> QED BY <2>5 DEF g, a
<1>7. accepted' = started' \o Contents'
  <2>1. /\ accepted' = started \o Contents
        /\ started' = Append(started, Head(Contents))
    BY <1>5 DEF Inv, ExactlyOnceInOrder, WorkerTake, WorkerLoop
  <2>2. started \in Seq(Task)
    BY DEF Inv, TypeOK
  <2> QED BY <2>1, <2>2, <1>3, <1>4, <1>6, MoveAcross
<1> QED BY <1>2, <1>7 DEF ExactlyOnceInOrder

\* Nobody else touches the ring.
LEMMA NextRing == ASSUME Inv, [Next]_vars PROVE RingInv' /\ ExactlyOnceInOrder'
<1>1. ASSUME UNCHANGED <<queueVars, accepted, started>>
      PROVE  RingInv' /\ ExactlyOnceInOrder'
  BY <1>1 DEF Inv, RingInv, ExactlyOnceInOrder, Contents, queueVars
<1>2. CASE Create \/ UNCHANGED vars
  BY <1>1, <1>2 DEF Create, CreateThread, CreateFail, vars, histVars, queueVars
<1>3. ASSUME NEW t \in Task, Add(t) PROVE RingInv' /\ ExactlyOnceInOrder'
  <2>1. CASE AddRejected
    BY <1>1, <1>3, <2>1 DEF Add, AddRejected
  <2> QED BY <1>3, <2>1, AddAppends DEF Add
<1>4. ASSUME NEW w \in Workers, WorkerLoop(w) PROVE RingInv' /\ ExactlyOnceInOrder'
  <2>1. CASE WorkerWait(w) \/ WorkerLeave(w)
    BY <1>1, <1>4, <2>1 DEF WorkerLoop, WorkerWait, WorkerLeave
  <2> QED BY <1>4, <2>1, TakeRemoves DEF WorkerLoop
<1>5. ASSUME NEW w \in Workers,
             WorkerFinishTask(w) \/ WorkerUnlockAndExit(w) \/ SpuriousWakeup(w)
      PROVE  RingInv' /\ ExactlyOnceInOrder'
  BY <1>1, <1>5 DEF WorkerFinishTask, WorkerUnlockAndExit, SpuriousWakeup, histVars
<1>6. ASSUME NEW d \in Destroyers, DestroyBegin(d) \/ DestroyFreed(d) \/ DestroyStep(d)
      PROVE  RingInv' /\ ExactlyOnceInOrder'
  BY <1>1, <1>6 DEF DestroyBegin, DestroyFreed, DestroyStep, DestroyJoinTest,
                    DestroyJoin, FreeTest, FreePool, histVars
<1> QED BY <1>2, <1>3, <1>4, <1>5, <1>6 DEF Next, WorkerStep

-----------------------------------------------------------------------------
(* The theorems *)

\* Every step keeps the control part of the invariant.
LEMMA NextControl == ASSUME Inv, [Next]_vars PROVE Control'
<1>1. CASE UNCHANGED vars
  BY <1>1 DEF vars, Inv, Control, TypeOK, CreationInv, LockInv, DestroyInv,
              NobodySleepsThroughShutdown, FreeIsSafe, Waiting, Counted
<1> QED BY <1>1, CreateControl, AddControl, WorkerLoopControl, OtherWorkerControl,
           DestroyBeginControl, DestroyStepControl
        DEF Next, WorkerStep

\* threadpool.c keeps its counters, its mutex, its memory and its ring consistent
\* with what every thread is doing, for any number of threads.
THEOREM Invariance == Spec => []Inv
<1>1. Init => Inv
  BY InitInv
<1>2. Inv /\ [Next]_vars => Inv'
  BY NextControl, NextCounts, NextWakes, NextRing DEF Inv, Control
<1> QED BY <1>1, <1>2, PTL DEF Spec

\* Every field of the pool keeps its type and range.
THEOREM TypeCorrect == Spec => []TypeOK
<1>1. Inv => TypeOK
  BY DEF Inv
<1> QED BY <1>1, Invariance, PTL

\* Tasks accepted by threadpool_add are started once each, in order.
THEOREM OnceInOrder == Spec => []ExactlyOnceInOrder
<1>1. Inv => ExactlyOnceInOrder
  BY DEF Inv
<1> QED BY <1>1, Invariance, PTL

\* One signal per task is enough: no task waits for a worker that sleeps.
THEOREM WakeupsSuffice == Spec => []NoLostWakeup
<1>1. Inv => NoLostWakeup
  BY DEF Inv
<1> QED BY <1>1, Invariance, PTL

\* Nobody sleeps on the condition variable of a pool that is being destroyed.
THEOREM ShutdownReachesAll == Spec => []NobodySleepsThroughShutdown
<1>1. Inv => NobodySleepsThroughShutdown
  BY DEF Inv
<1> QED BY <1>1, Invariance, PTL

\* The counter that threadpool_destroy and threadpool_free read is exact.
THEOREM CountIsExact == Spec => []ThreadCountExact
<1>1. Inv => ThreadCountExact
  BY DEF Inv
<1> QED BY <1>1, Invariance, PTL

\* threadpool_free never takes memory or the mutex away from a worker.
THEOREM NoUseAfterFree == Spec => []FreeIsSafe
<1>1. Inv => FreeIsSafe
  BY DEF Inv
<1> QED BY <1>1, Invariance, PTL
=============================================================================

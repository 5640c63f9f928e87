------------------------- MODULE ProcessPoolProofs -------------------------
(***************************************************************************)
(* Proofs about ProcessPool, for every number of workers, tasks, faults    *)
(* and processes and every capacity of the queue:                          *)
(*                                                                         *)
(*   types, and what every write to a worker structure leaves alone;       *)
(*   descriptors: a number that is open is remembered by one worker of     *)
(*     the structure, so the ends that create_worker_process opened are    *)
(*     closed by destroy and by its own error paths;                       *)
(*   places: the queue, the pipes, the processes' hands and the results    *)
(*     as one table, in which a step moves one task, takes one out or      *)
(*     adds one with a new number, so that none is in two places;          *)
(*   structure: what the numbers in a worker structure refer to.  They are *)
(*     the worker's own pipes, but for one worker at a time after a fault  *)
(*     in a forked runner;                                                 *)
(*   loads: the tasks between a worker and the master, at most one for a   *)
(*     process while its status says so.                                   *)
(***************************************************************************)
EXTENDS ProcessPool, FiniteSetTheorems, SequenceTheorems, WellFoundedInduction, TLAPS

PoolRecord == [queue : Seq(TaskIds), running : BOOLEAN, workers : [Workers -> WorkerRecord]]

(* The parts of TypeOK, with the domains of the functions it leaves out. *)
PoolTypes ==
    /\ pool \in [Masters -> PoolRecord]
    /\ \A m \in Masters : Len(pool[m].queue) <= MaxQueue
    /\ next_task_id \in 1..(MaxTasks + 1)
    /\ fdtab \in [Masters -> [Fds -> Ends \cup {Closed}]]
KernelTypes ==
    /\ forks \in 0..MaxPids
    /\ proc \in [Pids -> {"none", "up", "zombie", "gone"}]
    /\ parent \in [Pids -> Masters]
    /\ hold \in [Pids -> SUBSET Ends]
    /\ toQ \in [Pids -> Seq(TaskIds)] /\ fromQ \in [Pids -> Seq(TaskIds)]
    /\ work \in [Pids -> 0..MaxTasks]
PlaceTypes ==
    /\ forked \in Forking
    /\ cpc \in {"create", "undo", "ready", "destroy", "freed"}
    /\ ci \in 1..(NumWorkers + 1) /\ (cpc = "create" => ci \in Workers)
    /\ rpc \in {"called", "test", "reap", "restart", "create", "dispatch", "sent", "ended"}
    /\ ri \in Workers
    /\ snd \in [w : Workers, task : 0..MaxTasks, ok : BOOLEAN]
    /\ (rpc = "sent" => snd.task \in TaskIds)
    /\ gpc \in {"none", "scan", "read", "mark"}
    /\ gi \in 1..(NumWorkers + 1) /\ (gpc \in {"read", "mark"} => gi \in Workers)
    /\ gset \subseteq Fds
    /\ gres \in 0..MaxTasks
    /\ should_exit \in BOOLEAN
    /\ delivered \in Seq(TaskIds)
    /\ faults \in 0..MaxFaults
Types == PoolTypes /\ KernelTypes /\ PlaceTypes

-----------------------------------------------------------------------------
(* Writing one worker structure, one queue, one flag of one master.         *)
WorkerWritten(m, w, r) == pool' = [pool EXCEPT ![m].workers[w] = r]
OnlyWorker(m, w, r) ==
    /\ pool' \in [Masters -> PoolRecord]
    /\ pool'[m].workers[w] = r
    /\ \A n \in Masters : pool'[n].queue = pool[n].queue /\ pool'[n].running = pool[n].running
    /\ \A n \in Masters : n # m => pool'[n] = pool[n]
    /\ \A v \in Workers : v # w => pool'[m].workers[v] = pool[m].workers[v]

LEMMA SetWorker ==
    ASSUME Types, NEW m \in Masters, NEW w \in Workers, NEW r \in WorkerRecord,
           WorkerWritten(m, w, r)
    PROVE  OnlyWorker(m, w, r)
  BY DEF Types, PoolTypes, PoolRecord, WorkerWritten, OnlyWorker

LEMMA SetQueue ==
    ASSUME Types, NEW m \in Masters, NEW q \in Seq(TaskIds),
           pool' = [pool EXCEPT ![m].queue = q]
    PROVE  /\ pool' \in [Masters -> PoolRecord]
           /\ pool'[m].queue = q
           /\ \A n \in Masters : pool'[n].workers = pool[n].workers /\ pool'[n].running = pool[n].running
           /\ \A n \in Masters : n # m => pool'[n] = pool[n]
  BY DEF Types, PoolTypes, PoolRecord

LEMMA SetWorkers ==
    ASSUME Types, NEW m \in Masters, NEW ws \in [Workers -> WorkerRecord],
           pool' = [pool EXCEPT ![m].workers = ws]
    PROVE  /\ pool' \in [Masters -> PoolRecord]
           /\ pool'[m].workers = ws
           /\ \A n \in Masters : pool'[n].queue = pool[n].queue /\ pool'[n].running = pool[n].running
           /\ \A n \in Masters : n # m => pool'[n] = pool[n]
  BY DEF Types, PoolTypes, PoolRecord

LEMMA SetRunning ==
    ASSUME Types, NEW m \in Masters, NEW b \in BOOLEAN,
           pool' = [pool EXCEPT ![m].running = b]
    PROVE  /\ pool' \in [Masters -> PoolRecord]
           /\ pool'[m].running = b
           /\ \A n \in Masters : pool'[n].queue = pool[n].queue /\ pool'[n].workers = pool[n].workers
           /\ \A n \in Masters : n # m => pool'[n] = pool[n]
  BY DEF Types, PoolTypes, PoolRecord

(* Writing a queue and worker structures in one step, as dispatch_tasks does. *)
LEMMA SetBoth ==
    ASSUME Types, NEW m \in Masters, NEW q \in Seq(TaskIds), NEW ws \in [Workers -> WorkerRecord],
           pool' = [pool EXCEPT ![m].queue = q, ![m].workers = ws]
    PROVE  /\ pool' \in [Masters -> PoolRecord]
           /\ pool'[m].queue = q /\ pool'[m].workers = ws
           /\ \A n \in Masters : pool'[n].running = pool[n].running
           /\ \A n \in Masters : n # m => pool'[n] = pool[n]
  BY DEF Types, PoolTypes, PoolRecord

LEMMA RunnerIsMaster == Runner \in Masters
  BY DEF Runner, Masters

LEMMA StatusRecord ==
    ASSUME NEW r \in WorkerRecord, NEW s \in Status
    PROVE  [r EXCEPT !.status = s] \in WorkerRecord
  BY DEF WorkerRecord

LEMMA ForgottenRecord ==
    ASSUME NEW r \in WorkerRecord
    PROVE  /\ Forgotten(r) \in WorkerRecord
           /\ \A p \in {None, r.pid} : Forgotten([r EXCEPT !.pid = p]) \in WorkerRecord
           /\ [r EXCEPT !.status = "DEAD", !.pid = None] \in WorkerRecord
           /\ Forgotten(r).pid = r.pid /\ Forgotten(r).status = r.status
  BY DEF WorkerRecord, Forgotten, Status

LEMMA BlankRecord == Blank \in WorkerRecord /\ [Blank EXCEPT !.status = "DEAD"] \in WorkerRecord
  BY DEF WorkerRecord, Blank, Status

(* The least element of a set of numbers. *)
LEMMA LeastIs ==
    ASSUME NEW S \in SUBSET Int, NEW x \in S, \A y \in S : x <= y
    PROVE  Min(S) = x
<1> DEFINE m == CHOOSE z \in S : \A y \in S : z <= y
<1>1. m \in S /\ \A y \in S : m <= y
  OBVIOUS
<1>2. Min(S) = m
  BY DEF Min
<1> HIDE DEF m
<1>3. m <= x /\ x <= m /\ m \in Int /\ x \in Int
  BY <1>1
<1>4. m = x
  BY <1>3
<1> QED
  BY <1>2, <1>4

LEMMA LeastExists ==
    ASSUME NEW S \in SUBSET Nat, S # {}
    PROVE  \E x \in S : \A y \in S : x <= y
<1> DEFINE R == OpToRel(<, Nat)
<1>1. IsWellFoundedOn(R, Nat)
  BY NatLessThanWellFounded
<1>2. \A x, y \in Nat : <<y, x>> \in R <=> y < x
  BY DEF OpToRel
<1> HIDE DEF R
<1>3. PICK x \in S : \A y \in S : ~(<<y, x>> \in R)
  BY <1>1, WFMin
<1>4. \A y \in S : ~(y < x)
  BY <1>2, <1>3, Zenon
<1>5. \A y \in S : y \in Int /\ x \in Int
  OBVIOUS
<1>6. \A y \in S : x <= y
  BY <1>4, <1>5
<1> QED
  BY <1>6

(* x is the least element of S. *)
Least(x, S) == x \in S /\ \A y \in S : x <= y

LEMMA LeastMin ==
    ASSUME NEW S \in SUBSET Nat, S # {}
    PROVE  Least(Min(S), S)
<1>1. PICK x \in S : \A y \in S : x <= y
  BY LeastExists
<1>2. Min(S) = x
  BY <1>1, LeastIs
<1> QED
  BY <1>1, <1>2 DEF Least

LEMMA LeastUnique ==
    ASSUME NEW S \in SUBSET Nat, NEW x, NEW y, Least(x, S), Least(y, S)
    PROVE  x = y
<1>1. x \in Nat /\ y \in Nat /\ x <= y /\ y <= x
  BY DEF Least
<1> QED
  BY <1>1

(* What a successful create_worker_process does: the four numbers it takes  *)
(* are the lowest free ones, in turn.                                       *)
Took(m, w, a, b, c, d) ==
    LET free == {f \in Fds : fdtab[m][f] = Closed} IN
    /\ Least(a, free) /\ Least(b, free \ {a})
    /\ Least(c, free \ {a, b}) /\ Least(d, free \ {a, b, c})
    /\ fdtab' = [fdtab EXCEPT ![m][b] = <<"to", forks + 1, "w">>,
                              ![m][c] = <<"from", forks + 1, "r">>]
    /\ pool' = [pool EXCEPT ![m].workers[w] =
                    [pid |-> forks + 1, status |-> "IDLE",
                     toR |-> a, toW |-> b, fromR |-> c, fromW |-> d]]

LEMMA Spawned ==
    ASSUME NEW m \in Masters, NEW w \in Workers, create_worker_process(m, w)
    PROVE  \E a, b, c, d \in Fds : Took(m, w, a, b, c, d)
<1> DEFINE S == {f \in Fds : fdtab[m][f] = Closed}
           a == Min(S)
           b == Min(S \ {a})
           c == Min(S \ {a, b})
           d == Min(S \ {a, b, c})
<1>1. /\ fdtab' = [fdtab EXCEPT ![m][b] = <<"to", forks + 1, "w">>,
                                ![m][c] = <<"from", forks + 1, "r">>]
      /\ pool' = [pool EXCEPT ![m].workers[w] =
                    [pid |-> forks + 1, status |-> "IDLE",
                     toR |-> a, toW |-> b, fromR |-> c, fromW |-> d]]
      /\ Cardinality(S) >= 4
  BY DEF create_worker_process, SpawnKeeping
<1>2. S \in SUBSET Nat /\ S \subseteq Fds /\ Fds \subseteq Nat
  BY DEF Fds
<1>3. IsFiniteSet(S)
  <2>1. IsFiniteSet(Fds)
    BY PoolAssumption, FS_Interval DEF Fds
  <2> QED
    BY <1>2, <2>1, FS_Subset
<1> HIDE DEF S
<1>5. S # {}
  BY <1>1, <1>3, FS_EmptySet
<1>6. Least(a, S)
  BY <1>2, <1>5, LeastMin
<1>7. a \in S
  BY <1>6 DEF Least
<1> HIDE DEF a
<1>8. IsFiniteSet(S \ {a}) /\ Cardinality(S \ {a}) = Cardinality(S) - 1
  BY <1>3, <1>7, FS_RemoveElement
<1>9. Cardinality(S) \in Nat
  BY <1>3, FS_CardinalityType
<1>10. S \ {a} # {}
  BY <1>1, <1>8, <1>9, FS_EmptySet
<1>11. Least(b, S \ {a})
  BY <1>2, <1>10, LeastMin
<1>12. b \in S \ {a}
  BY <1>11 DEF Least
<1> HIDE DEF b
<1>13. S \ {a, b} = (S \ {a}) \ {b}
  OBVIOUS
<1>14. IsFiniteSet(S \ {a, b}) /\ Cardinality(S \ {a, b}) = Cardinality(S \ {a}) - 1
  BY <1>8, <1>12, <1>13, FS_RemoveElement
<1>15. Cardinality(S \ {a, b}) >= 2
  BY <1>1, <1>8, <1>9, <1>14
<1>16. S \ {a, b} # {}
  BY <1>15, FS_EmptySet
<1>17. Least(c, S \ {a, b})
  BY <1>2, <1>16, LeastMin
<1>18. c \in S \ {a, b}
  BY <1>17 DEF Least
<1> HIDE DEF c
<1>19. S \ {a, b, c} = (S \ {a, b}) \ {c}
  OBVIOUS
<1>20. /\ IsFiniteSet(S \ {a, b, c})
       /\ Cardinality(S \ {a, b, c}) = Cardinality(S \ {a, b}) - 1
  BY <1>14, <1>18, <1>19, FS_RemoveElement
<1>21. Cardinality(S \ {a, b}) \in Nat
  BY <1>14, FS_CardinalityType
<1>22. Cardinality(S \ {a, b, c}) >= 1
  BY <1>15, <1>20, <1>21
<1>26. S \ {a, b, c} # {}
  BY <1>22, FS_EmptySet
<1>23. Least(d, S \ {a, b, c})
  BY <1>2, <1>26, LeastMin
<1>24. d \in S \ {a, b, c}
  BY <1>23 DEF Least
<1> HIDE DEF d
<1>25. Took(m, w, a, b, c, d)
  BY <1>1, <1>6, <1>11, <1>17, <1>23 DEF Took, S
<1> QED
  BY <1>2, <1>7, <1>12, <1>18, <1>24, <1>25

-----------------------------------------------------------------------------
(* What the operators of the actions give, in the form the proofs use.      *)

LEMMA WorkerOf ==
    ASSUME Types, NEW m \in Masters, NEW w \in Workers
    PROVE  /\ pool[m] \in PoolRecord /\ pool[m].workers \in [Workers -> WorkerRecord]
           /\ pool[m].workers[w] \in WorkerRecord
           /\ pool[m].queue \in Seq(TaskIds)
  BY DEF Types, PoolTypes, PoolRecord

LEMMA EntryType ==
    ASSUME Types, NEW m \in Masters, NEW f \in Fds \cup {None}
    PROVE  /\ Entry(m, f) \in Ends \cup {Closed}
           /\ Entry(m, f) # Closed => Entry(m, f)[2] \in Pids
<1>1. Entry(m, f) \in Ends \cup {Closed}
  BY DEF Types, PoolTypes, Entry
<1>2. \A e \in Ends : e[2] \in Pids
  BY DEF Ends
<1> QED
  BY <1>1, <1>2

(* Setting the status of one worker. *)
LEMMA SetStatus ==
    ASSUME Types, NEW m \in Masters, NEW w \in Workers, NEW s \in Status,
           WorkerWritten(m, w, [pool[m].workers[w] EXCEPT !.status = s])
    PROVE  OnlyWorker(m, w, [pool[m].workers[w] EXCEPT !.status = s])
<1>1. [pool[m].workers[w] EXCEPT !.status = s] \in WorkerRecord
  BY WorkerOf, StatusRecord
<1> QED
  BY <1>1, SetWorker

LEMMA EnqueueType ==
    ASSUME NEW q \in Seq(TaskIds), NEW t \in TaskIds, Len(q) <= MaxQueue
    PROVE  Enqueue(q, t) \in Seq(TaskIds) /\ Len(Enqueue(q, t)) <= MaxQueue
  BY PoolAssumption DEF Enqueue

LEMMA TailType ==
    ASSUME NEW q \in Seq(TaskIds), q # << >>
    PROVE  Head(q) \in TaskIds /\ Tail(q) \in Seq(TaskIds) /\ Len(Tail(q)) = Len(q) - 1
  OBVIOUS

LEMMA MarkedRecords ==
    ASSUME Types, NEW m \in Masters, NEW dead
    PROVE  /\ MarkReaped(pool[m].workers, dead) \in [Workers -> WorkerRecord]
           /\ MarkGone(m, pool[m].workers) \in [Workers -> WorkerRecord]
<1>1. \A w \in Workers : /\ pool[m].workers[w] \in WorkerRecord
                         /\ [pool[m].workers[w] EXCEPT !.status = "DEAD", !.pid = None] \in WorkerRecord
                         /\ [pool[m].workers[w] EXCEPT !.status = "DEAD"] \in WorkerRecord
  BY WorkerOf, ForgottenRecord, StatusRecord DEF Status
<1> QED
  BY <1>1 DEF MarkReaped, MarkGone

(* dispatch_tasks' find_idle_worker and write. *)
LEMMA SendEffect ==
    ASSUME Types, DispatchSend
    PROVE  \E w \in Workers, t \in TaskIds, ok \in BOOLEAN, k \in Pids :
             /\ w \in IdleAlive(Runner)
             /\ pool[Runner].queue # << >> /\ t = Head(pool[Runner].queue)
             /\ LET e == Entry(Runner, pool[Runner].workers[w].toW) IN
                  /\ ok <=> e # Closed /\ e[3] = "w" /\ Held(<<e[1], e[2], "r">>)
                  /\ ok => e \in Ends /\ e[2] = k
             /\ toQ' = IF ok THEN [toQ EXCEPT ![k] = Append(toQ[k], t)] ELSE toQ
             /\ snd' = [w |-> w, task |-> t, ok |-> ok]
             /\ pool' \in [Masters -> PoolRecord]
             /\ pool'[Runner].queue = Tail(pool[Runner].queue)
             /\ pool'[Runner].workers = MarkGone(Runner, pool[Runner].workers)
             /\ \A n \in Masters : pool'[n].running = pool[n].running
             /\ \A n \in Masters : n # Runner => pool'[n] = pool[n]
<1> DEFINE w == Min(IdleAlive(Runner))
           e == Entry(Runner, pool[Runner].workers[w].toW)
           ok == e # Closed /\ e[3] = "w" /\ Held(<<e[1], e[2], "r">>)
           t == Head(pool[Runner].queue)
           k == IF ok THEN e[2] ELSE 1
<1>1. /\ pool[Runner].queue # << >> /\ IdleAlive(Runner) # {}
      /\ pool' = [pool EXCEPT ![Runner].queue = Tail(pool[Runner].queue),
                              ![Runner].workers = MarkGone(Runner, pool[Runner].workers)]
      /\ toQ' = IF ok THEN [toQ EXCEPT ![e[2]] = Append(@, t)] ELSE toQ
      /\ snd' = [w |-> w, task |-> t, ok |-> ok]
  BY RunnerIsMaster DEF DispatchSend, Types, PoolTypes, PoolRecord
<1>2. IdleAlive(Runner) \subseteq Workers /\ Workers \subseteq Nat
  BY DEF IdleAlive, Idle, Workers
<1>3. w \in IdleAlive(Runner)
  BY <1>1, <1>2, LeastMin DEF Least
<1>4. w \in Workers
  BY <1>2, <1>3
<1> HIDE DEF w
<1>5. t \in TaskIds /\ Tail(pool[Runner].queue) \in Seq(TaskIds)
  BY <1>1, <1>4, RunnerIsMaster, WorkerOf, TailType
<1>6. e \in Ends \cup {Closed} /\ (e # Closed => e[2] \in Pids)
  <2>1. pool[Runner].workers[w].toW \in Fds \cup {None}
    BY <1>4, RunnerIsMaster, WorkerOf DEF WorkerRecord
  <2> QED
    BY <2>1, EntryType, RunnerIsMaster
<1> HIDE DEF e
<1>7. PICK m \in Masters, ws \in [Workers -> WorkerRecord], q \in Seq(TaskIds) :
          /\ m = Runner /\ ws = MarkGone(Runner, pool[Runner].workers)
          /\ q = Tail(pool[Runner].queue)
  BY <1>5, RunnerIsMaster, MarkedRecords
<1>12. pool' = [pool EXCEPT ![m].queue = q, ![m].workers = ws]
  BY <1>1, <1>7
<1>13. /\ pool' \in [Masters -> PoolRecord]
       /\ pool'[m].queue = q /\ pool'[m].workers = ws
       /\ \A n \in Masters : pool'[n].running = pool[n].running
       /\ \A n \in Masters : n # m => pool'[n] = pool[n]
  BY <1>12, SetBoth
<1>8. /\ pool' \in [Masters -> PoolRecord]
      /\ pool'[Runner].queue = Tail(pool[Runner].queue)
      /\ pool'[Runner].workers = MarkGone(Runner, pool[Runner].workers)
      /\ \A n \in Masters : pool'[n].running = pool[n].running
      /\ \A n \in Masters : n # Runner => pool'[n] = pool[n]
  BY <1>7, <1>13
<1>9. ok \in BOOLEAN /\ (ok => e \in Ends /\ e[2] \in Pids)
  BY <1>6
<1> HIDE DEF ok
<1>10. CASE ok
  BY <1>1, <1>3, <1>4, <1>5, <1>8, <1>9, <1>10 DEF ok, e
<1>11. CASE ~ok
  <2>1. \/ Pids # {}
        \/ Pids = {}
    OBVIOUS
  <2>2. Pids # {}
    <3>1. pool[Runner].workers[w].pid \in Pids
      BY <1>3, <1>4, RunnerIsMaster, WorkerOf DEF IdleAlive, Idle, WorkerRecord
    <3> QED
      BY <3>1
  <2>3. PICK j \in Pids : TRUE
    BY <2>2
  <2> QED
    BY <1>1, <1>3, <1>4, <1>5, <1>8, <1>9, <1>11, <2>3 DEF ok, e
<1> QED
  BY <1>10, <1>11

(* create_worker_process, whether it succeeds or fails. *)
SpawnRecord(a, b, c, d) ==
    [pid |-> forks + 1, status |-> "IDLE", toR |-> a, toW |-> b, fromR |-> c, fromW |-> d]

LEMMA CreateEffect ==
    ASSUME Types, NEW m \in Masters, NEW w \in Workers, create_worker_process(m, w)
    PROVE  /\ forks + 1 \in Pids /\ forks' = forks + 1 /\ forks \in Nat
           /\ proc' = [proc EXCEPT ![forks + 1] = "up"]
           /\ parent' = [parent EXCEPT ![forks + 1] = m]
           /\ hold' = [hold EXCEPT ![forks + 1] = MasterEnds(m) \cup ChildEnds(forks + 1)]
           /\ UNCHANGED <<toQ, fromQ, work>>
           /\ \E a, b, c, d \in Fds :
                /\ Took(m, w, a, b, c, d)
                /\ SpawnRecord(a, b, c, d) \in WorkerRecord
                /\ OnlyWorker(m, w, SpawnRecord(a, b, c, d))
                /\ fdtab' \in [Masters -> [Fds -> Ends \cup {Closed}]]
<1>1. /\ forks + 1 \in Pids /\ forks' = forks + 1 /\ forks \in Nat
      /\ proc' = [proc EXCEPT ![forks + 1] = "up"]
      /\ parent' = [parent EXCEPT ![forks + 1] = m]
      /\ hold' = [hold EXCEPT ![forks + 1] = MasterEnds(m) \cup ChildEnds(forks + 1)]
      /\ UNCHANGED <<toQ, fromQ, work>>
  BY PoolAssumption DEF create_worker_process, SpawnKeeping, Types, KernelTypes, Pids
<1>2. PICK a, b, c, d \in Fds : Took(m, w, a, b, c, d)
  BY Spawned
<1>3. SpawnRecord(a, b, c, d) \in WorkerRecord
  BY <1>1 DEF SpawnRecord, WorkerRecord, Status
<1>4. WorkerWritten(m, w, SpawnRecord(a, b, c, d))
  BY <1>2 DEF Took, SpawnRecord, WorkerWritten
<1>5. fdtab' \in [Masters -> [Fds -> Ends \cup {Closed}]]
  <2>1. <<"to", forks + 1, "w">> \in Ends /\ <<"from", forks + 1, "r">> \in Ends
    BY <1>1 DEF Ends
  <2> QED
    BY <1>2, <2>1 DEF Took, Types, PoolTypes
<1>6. OnlyWorker(m, w, SpawnRecord(a, b, c, d))
  BY <1>3, <1>4, SetWorker
<1> QED
  BY <1>1, <1>2, <1>3, <1>5, <1>6

LEMMA CreateFailsEffect ==
    ASSUME Types, NEW m \in Masters, NEW w \in Workers, CreateWorkerFails(m, w)
    PROVE  /\ faults < MaxFaults /\ faults' = faults + 1
           /\ UNCHANGED <<fdtab, kernelVars>>
           /\ \E p \in {None, pool[m].workers[w].pid} :
                 OnlyWorker(m, w, Forgotten([pool[m].workers[w] EXCEPT !.pid = p]))
<1>1. PICK p \in {None, pool[m].workers[w].pid} :
          pool' = [pool EXCEPT ![m].workers[w] = Forgotten([@ EXCEPT !.pid = p])]
  BY DEF CreateWorkerFails
<1>2. Forgotten([pool[m].workers[w] EXCEPT !.pid = p]) \in WorkerRecord
  BY WorkerOf, ForgottenRecord
<1>3. WorkerWritten(m, w, Forgotten([pool[m].workers[w] EXCEPT !.pid = p]))
  BY <1>1 DEF Types, PoolTypes, PoolRecord, WorkerWritten
<1>4. OnlyWorker(m, w, Forgotten([pool[m].workers[w] EXCEPT !.pid = p]))
  BY <1>2, <1>3, SetWorker
<1>5. faults < MaxFaults /\ faults' = faults + 1 /\ UNCHANGED <<fdtab, kernelVars>>
  BY DEF CreateWorkerFails
<1> QED
  BY <1>4, <1>5

(* restart_dead_worker's closing of the remembered numbers. *)
LEMMA CloseEffect ==
    ASSUME Types, RunClose
    PROVE  /\ OnlyWorker(Runner, ri, Forgotten(pool[Runner].workers[ri]))
           /\ fdtab' = [fdtab EXCEPT ![Runner] = ClosedPairs(Runner, ri)]
           /\ ClosedPairs(Runner, ri) \in [Fds -> Ends \cup {Closed}]
<1>1. ri \in Workers /\ Runner \in Masters
  BY RunnerIsMaster DEF Types, PlaceTypes
<1>2. Forgotten(pool[Runner].workers[ri]) \in WorkerRecord
  BY <1>1, WorkerOf, ForgottenRecord
<1>3. WorkerWritten(Runner, ri, Forgotten(pool[Runner].workers[ri]))
  BY <1>1 DEF RunClose, Types, PoolTypes, PoolRecord, WorkerWritten
<1>4. ClosedPairs(Runner, ri) \in [Fds -> Ends \cup {Closed}]
  BY <1>1 DEF ClosedPairs, Types, PoolTypes
<1>5. OnlyWorker(Runner, ri, Forgotten(pool[Runner].workers[ri]))
  BY <1>1, <1>2, <1>3, SetWorker
<1>6. fdtab' = [fdtab EXCEPT ![Runner] = ClosedPairs(Runner, ri)]
  BY DEF RunClose
<1> QED
  BY <1>4, <1>5, <1>6

(* What dispatch_tasks does after the write. *)
LEMMA MarkEffect ==
    ASSUME Types, DispatchMark
    PROVE  /\ pool' \in [Masters -> PoolRecord] /\ snd.w \in Workers /\ snd.task \in TaskIds
           /\ pool'[Runner].workers[snd.w] =
                [pool[Runner].workers[snd.w] EXCEPT !.status = IF snd.ok THEN "BUSY" ELSE "DEAD"]
           /\ pool'[Runner].queue = IF snd.ok THEN pool[Runner].queue
                                    ELSE Enqueue(pool[Runner].queue, snd.task)
           /\ \A n \in Masters : pool'[n].running = pool[n].running
           /\ \A n \in Masters : n # Runner => pool'[n] = pool[n]
           /\ \A v \in Workers : v # snd.w => pool'[Runner].workers[v] = pool[Runner].workers[v]
<1>1. snd.w \in Workers /\ snd.task \in TaskIds /\ snd.ok \in BOOLEAN /\ Runner \in Masters
  BY RunnerIsMaster DEF Types, PlaceTypes, DispatchMark
<1>2. PICK m \in Masters, w \in Workers, t \in TaskIds : m = Runner /\ w = snd.w /\ t = snd.task
  BY <1>1
<1>3. pool \in [Masters -> PoolRecord] /\ pool[m].workers[w] \in WorkerRecord /\ pool[m].queue \in Seq(TaskIds)
  BY WorkerOf DEF Types, PoolTypes
<1>4. CASE snd.ok
  <2>1. [pool[m].workers[w] EXCEPT !.status = "BUSY"] \in WorkerRecord
    BY WorkerOf, StatusRecord DEF Status
  <2>2. WorkerWritten(m, w, [pool[m].workers[w] EXCEPT !.status = "BUSY"])
    BY <1>2, <1>3, <1>4 DEF DispatchMark, PoolRecord, WorkerWritten
  <2>3. OnlyWorker(m, w, [pool[m].workers[w] EXCEPT !.status = "BUSY"])
    BY <2>1, <2>2, SetWorker
  <2> QED
    BY <1>1, <1>2, <1>4, <2>3 DEF OnlyWorker
<1>5. CASE ~snd.ok
  <2>1. Enqueue(pool[m].queue, t) \in Seq(TaskIds)
    BY <1>3, EnqueueType DEF Types, PoolTypes
  <2>2. [pool[m].workers[w] EXCEPT !.status = "DEAD"] \in WorkerRecord
    BY WorkerOf, StatusRecord DEF Status
  <2>3. PICK q \in Seq(TaskIds), ws \in [Workers -> WorkerRecord] :
            /\ q = Enqueue(pool[m].queue, t)
            /\ ws = [pool[m].workers EXCEPT ![w] = [pool[m].workers[w] EXCEPT !.status = "DEAD"]]
    BY <1>3, <2>1, <2>2 DEF PoolRecord
  <2>4. pool' = [pool EXCEPT ![m].queue = q, ![m].workers = ws]
    BY <1>2, <1>3, <1>5, <2>3 DEF DispatchMark, PoolRecord
  <2>5. /\ pool' \in [Masters -> PoolRecord]
        /\ pool'[m].queue = q /\ pool'[m].workers = ws
        /\ \A n \in Masters : pool'[n].running = pool[n].running
        /\ \A n \in Masters : n # m => pool'[n] = pool[n]
    BY <2>4, SetBoth
  <2>6. /\ ws[w] = [pool[m].workers[w] EXCEPT !.status = "DEAD"]
        /\ \A v \in Workers : v # w => ws[v] = pool[m].workers[v]
    BY <1>3, <2>3 DEF PoolRecord
  <2> QED
    BY <1>1, <1>2, <1>5, <2>3, <2>5, <2>6
<1> QED
  BY <1>4, <1>5

(* terminate_worker_process. *)
LEMMA TerminateEffect ==
    ASSUME Types, TerminateWorker
    PROVE  /\ ci \in Workers
           /\ OnlyWorker("client", ci, [Blank EXCEPT !.status = "DEAD"])
           /\ ClosedPairs("client", ci) \in [Fds -> Ends \cup {Closed}]
<1>1. ci \in Workers /\ "client" \in Masters
  BY DEF TerminateWorker, Masters
<1>2. WorkerWritten("client", ci, [Blank EXCEPT !.status = "DEAD"])
  BY DEF TerminateWorker, WorkerWritten
<1>3. ClosedPairs("client", ci) \in [Fds -> Ends \cup {Closed}]
  BY <1>1 DEF ClosedPairs, Types, PoolTypes
<1>4. OnlyWorker("client", ci, [Blank EXCEPT !.status = "DEAD"])
  BY <1>1, <1>2, BlankRecord, SetWorker
<1> QED
  BY <1>1, <1>3, <1>4

(* process_pool_run begins. *)
LEMMA BeginEffect ==
    ASSUME Types, RunBegin
    PROVE  /\ pool' \in [Masters -> PoolRecord]
           /\ pool'[Runner] = [pool["client"] EXCEPT !.running = TRUE]
           /\ \A n \in Masters : n # Runner => pool'[n] = pool[n]
           /\ fdtab' \in [Masters -> [Fds -> Ends \cup {Closed}]]
           /\ fdtab'[Runner] = fdtab["client"]
           /\ \A n \in Masters : n # Runner => fdtab'[n] = fdtab[n]
<1>1. Runner \in Masters /\ "client" \in Masters
  BY RunnerIsMaster DEF Masters
<1>2. [pool["client"] EXCEPT !.running = TRUE] \in PoolRecord
  BY <1>1 DEF PoolRecord, Types, PoolTypes
<1> QED
  BY <1>1, <1>2 DEF RunBegin, Types, PoolTypes

(* reap_dead_children marks workers and nothing else. *)
LEMMA ReapEffect ==
    ASSUME Types, NEW m \in Masters, reap_dead_children(m)
    PROVE  /\ pool' \in [Masters -> PoolRecord]
           /\ pool'[m].workers = MarkReaped(pool[m].workers, Zombies(m))
           /\ \A n \in Masters : pool'[n].queue = pool[n].queue /\ pool'[n].running = pool[n].running
           /\ \A n \in Masters : n # m => pool'[n] = pool[n]
<1>1. MarkReaped(pool[m].workers, Zombies(m)) \in [Workers -> WorkerRecord]
  BY MarkedRecords
<1>2. pool' = [pool EXCEPT ![m].workers = MarkReaped(pool[m].workers, Zombies(m))]
  BY DEF reap_dead_children
<1> QED
  BY <1>1, <1>2, SetWorkers

(* dispatch_tasks finds nobody. *)
LEMMA DoneEffect ==
    ASSUME Types, DispatchDone
    PROVE  /\ pool' \in [Masters -> PoolRecord]
           /\ pool'[Runner].workers \in {pool[Runner].workers, MarkGone(Runner, pool[Runner].workers)}
           /\ \A n \in Masters : pool'[n].queue = pool[n].queue /\ pool'[n].running = pool[n].running
           /\ \A n \in Masters : n # Runner => pool'[n] = pool[n]
<1>1. Runner \in Masters /\ MarkGone(Runner, pool[Runner].workers) \in [Workers -> WorkerRecord]
  BY RunnerIsMaster, MarkedRecords
<1>2. \/ pool' = pool
      \/ pool' = [pool EXCEPT ![Runner].workers = MarkGone(Runner, pool[Runner].workers)]
  BY <1>1 DEF DispatchDone
<1>3. pool \in [Masters -> PoolRecord]
  BY DEF Types, PoolTypes
<1> QED
  BY <1>1, <1>2, <1>3, SetWorkers

(* A status set after the read of a result. *)
LEMMA GetMarkEffect ==
    ASSUME Types, GetMark
    PROVE  /\ gi \in Workers
           /\ OnlyWorker("client", gi,
                   [pool["client"].workers[gi] EXCEPT !.status = IF gres = 0 THEN "DEAD" ELSE "IDLE"])
<1>1. gi \in Workers /\ "client" \in Masters
  BY DEF GetMark, Types, PlaceTypes, Masters
<1>2. (IF gres = 0 THEN "DEAD" ELSE "IDLE") \in Status
  BY DEF Status
<1>3. WorkerWritten("client", gi, [pool["client"].workers[gi] EXCEPT !.status = IF gres = 0 THEN "DEAD" ELSE "IDLE"])
  BY <1>1 DEF GetMark, Types, PoolTypes, PoolRecord, WorkerWritten
<1>4. OnlyWorker("client", gi,
              [pool["client"].workers[gi] EXCEPT !.status = IF gres = 0 THEN "DEAD" ELSE "IDLE"])
  BY <1>1, <1>2, <1>3, SetStatus
<1> QED
  BY <1>1, <1>4

(* The read of a result: the descriptor's result pipe, if it is one. *)
LEMMA GetReadEffect ==
    ASSUME Types, GetRead
    PROVE  /\ gi \in Workers
           /\ LET e == Entry("client", pool["client"].workers[gi].fromR) IN
                \/ /\ e \in Ends /\ e[2] \in Pids /\ gpc' = "mark" /\ gi' = gi
                   /\ \/ fromQ[e[2]] = << >> /\ gres' = 0 /\ fromQ' = fromQ
                      \/ /\ fromQ[e[2]] # << >> /\ gres' = Head(fromQ[e[2]])
                         /\ fromQ' = [fromQ EXCEPT ![e[2]] = Tail(fromQ[e[2]])]
                \/ /\ ~(e # Closed /\ e[3] = "r")
                   /\ gpc' = "scan" /\ gi' = gi + 1 /\ UNCHANGED <<gres, fromQ>>
<1>1. gi \in Workers /\ "client" \in Masters
  BY DEF GetRead, Types, PlaceTypes, Masters
<1>2. pool["client"].workers[gi].fromR \in Fds \cup {None}
  BY <1>1, WorkerOf DEF WorkerRecord
<1> DEFINE e == Entry("client", pool["client"].workers[gi].fromR)
<1>3. e \in Ends \cup {Closed} /\ (e # Closed => e[2] \in Pids)
  BY <1>1, <1>2, EntryType
<1>4. IF e # Closed /\ e[3] = "r"
       THEN /\ gres' = IF fromQ[e[2]] = << >> THEN 0 ELSE Head(fromQ[e[2]])
            /\ fromQ' = IF fromQ[e[2]] = << >> THEN fromQ
                        ELSE [fromQ EXCEPT ![e[2]] = Tail(@)]
            /\ gpc' = "mark"
            /\ UNCHANGED gi
       ELSE /\ gpc' = "scan"
            /\ gi' = gi + 1
            /\ UNCHANGED <<gres, fromQ>>
  BY DEF GetRead
<1> HIDE DEF e
<1>5. \/ /\ e \in Ends /\ e[2] \in Pids /\ gpc' = "mark" /\ gi' = gi
         /\ \/ fromQ[e[2]] = << >> /\ gres' = 0 /\ fromQ' = fromQ
            \/ /\ fromQ[e[2]] # << >> /\ gres' = Head(fromQ[e[2]])
               /\ fromQ' = [fromQ EXCEPT ![e[2]] = Tail(fromQ[e[2]])]
      \/ /\ ~(e # Closed /\ e[3] = "r")
         /\ gpc' = "scan" /\ gi' = gi + 1 /\ UNCHANGED <<gres, fromQ>>
  BY <1>3, <1>4 DEF Types, KernelTypes
<1> QED
  BY <1>1, <1>5 DEF e

-----------------------------------------------------------------------------
(* Types.                                                                   *)

LEMMA SameQueues ==
    ASSUME Types, pool' \in [Masters -> PoolRecord],
           \A n \in Masters : pool'[n].queue = pool[n].queue,
           UNCHANGED next_task_id,
           fdtab' \in [Masters -> [Fds -> Ends \cup {Closed}]]
    PROVE  PoolTypes'
  BY DEF Types, PoolTypes

LEMMA OnlyWorkerQueues ==
    ASSUME Types, NEW m \in Masters, NEW w \in Workers, NEW r, OnlyWorker(m, w, r),
           UNCHANGED next_task_id,
           fdtab' \in [Masters -> [Fds -> Ends \cup {Closed}]]
    PROVE  PoolTypes'
  BY SameQueues DEF OnlyWorker

LEMMA MastersAre == "client" \in Masters /\ Runner \in Masters
  BY DEF Masters, Runner

LEMMA TypesInit == Init => Types
<1> SUFFICES ASSUME Init PROVE Types
  OBVIOUS
<1> USE PoolAssumption
<1>1. Blank \in WorkerRecord /\ << >> \in Seq(TaskIds)
  BY BlankRecord
<1>2. [w \in Workers |-> Blank] \in [Workers -> WorkerRecord]
  BY <1>1
<1>3. PoolTypes
  BY <1>1, <1>2 DEF Init, PoolTypes, PoolRecord
<1>4. KernelTypes
  BY <1>1 DEF Init, KernelTypes, Masters
<1>5. snd \in [w : Workers, task : 0..MaxTasks, ok : BOOLEAN]
  BY DEF Init, NoSend, Workers
<1>6. /\ 1 \in 1..(NumWorkers + 1) /\ 1 \in Workers
      /\ 0 \in 0..MaxTasks /\ 0 \in 0..MaxFaults
  BY DEF Workers
<1>7. << >> \in Seq(TaskIds) /\ {} \subseteq Fds
  OBVIOUS
<1>8. PlaceTypes
  BY <1>5, <1>6, <1>7 DEF Init, PlaceTypes
<1> QED
  BY <1>3, <1>4, <1>8 DEF Types

LEMMA PoolTypesStep == Types /\ [Next]_vars => PoolTypes'
<1> SUFFICES ASSUME Types, [Next]_vars PROVE PoolTypes'
  OBVIOUS
<1> USE PoolAssumption DEF Types
<1>0. CASE UNCHANGED vars
  BY <1>0 DEF vars, PoolTypes, kernelVars, callVars, runVars, getVars, getRest
<1>1. CASE Create
  <2>1. ci \in Workers /\ UNCHANGED next_task_id
    BY <1>1 DEF Create, Types, PlaceTypes
  <2>2. CASE create_worker_process("client", ci)
    BY <2>1, <2>2, MastersAre, CreateEffect, OnlyWorkerQueues
  <2>3. CASE CreateWorkerFails("client", ci)
    BY <2>1, <2>3, MastersAre, CreateFailsEffect, SameQueues DEF OnlyWorker, PoolTypes
  <2> QED
    BY <1>1, <2>2, <2>3 DEF Create
<1>2. CASE process_pool_submit_task
  <2>1. /\ next_task_id \in TaskIds /\ next_task_id' = next_task_id + 1 /\ fdtab' = fdtab
        /\ pool' = [pool EXCEPT !["client"].queue = Enqueue(pool["client"].queue, next_task_id)]
    BY <1>2, MastersAre DEF process_pool_submit_task, PoolTypes, PoolRecord, TaskIds
  <2>7. pool["client"].queue \in Seq(TaskIds)
    BY MastersAre DEF PoolTypes, PoolRecord
  <2>8. Len(pool["client"].queue) <= MaxQueue
    BY MastersAre DEF PoolTypes
  <2>5. pool["client"].queue \in Seq(TaskIds) /\ Len(pool["client"].queue) <= MaxQueue
    BY <2>7, <2>8
  <2>6. /\ Enqueue(pool["client"].queue, next_task_id) \in Seq(TaskIds)
        /\ Len(Enqueue(pool["client"].queue, next_task_id)) <= MaxQueue
    BY <2>1, <2>5, EnqueueType
  <2>2. PICK q \in Seq(TaskIds) : q = Enqueue(pool["client"].queue, next_task_id) /\ Len(q) <= MaxQueue
    BY <2>6
  <2>3. pool' = [pool EXCEPT !["client"].queue = q]
    BY <2>1, <2>2
  <2>4. /\ pool' \in [Masters -> PoolRecord] /\ pool'["client"].queue = q
        /\ \A n \in Masters : n # "client" => pool'[n] = pool[n]
    BY <2>3, MastersAre, SetQueue
  <2> QED
    BY <2>1, <2>2, <2>4 DEF PoolTypes, TaskIds
<1>3. CASE RunBegin
  <2>1. pool'[Runner].queue = pool["client"].queue
    BY <1>3, BeginEffect, MastersAre DEF PoolTypes, PoolRecord
  <2> QED
    BY <1>3, <2>1, BeginEffect, MastersAre DEF RunBegin, PoolTypes
<1>4. CASE RunTest
  BY <1>4 DEF RunTest, PoolTypes, kernelVars, callVars, runVars, getVars, getRest
<1>5. CASE RunReap
  BY <1>5, ReapEffect, SameQueues, MastersAre DEF RunReap, PoolTypes
<1>6. CASE RunSkip
  BY <1>6 DEF RunSkip, NextWorker, PoolTypes, kernelVars, callVars, runVars, getVars, getRest
<1>7. CASE RunClose
  <2>1. ri \in Workers /\ UNCHANGED next_task_id
    BY <1>7 DEF RunClose, Types, PlaceTypes
  <2>2. fdtab' \in [Masters -> [Fds -> Ends \cup {Closed}]]
    BY <1>7, CloseEffect DEF PoolTypes
  <2> QED
    BY <1>7, <2>1, <2>2, CloseEffect, MastersAre, OnlyWorkerQueues
<1>8. CASE RunCreate
  <2>1. ri \in Workers /\ UNCHANGED next_task_id
    BY <1>8 DEF RunCreate, Types, PlaceTypes
  <2>2. CASE create_worker_process(Runner, ri)
    BY <2>1, <2>2, MastersAre, CreateEffect, OnlyWorkerQueues
  <2>3. CASE CreateWorkerFails(Runner, ri)
    BY <2>1, <2>3, MastersAre, CreateFailsEffect, SameQueues DEF OnlyWorker, PoolTypes
  <2> QED
    BY <1>8, <2>2, <2>3 DEF RunCreate
<1>9. CASE DispatchSend
  <2>1. /\ pool' \in [Masters -> PoolRecord] /\ pool[Runner].queue # << >>
        /\ pool'[Runner].queue = Tail(pool[Runner].queue)
        /\ \A n \in Masters : n # Runner => pool'[n] = pool[n]
    BY <1>9, SendEffect
  <2>2. Len(Tail(pool[Runner].queue)) = Len(pool[Runner].queue) - 1
    BY <2>1, MastersAre, WorkerOf, TailType
  <2>3. Len(pool[Runner].queue) <= MaxQueue /\ Len(pool[Runner].queue) \in Nat
    BY MastersAre, WorkerOf DEF PoolTypes
  <2>4. UNCHANGED <<next_task_id, fdtab>>
    BY <1>9 DEF DispatchSend
  <2>5. Len(Tail(pool[Runner].queue)) <= MaxQueue
    BY <2>2, <2>3
  <2> QED
    BY <2>1, <2>4, <2>5 DEF PoolTypes
<1>10. CASE DispatchMark
  <2>1. Len(Enqueue(pool[Runner].queue, snd.task)) <= MaxQueue
    BY <1>10, MarkEffect, MastersAre, WorkerOf, EnqueueType DEF PoolTypes
  <2>2. UNCHANGED <<next_task_id, fdtab>>
    BY <1>10 DEF DispatchMark
  <2> QED
    BY <1>10, <2>1, <2>2, MarkEffect DEF PoolTypes
<1>11. CASE DispatchDone
  BY <1>11, DoneEffect, SameQueues DEF DispatchDone, PoolTypes
<1>12. CASE RunEnd
  <2>1. pool' = [pool EXCEPT ![Runner].running = FALSE] /\ UNCHANGED next_task_id
    BY <1>12 DEF RunEnd
  <2>2. fdtab' \in [Masters -> [Fds -> Ends \cup {Closed}]]
    BY <1>12 DEF RunEnd, PoolTypes
  <2> QED
    BY <2>1, <2>2, MastersAre, SetRunning, SameQueues
<1>13. CASE GetSelect
  BY <1>13 DEF GetSelect, PoolTypes, kernelVars, callVars, runVars, getVars, getRest
<1>14. CASE GetPick
  BY <1>14 DEF GetPick, PoolTypes, kernelVars, callVars, runVars, getVars, getRest
<1>15. CASE GetRead
  BY <1>15 DEF GetRead, PoolTypes, kernelVars, callVars, runVars, getVars, getRest
<1>16. CASE GetMark
  BY <1>16, GetMarkEffect, MastersAre, OnlyWorkerQueues DEF GetMark, getRest, PoolTypes
<1>17. CASE process_pool_stop
  <2>1. pool' = [pool EXCEPT !["client"].running = FALSE] /\ UNCHANGED <<next_task_id, fdtab>>
    BY <1>17 DEF process_pool_stop
  <2> QED
    BY <2>1, MastersAre, SetRunning, SameQueues DEF PoolTypes
<1>18. CASE DestroyBegin
  <2>1. pool' = [pool EXCEPT !["client"].running = FALSE] /\ UNCHANGED <<next_task_id, fdtab>>
    BY <1>18 DEF DestroyBegin
  <2> QED
    BY <2>1, MastersAre, SetRunning, SameQueues DEF PoolTypes
<1>19. CASE TerminateWorker
  <2>1. fdtab' = [fdtab EXCEPT !["client"] = ClosedPairs("client", ci)] /\ UNCHANGED next_task_id
    BY <1>19 DEF TerminateWorker
  <2>2. fdtab' \in [Masters -> [Fds -> Ends \cup {Closed}]]
    BY <1>19, <2>1, TerminateEffect DEF PoolTypes
  <2> QED
    BY <1>19, <2>1, <2>2, TerminateEffect, MastersAre, OnlyWorkerQueues
<1>20. CASE FreePool
  <2>1. UNCHANGED <<next_task_id, fdtab>> /\ (reap_dead_children("client") \/ UNCHANGED pool)
    BY <1>20 DEF FreePool
  <2> QED
    BY <2>1, ReapEffect, SameQueues, MastersAre DEF PoolTypes
<1>21. ASSUME NEW k \in Pids, WorkerRead(k) PROVE PoolTypes'
  BY <1>21 DEF WorkerRead, workerRest, PoolTypes, kernelVars, callVars, runVars, getVars, getRest
<1>22. ASSUME NEW k \in Pids, WorkerEof(k) PROVE PoolTypes'
  BY <1>22 DEF WorkerEof, Exit, workerRest, PoolTypes, kernelVars, callVars, runVars, getVars, getRest
<1>23. ASSUME NEW k \in Pids, WorkerReply(k) PROVE PoolTypes'
  BY <1>23 DEF WorkerReply, Exit, workerRest, PoolTypes, kernelVars, callVars, runVars, getVars, getRest
<1>24. ASSUME NEW k \in Pids, WorkerCrash(k) PROVE PoolTypes'
  BY <1>24 DEF WorkerCrash, Exit, workerRest, PoolTypes, kernelVars, callVars, runVars, getVars, getRest
<1> QED
  BY <1>0, <1>1, <1>2, <1>3, <1>4, <1>5, <1>6, <1>7, <1>8, <1>9, <1>10, <1>11, <1>12,
     <1>13, <1>14, <1>15, <1>16, <1>17, <1>18, <1>19, <1>20, <1>21, <1>22, <1>23, <1>24
     DEF Next, RunStep, WorkerStep, GetStep, DestroyStep

LEMMA SpawnKernel ==
    ASSUME Types, NEW m \in Masters, forks + 1 \in Pids, forks' = forks + 1, forks \in Nat,
           proc' = [proc EXCEPT ![forks + 1] = "up"],
           parent' = [parent EXCEPT ![forks + 1] = m],
           hold' = [hold EXCEPT ![forks + 1] = MasterEnds(m) \cup ChildEnds(forks + 1)],
           UNCHANGED <<toQ, fromQ, work>>
    PROVE  KernelTypes'
<1>1. MasterEnds(m) \subseteq Ends
  BY DEF MasterEnds, Range, Types, PoolTypes
<1>2. ChildEnds(forks + 1) \subseteq Ends
  BY DEF ChildEnds, Ends
<1>3. forks' \in 0..MaxPids
  BY PoolAssumption DEF Pids
<1> QED
  BY <1>1, <1>2, <1>3 DEF Types, KernelTypes

(* A table of pipes stays one when one of them is written or read. *)
LEMMA AppendKeeps ==
    ASSUME NEW q \in [Pids -> Seq(TaskIds)], NEW k \in Pids, NEW t \in TaskIds
    PROVE  [q EXCEPT ![k] = Append(q[k], t)] \in [Pids -> Seq(TaskIds)]
<1>1. Append(q[k], t) \in Seq(TaskIds)
  OBVIOUS
<1> QED
  BY <1>1

LEMMA TailKeeps ==
    ASSUME NEW q \in [Pids -> Seq(TaskIds)], NEW k \in Pids, q[k] # << >>
    PROVE  [q EXCEPT ![k] = Tail(q[k])] \in [Pids -> Seq(TaskIds)]
<1>1. Tail(q[k]) \in Seq(TaskIds)
  OBVIOUS
<1> QED
  BY <1>1

LEMMA KernelTypesStep == Types /\ [Next]_vars => KernelTypes'
<1> SUFFICES ASSUME Types, [Next]_vars PROVE KernelTypes'
  OBVIOUS
<1> USE PoolAssumption DEF Types
<1>0. CASE UNCHANGED vars
  BY <1>0 DEF vars, KernelTypes, kernelVars, callVars, runVars, getVars, getRest
<1>1. CASE Create
  <2>1. ci \in Workers
    BY <1>1 DEF Create, Types, PlaceTypes
  <2>2. CASE create_worker_process("client", ci)
    BY <2>1, <2>2, MastersAre, CreateEffect, SpawnKernel
  <2>3. CASE CreateWorkerFails("client", ci)
    BY <2>3 DEF CreateWorkerFails, KernelTypes, kernelVars
  <2> QED
    BY <1>1, <2>2, <2>3 DEF Create
<1>2. CASE process_pool_submit_task
  BY <1>2 DEF process_pool_submit_task, KernelTypes, kernelVars, callVars, runVars, getVars, getRest
<1>3. CASE RunBegin
  BY <1>3 DEF RunBegin, KernelTypes, kernelVars, callVars, runVars, getVars, getRest
<1>4. CASE RunTest
  BY <1>4 DEF RunTest, KernelTypes, kernelVars, callVars, runVars, getVars, getRest
<1>5. CASE RunReap
  BY <1>5 DEF RunReap, reap_dead_children, KernelTypes, kernelVars, callVars, runVars, getVars, getRest
<1>6. CASE RunSkip
  BY <1>6 DEF RunSkip, NextWorker, KernelTypes, kernelVars, callVars, runVars, getVars, getRest
<1>7. CASE RunClose
  BY <1>7 DEF RunClose, KernelTypes, kernelVars, callVars, runVars, getVars, getRest
<1>8. CASE RunCreate
  <2>1. ri \in Workers
    BY <1>8 DEF RunCreate, Types, PlaceTypes
  <2>2. CASE create_worker_process(Runner, ri)
    BY <2>1, <2>2, MastersAre, CreateEffect, SpawnKernel
  <2>3. CASE CreateWorkerFails(Runner, ri)
    BY <2>3 DEF CreateWorkerFails, KernelTypes, kernelVars
  <2> QED
    BY <1>8, <2>2, <2>3 DEF RunCreate
<1>9. CASE DispatchSend
  <2>1. PICK t \in TaskIds, k \in Pids : toQ' \in {toQ, [toQ EXCEPT ![k] = Append(toQ[k], t)]}
    BY <1>9, SendEffect
  <2>2. UNCHANGED <<forks, proc, parent, hold, fromQ, work>>
    BY <1>9 DEF DispatchSend
  <2>3. toQ' \in [Pids -> Seq(TaskIds)]
    <3>1. toQ \in [Pids -> Seq(TaskIds)]
      BY DEF KernelTypes
    <3>2. [toQ EXCEPT ![k] = Append(toQ[k], t)] \in [Pids -> Seq(TaskIds)]
      BY <3>1, AppendKeeps
    <3> QED
      BY <2>1, <3>1, <3>2
  <2> QED
    BY <2>2, <2>3 DEF KernelTypes
<1>10. CASE DispatchMark
  BY <1>10 DEF DispatchMark, KernelTypes, kernelVars, callVars, runVars, getVars, getRest
<1>11. CASE DispatchDone
  BY <1>11 DEF DispatchDone, KernelTypes, kernelVars, callVars, runVars, getVars, getRest
<1>12. CASE RunEnd
  BY <1>12 DEF RunEnd, KernelTypes, kernelVars, callVars, runVars, getVars, getRest
<1>13. CASE GetSelect
  BY <1>13 DEF GetSelect, KernelTypes, kernelVars, callVars, runVars, getVars, getRest
<1>14. CASE GetPick
  BY <1>14 DEF GetPick, KernelTypes, kernelVars, callVars, runVars, getVars, getRest
<1>15. CASE GetRead
  <2>1. UNCHANGED <<forks, proc, parent, hold, toQ, work>>
    BY <1>15 DEF GetRead, getRest
  <2>2. fromQ' = fromQ \/ \E k \in Pids : fromQ[k] # << >> /\ fromQ' = [fromQ EXCEPT ![k] = Tail(fromQ[k])]
    BY <1>15, GetReadEffect
  <2>3. fromQ' \in [Pids -> Seq(TaskIds)]
    <3>1. fromQ \in [Pids -> Seq(TaskIds)]
      BY DEF KernelTypes
    <3>2. \A k \in Pids : fromQ[k] # << >> => [fromQ EXCEPT ![k] = Tail(fromQ[k])] \in [Pids -> Seq(TaskIds)]
      BY <3>1, TailKeeps
    <3> QED
      BY <2>2, <3>1, <3>2
  <2> QED
    BY <2>1, <2>3 DEF KernelTypes
<1>16. CASE GetMark
  BY <1>16 DEF GetMark, KernelTypes, kernelVars, callVars, runVars, getVars, getRest
<1>17. CASE process_pool_stop
  BY <1>17 DEF process_pool_stop, KernelTypes, kernelVars, callVars, runVars, getVars, getRest
<1>18. CASE DestroyBegin
  BY <1>18 DEF DestroyBegin, KernelTypes, kernelVars, callVars, runVars, getVars, getRest
<1>19. CASE TerminateWorker
  <2>1. /\ proc' \in [Pids -> {"none", "up", "zombie", "gone"}]
        /\ hold' \in [Pids -> SUBSET Ends]
        /\ toQ' \in [Pids -> Seq(TaskIds)]
        /\ work' \in [Pids -> 0..MaxTasks]
    <3>1. pool["client"].workers[ci].pid \in Pids \cup {None}
      BY <1>19, TerminateEffect, MastersAre, WorkerOf DEF WorkerRecord
    <3>2. << >> \in Seq(TaskIds) /\ 0 \in 0..MaxTasks
      OBVIOUS
    <3>4. CASE pool["client"].workers[ci].pid = None
      BY <1>19, <3>4 DEF TerminateWorker, KernelTypes
    <3>5. ASSUME NEW k \in Pids, k = pool["client"].workers[ci].pid, k # None
          PROVE  /\ proc' = [proc EXCEPT ![k] = "gone"] /\ hold' = [hold EXCEPT ![k] = {}]
                 /\ toQ' = [toQ EXCEPT ![k] = << >>] /\ work' = [work EXCEPT ![k] = 0]
      BY <1>19, <3>5 DEF TerminateWorker
    <3>6. ASSUME NEW k \in Pids, k = pool["client"].workers[ci].pid, k # None
          PROVE  /\ proc' \in [Pids -> {"none", "up", "zombie", "gone"}]
                 /\ hold' \in [Pids -> SUBSET Ends]
                 /\ toQ' \in [Pids -> Seq(TaskIds)]
                 /\ work' \in [Pids -> 0..MaxTasks]
      <4>1. /\ proc' = [proc EXCEPT ![k] = "gone"] /\ hold' = [hold EXCEPT ![k] = {}]
            /\ toQ' = [toQ EXCEPT ![k] = << >>] /\ work' = [work EXCEPT ![k] = 0]
        BY <3>5, <3>6
      <4> QED
        BY <4>1, <3>2 DEF KernelTypes
    <3> QED
      BY <3>1, <3>4, <3>6
  <2> QED
    BY <1>19, <2>1 DEF TerminateWorker, KernelTypes
<1>20. CASE FreePool
  <2>1. proc' \in [Pids -> {"none", "up", "zombie", "gone"}]
    BY <1>20 DEF FreePool, reap_dead_children, KernelTypes
  <2> QED
    BY <1>20, <2>1 DEF FreePool, KernelTypes
<1>21. ASSUME NEW k \in Pids, WorkerRead(k) PROVE KernelTypes'
  <2>1. Head(toQ[k]) \in TaskIds /\ Tail(toQ[k]) \in Seq(TaskIds)
    BY <1>21, TailType DEF WorkerRead, KernelTypes
  <2>2. toQ' = [toQ EXCEPT ![k] = Tail(toQ[k])] /\ work' = [work EXCEPT ![k] = Head(toQ[k])]
    BY <1>21 DEF WorkerRead, KernelTypes
  <2>3. toQ' \in [Pids -> Seq(TaskIds)] /\ work' \in [Pids -> 0..MaxTasks]
    BY <2>1, <2>2 DEF KernelTypes, TaskIds
  <2> QED
    BY <1>21, <2>3 DEF WorkerRead, workerRest, KernelTypes
<1>22. ASSUME NEW k \in Pids, WorkerEof(k) PROVE KernelTypes'
  BY <1>22 DEF WorkerEof, Exit, workerRest, KernelTypes, kernelVars, callVars, runVars, getVars, getRest
<1>23. ASSUME NEW k \in Pids, WorkerReply(k) PROVE KernelTypes'
  <2>1. work[k] \in TaskIds
    BY <1>23 DEF WorkerReply, KernelTypes, TaskIds
  <2>2. fromQ' \in {fromQ, [fromQ EXCEPT ![k] = Append(fromQ[k], work[k])]}
    BY <1>23 DEF WorkerReply, KernelTypes
  <2>3. fromQ' \in [Pids -> Seq(TaskIds)]
    <3>1. fromQ \in [Pids -> Seq(TaskIds)]
      BY DEF KernelTypes
    <3>2. [fromQ EXCEPT ![k] = Append(fromQ[k], work[k])] \in [Pids -> Seq(TaskIds)]
      BY <2>1, <3>1, AppendKeeps
    <3> QED
      BY <2>2, <3>1, <3>2
  <2>4. CASE Exit(k)
    BY <1>23, <2>3, <2>4 DEF WorkerReply, Exit, workerRest, KernelTypes
  <2>5. CASE ~Exit(k)
    <3>1. UNCHANGED <<forks, proc, parent, hold, toQ>> /\ work' = [work EXCEPT ![k] = 0]
      BY <1>23, <2>5 DEF WorkerReply, workerRest
    <3>2. work' \in [Pids -> 0..MaxTasks]
      BY <3>1 DEF KernelTypes
    <3> QED
      BY <3>1, <3>2, <2>3 DEF KernelTypes
  <2> QED
    BY <2>4, <2>5
<1>24. ASSUME NEW k \in Pids, WorkerCrash(k) PROVE KernelTypes'
  BY <1>24 DEF WorkerCrash, Exit, workerRest, KernelTypes, kernelVars, callVars, runVars, getVars, getRest
<1> QED
  BY <1>0, <1>1, <1>2, <1>3, <1>4, <1>5, <1>6, <1>7, <1>8, <1>9, <1>10, <1>11, <1>12,
     <1>13, <1>14, <1>15, <1>16, <1>17, <1>18, <1>19, <1>20, <1>21, <1>22, <1>23, <1>24
     DEF Next, RunStep, WorkerStep, GetStep, DestroyStep

LEMMA PlaceTypesStep == Types /\ [Next]_vars => PlaceTypes'
<1> SUFFICES ASSUME Types, [Next]_vars PROVE PlaceTypes'
  OBVIOUS
<1> USE PoolAssumption DEF Types
<1>0. CASE UNCHANGED vars
  BY <1>0 DEF vars, PlaceTypes, kernelVars, callVars, runVars, getVars, getRest, Workers
<1>1. CASE Create
  <2>1. /\ cpc' \in {"create", "ready", "undo"} /\ ci' \in 1..(NumWorkers + 1)
        /\ (cpc' = "create" => ci' \in Workers)
    BY <1>1 DEF Create, PlaceTypes, Workers
  <2>2. faults' \in 0..MaxFaults
    BY <1>1 DEF Create, CreateWorkerFails, PlaceTypes
  <2> QED
    BY <1>1, <2>1, <2>2 DEF Create, PlaceTypes, runVars, getVars
<1>2. CASE process_pool_submit_task
  BY <1>2 DEF process_pool_submit_task, PlaceTypes, kernelVars, callVars, runVars, getVars, getRest, Workers
<1>3. CASE RunBegin
  BY <1>3 DEF RunBegin, PlaceTypes, kernelVars, callVars, runVars, getVars, getRest, Workers
<1>4. CASE RunTest
  BY <1>4 DEF RunTest, PlaceTypes, kernelVars, callVars, runVars, getVars, getRest, Workers
<1>5. CASE RunReap
  BY <1>5 DEF RunReap, reap_dead_children, PlaceTypes, kernelVars, callVars, runVars, getVars, getRest, Workers
<1>6. CASE RunSkip
  BY <1>6 DEF RunSkip, NextWorker, PlaceTypes, kernelVars, callVars, runVars, getVars, getRest, Workers
<1>7. CASE RunClose
  BY <1>7 DEF RunClose, PlaceTypes, kernelVars, callVars, runVars, getVars, getRest, Workers
<1>8. CASE RunCreate
  <2>1. rpc' \in {"dispatch", "restart"} /\ ri' \in Workers
    BY <1>8 DEF RunCreate, NextWorker, PlaceTypes, Workers
  <2>2. faults' \in 0..MaxFaults
    BY <1>8 DEF RunCreate, CreateWorkerFails, PlaceTypes
  <2> QED
    BY <1>8, <2>1, <2>2 DEF RunCreate, PlaceTypes, callVars, getVars
<1>9. CASE DispatchSend
  <2>3. PICK w \in Workers, t \in TaskIds, ok \in BOOLEAN : snd' = [w |-> w, task |-> t, ok |-> ok]
    BY <1>9, SendEffect
  <2>1. snd' \in [w : Workers, task : 0..MaxTasks, ok : BOOLEAN] /\ snd'.task \in TaskIds
    BY <2>3 DEF TaskIds
  <2> QED
    BY <1>9, <2>1 DEF DispatchSend, PlaceTypes, callVars, getVars
<1>10. CASE DispatchMark
  <2>1. snd' \in [w : Workers, task : 0..MaxTasks, ok : BOOLEAN]
    BY <1>10 DEF DispatchMark, NoSend, Workers
  <2> QED
    BY <1>10, <2>1 DEF DispatchMark, PlaceTypes, callVars, getVars
<1>11. CASE DispatchDone
  BY <1>11 DEF DispatchDone, PlaceTypes, kernelVars, callVars, runVars, getVars, getRest, Workers
<1>12. CASE RunEnd
  BY <1>12 DEF RunEnd, PlaceTypes, kernelVars, callVars, runVars, getVars, getRest, Workers
<1>13. CASE GetSelect
  <2>1. Watched \subseteq Fds
    BY MastersAre, WorkerOf DEF Watched, WorkerRecord
  <2> QED
    BY <1>13, <2>1 DEF GetSelect, PlaceTypes, getRest, callVars, runVars
<1>14. CASE GetPick
  <2>1. Reported \subseteq Workers /\ Workers \subseteq Nat
    BY DEF Reported, Workers, PlaceTypes
  <2>2. Reported # {} => Min(Reported) \in Workers
    BY <2>1, LeastMin DEF Least
  <2> QED
    BY <1>14, <2>2 DEF GetPick, PlaceTypes, getRest, callVars, runVars, Workers
<1>15. CASE GetRead
  <2>1. gres' \in 0..MaxTasks
    <3>1. gres' \in {0, gres} \/ \E k \in Pids : fromQ[k] # << >> /\ gres' = Head(fromQ[k])
      BY <1>15, GetReadEffect
    <3>2. \A k \in Pids : fromQ[k] # << >> => Head(fromQ[k]) \in TaskIds
      BY DEF KernelTypes
    <3> QED
      BY <3>1, <3>2 DEF TaskIds, PlaceTypes
  <2>2. (gpc' = "mark" /\ gi' = gi) \/ (gpc' = "scan" /\ gi' = gi + 1)
    BY <1>15, GetReadEffect
  <2>3. gi \in Workers
    BY <1>15, GetReadEffect
  <2>4. gi' \in 1..(NumWorkers + 1) /\ (gpc' \in {"read", "mark"} => gi' \in Workers) /\ gpc' \in {"scan", "mark"}
    BY <2>2, <2>3 DEF Workers
  <2> QED
    BY <1>15, <2>1, <2>4 DEF GetRead, PlaceTypes, getRest, callVars, runVars
<1>16. CASE GetMark
  <2>1. gi \in Workers
    BY <1>16, GetMarkEffect
  <2>2. gi' \in 1..(NumWorkers + 1)
    BY <1>16, <2>1 DEF GetMark, Workers
  <2>3. delivered' \in Seq(TaskIds)
    <3>1. CASE gres = 0
      BY <1>16, <3>1 DEF GetMark, PlaceTypes
    <3>2. CASE gres # 0
      <4>1. gres \in TaskIds /\ delivered \in Seq(TaskIds)
        BY <3>2 DEF PlaceTypes, TaskIds
      <4>2. delivered' = Append(delivered, gres)
        BY <1>16, <3>2 DEF GetMark
      <4> QED
        BY <4>1, <4>2
    <3> QED
      BY <3>1, <3>2
  <2> QED
    BY <1>16, <2>2, <2>3 DEF GetMark, PlaceTypes, getRest, callVars, runVars
<1>17. CASE process_pool_stop
  BY <1>17 DEF process_pool_stop, PlaceTypes, kernelVars, callVars, runVars, getVars, getRest, Workers
<1>18. CASE DestroyBegin
  BY <1>18 DEF DestroyBegin, PlaceTypes, kernelVars, callVars, runVars, getVars, getRest, Workers
<1>19. CASE TerminateWorker
  BY <1>19 DEF TerminateWorker, PlaceTypes, runVars, getVars, Workers
<1>20. CASE FreePool
  BY <1>20 DEF FreePool, reap_dead_children, PlaceTypes, kernelVars, callVars, runVars, getVars, getRest, Workers
<1>21. ASSUME NEW k \in Pids, WorkerRead(k) PROVE PlaceTypes'
  BY <1>21 DEF WorkerRead, workerRest, PlaceTypes, kernelVars, callVars, runVars, getVars, getRest, Workers
<1>22. ASSUME NEW k \in Pids, WorkerEof(k) PROVE PlaceTypes'
  BY <1>22 DEF WorkerEof, Exit, workerRest, PlaceTypes, kernelVars, callVars, runVars, getVars, getRest, Workers
<1>23. ASSUME NEW k \in Pids, WorkerReply(k) PROVE PlaceTypes'
  BY <1>23 DEF WorkerReply, Exit, workerRest, PlaceTypes, kernelVars, callVars, runVars, getVars, getRest, Workers
<1>24. ASSUME NEW k \in Pids, WorkerCrash(k) PROVE PlaceTypes'
  BY <1>24 DEF WorkerCrash, Exit, workerRest, PlaceTypes, kernelVars, callVars, runVars, getVars, getRest, Workers
<1> QED
  BY <1>0, <1>1, <1>2, <1>3, <1>4, <1>5, <1>6, <1>7, <1>8, <1>9, <1>10, <1>11, <1>12,
     <1>13, <1>14, <1>15, <1>16, <1>17, <1>18, <1>19, <1>20, <1>21, <1>22, <1>23, <1>24
     DEF Next, RunStep, WorkerStep, GetStep, DestroyStep

LEMMA TypesStep == Types /\ [Next]_vars => Types'
  BY PoolTypesStep, KernelTypesStep, PlaceTypesStep DEF Types

LEMMA TypesThm == Spec => []Types
<1>1. Init => Types
  BY TypesInit
<1>2. Types /\ [Next]_vars => Types'
  BY TypesStep
<1> QED
  BY <1>1, <1>2, PTL DEF Spec

(* The pool's structures have their types: queues that hold at most         *)
(* MAX_TASK_QUEUE tasks, workers with a status, a pid and descriptor        *)
(* numbers, pipes of tasks and results, loop variables in range.            *)
THEOREM TypeCorrect == Spec => []TypeOK
<1>1. Types => TypeOK
  BY DEF Types, PoolTypes, KernelTypes, PlaceTypes, TypeOK, PoolRecord
<1> QED
  BY <1>1, TypesThm, PTL

-----------------------------------------------------------------------------
(* Descriptors.  The numbers of a worker structure: *)
Numbers(r) == {r.toR, r.toW, r.fromR, r.fromW} \ {None}

LEMMA NumbersOf ==
    ASSUME NEW r \in WorkerRecord, NEW s
    PROVE  /\ Numbers([r EXCEPT !.status = s]) = Numbers(r)
           /\ Numbers([r EXCEPT !.status = s, !.pid = None]) = Numbers(r)
           /\ Numbers(Forgotten(r)) = {}
           /\ \A p \in {None, r.pid} : Numbers(Forgotten([r EXCEPT !.pid = p])) = {}
           /\ Numbers(Blank) = {} /\ Numbers([Blank EXCEPT !.status = s]) = {}
  BY DEF WorkerRecord, Numbers, Forgotten, Blank

(* While a pool is created its loop has not begun, and while it is destroyed *)
(* the loop has not begun or has ended.                                      *)
StageInv ==
    /\ cpc \in {"create", "undo"} => rpc = "called"
    /\ cpc \in {"destroy", "freed"} => rpc \in {"called", "ended"}
    /\ cpc = "freed" => ci > NumWorkers

(* Every descriptor the client has open is one that a worker structure      *)
(* remembers; what is not created yet, or was terminated, remembers none.   *)
FdInv ==
    /\ \A f \in Fds : fdtab["client"][f] # Closed =>
            \E w \in Workers : f \in Numbers(pool["client"].workers[w])
    /\ cpc = "create" =>
            \A w \in Workers : w >= ci => Numbers(pool["client"].workers[w]) = {}
    /\ cpc \in {"destroy", "undo", "freed"} =>
            \A w \in Workers : w < ci => Numbers(pool["client"].workers[w]) = {}
    /\ rpc = "create" => Numbers(pool[Runner].workers[ri]) = {}

LEMMA StageStep == Types /\ StageInv /\ [Next]_vars => StageInv'
<1> SUFFICES ASSUME Types /\ StageInv, [Next]_vars PROVE StageInv'
  OBVIOUS
<1> USE PoolAssumption DEF StageInv, kernelVars, callVars, runVars, getVars, getRest
<1>0. CASE UNCHANGED vars
  BY <1>0 DEF vars
<1>1. CASE Create
  BY <1>1 DEF Create
<1>2. CASE process_pool_submit_task
  BY <1>2 DEF process_pool_submit_task
<1>3. CASE RunBegin
  BY <1>3 DEF RunBegin
<1>4. CASE RunTest
  BY <1>4 DEF RunTest
<1>5. CASE RunReap
  BY <1>5 DEF RunReap, reap_dead_children
<1>6. CASE RunSkip
  BY <1>6 DEF RunSkip, NextWorker
<1>7. CASE RunClose
  BY <1>7 DEF RunClose
<1>8. CASE RunCreate
  BY <1>8 DEF RunCreate, NextWorker
<1>9. CASE DispatchSend
  BY <1>9 DEF DispatchSend
<1>10. CASE DispatchMark
  BY <1>10 DEF DispatchMark
<1>11. CASE DispatchDone
  BY <1>11 DEF DispatchDone
<1>12. CASE RunEnd
  BY <1>12 DEF RunEnd
<1>13. CASE GetSelect
  BY <1>13 DEF GetSelect
<1>14. CASE GetPick
  BY <1>14 DEF GetPick
<1>15. CASE GetRead
  BY <1>15 DEF GetRead
<1>16. CASE GetMark
  BY <1>16 DEF GetMark
<1>17. CASE process_pool_stop
  BY <1>17 DEF process_pool_stop
<1>18. CASE DestroyBegin
  BY <1>18 DEF DestroyBegin
<1>19. CASE TerminateWorker
  BY <1>19 DEF TerminateWorker
<1>20. CASE FreePool
  BY <1>20 DEF FreePool, reap_dead_children
<1>21. ASSUME NEW k \in Pids, WorkerRead(k) PROVE StageInv'
  BY <1>21 DEF WorkerRead, workerRest
<1>22. ASSUME NEW k \in Pids, WorkerEof(k) PROVE StageInv'
  BY <1>22 DEF WorkerEof, Exit, workerRest
<1>23. ASSUME NEW k \in Pids, WorkerReply(k) PROVE StageInv'
  BY <1>23 DEF WorkerReply, Exit, workerRest
<1>24. ASSUME NEW k \in Pids, WorkerCrash(k) PROVE StageInv'
  BY <1>24 DEF WorkerCrash, Exit, workerRest
<1> QED
  BY <1>0, <1>1, <1>2, <1>3, <1>4, <1>5, <1>6, <1>7, <1>8, <1>9, <1>10, <1>11, <1>12,
     <1>13, <1>14, <1>15, <1>16, <1>17, <1>18, <1>19, <1>20, <1>21, <1>22, <1>23, <1>24
     DEF Next, RunStep, WorkerStep, GetStep, DestroyStep

NumbersKept ==
    \A m \in Masters :
        /\ fdtab'[m] = fdtab[m] \/ (m = "runner" /\ forked)
        /\ \A w \in Workers : Numbers(pool'[m].workers[w]) = Numbers(pool[m].workers[w])

LEMMA KeptFds ==
    ASSUME Types, FdInv, NumbersKept, UNCHANGED forked,
           \/ cpc' = cpc /\ ci' = ci
           \/ cpc' = "destroy" /\ ci' = 1
           \/ cpc' = "freed" /\ ci' = ci /\ cpc \in {"destroy", "undo"},
           rpc' = "create" => rpc = "create" /\ ri' = ri
    PROVE  FdInv'
<1>1. "client" \in Masters /\ Runner \in Masters /\ ri \in Workers /\ Runner' = Runner
  BY RunnerIsMaster DEF Masters, Types, PlaceTypes, Runner
<1>2. fdtab'["client"] = fdtab["client"]
  BY <1>1 DEF NumbersKept
<1>3. \A w \in Workers : Numbers(pool'["client"].workers[w]) = Numbers(pool["client"].workers[w])
  BY <1>1 DEF NumbersKept
<1>4. Numbers(pool'[Runner].workers[ri]) = Numbers(pool[Runner].workers[ri])
  BY <1>1 DEF NumbersKept
<1> QED
  BY <1>1, <1>2, <1>3, <1>4 DEF FdInv, Workers

(* A worker structure that only changes its status and pid keeps its numbers. *)
LEMMA OneStatus ==
    ASSUME Types, NEW m \in Masters, NEW w \in Workers, NEW s,
           OnlyWorker(m, w, [pool[m].workers[w] EXCEPT !.status = s]), UNCHANGED fdtab
    PROVE  NumbersKept
<1>2. PICK r \in WorkerRecord : r = pool[m].workers[w]
  BY WorkerOf
<1>3. Numbers([r EXCEPT !.status = s]) = Numbers(r)
  BY NumbersOf
<1>4. pool'[m].workers[w] = [r EXCEPT !.status = s]
  BY <1>2 DEF OnlyWorker
<1>1. Numbers(pool'[m].workers[w]) = Numbers(pool[m].workers[w])
  BY <1>2, <1>3, <1>4
<1> QED
  BY <1>1 DEF NumbersKept, OnlyWorker

LEMMA MarkedNumbers ==
    ASSUME Types, NEW m \in Masters, NEW dead, NEW w \in Workers
    PROVE  /\ Numbers(MarkReaped(pool[m].workers, dead)[w]) = Numbers(pool[m].workers[w])
           /\ Numbers(MarkGone(m, pool[m].workers)[w]) = Numbers(pool[m].workers[w])
  BY WorkerOf, NumbersOf DEF MarkReaped, MarkGone

LEMMA ReapKeeps ==
    ASSUME Types, NEW m \in Masters, reap_dead_children(m), UNCHANGED fdtab
    PROVE  NumbersKept
  BY ReapEffect, MarkedNumbers DEF NumbersKept

LEMMA RunningKeeps ==
    ASSUME Types, NEW m \in Masters, NEW b \in BOOLEAN, pool' = [pool EXCEPT ![m].running = b],
           \A n \in Masters : fdtab'[n] = fdtab[n] \/ (n = "runner" /\ forked)
    PROVE  NumbersKept
  BY SetRunning DEF NumbersKept

(* create_worker_process for a worker without numbers, and its failure.     *)
LEMMA SpawnFds ==
    ASSUME Types, FdInv, NEW m \in Masters, NEW w \in Workers, create_worker_process(m, w),
           Numbers(pool[m].workers[w]) = {}
    PROVE  \A f \in Fds : fdtab'["client"][f] # Closed =>
               \E v \in Workers : f \in Numbers(pool'["client"].workers[v])
<1>1. PICK a, b, c, d \in Fds : /\ Took(m, w, a, b, c, d)
                              /\ OnlyWorker(m, w, SpawnRecord(a, b, c, d))
  BY CreateEffect
<1>2. "client" \in Masters
  BY DEF Masters
<1>3. CASE m # "client"
  <2>1. fdtab'["client"] = fdtab["client"] /\ pool'["client"] = pool["client"]
    BY <1>1, <1>2, <1>3 DEF Took, OnlyWorker, Types, PoolTypes
  <2> QED
    BY <2>1 DEF FdInv
<1>4. CASE m = "client"
  <2>1. b \in Numbers(SpawnRecord(a, b, c, d)) /\ c \in Numbers(SpawnRecord(a, b, c, d))
    BY DEF SpawnRecord, Numbers, Fds, None
  <2>2. \A f \in Fds : f # b /\ f # c => fdtab'[m][f] = fdtab[m][f]
    BY <1>1 DEF Took, Types, PoolTypes
  <2>3. \A v \in Workers : v # w => pool'[m].workers[v] = pool[m].workers[v]
    BY <1>1 DEF OnlyWorker
  <2>4. pool'[m].workers[w] = SpawnRecord(a, b, c, d)
    BY <1>1 DEF OnlyWorker
  <2> QED
    BY <1>4, <2>1, <2>2, <2>3, <2>4 DEF FdInv
<1> QED
  BY <1>3, <1>4

LEMMA SpawnFailsFds ==
    ASSUME Types, FdInv, NEW m \in Masters, NEW w \in Workers, CreateWorkerFails(m, w),
           Numbers(pool[m].workers[w]) = {}
    PROVE  NumbersKept
<1>1. /\ \E p \in {None, pool[m].workers[w].pid} :
             OnlyWorker(m, w, Forgotten([pool[m].workers[w] EXCEPT !.pid = p]))
      /\ fdtab' = fdtab
  BY CreateFailsEffect
<1>2. Numbers(pool'[m].workers[w]) = {}
  BY <1>1, WorkerOf, NumbersOf DEF OnlyWorker
<1> QED
  BY <1>1, <1>2 DEF NumbersKept, OnlyWorker

(* Closing what a worker structure remembers and forgetting it.             *)
LEMMA CloseFds ==
    ASSUME Types, FdInv, NEW m \in Masters, NEW w \in Workers, NEW r, OnlyWorker(m, w, r),
           Numbers(r) = {}, fdtab' = [fdtab EXCEPT ![m] = ClosedPairs(m, w)]
    PROVE  \A f \in Fds : fdtab'["client"][f] # Closed =>
               \E v \in Workers : f \in Numbers(pool'["client"].workers[v])
<1>1. "client" \in Masters
  BY DEF Masters
<1>2. CASE m # "client"
  BY <1>1, <1>2 DEF OnlyWorker, Types, PoolTypes, FdInv
<1>3. CASE m = "client"
  <2>1. Remembered(m, w) = Numbers(pool[m].workers[w])
    BY DEF Remembered, Numbers
  <2>2. \A f \in Fds : fdtab'[m][f] # Closed => f \notin Numbers(pool[m].workers[w]) /\ fdtab[m][f] # Closed
    BY <2>1 DEF ClosedPairs, Types, PoolTypes
  <2>3. \A v \in Workers : v # w => pool'[m].workers[v] = pool[m].workers[v]
    BY DEF OnlyWorker
  <2> QED
    BY <1>3, <2>2, <2>3 DEF FdInv
<1> QED
  BY <1>2, <1>3

LEMMA FdStep == Types /\ StageInv /\ FdInv /\ [Next]_vars => FdInv'
<1> SUFFICES ASSUME Types /\ StageInv /\ FdInv, [Next]_vars PROVE FdInv'
  OBVIOUS
<1>0. CASE UNCHANGED vars
  BY <1>0 DEF FdInv, Runner, vars, callVars, runVars
<1>1. CASE Create
  <2>1. ci \in Workers /\ cpc = "create" /\ rpc' = rpc /\ rpc = "called" /\ "client" \in Masters
    BY <1>1, MastersAre DEF Create, StageInv, Types, PlaceTypes, runVars
  <2>2. Numbers(pool["client"].workers[ci]) = {}
    BY <2>1 DEF FdInv, Workers
  <2>3. CASE create_worker_process("client", ci)
    <3>1. \A f \in Fds : fdtab'["client"][f] # Closed =>
              \E v \in Workers : f \in Numbers(pool'["client"].workers[v])
      BY <2>1, <2>2, <2>3, SpawnFds
    <3>2. \A v \in Workers : v # ci => pool'["client"].workers[v] = pool["client"].workers[v]
      BY <2>1, <2>3, CreateEffect DEF OnlyWorker
    <3>3. CASE cpc' = "create" /\ ci' = ci + 1
      BY <2>1, <3>1, <3>2, <3>3 DEF FdInv, Workers
    <3>4. CASE cpc' = "ready"
      BY <2>1, <3>1, <3>4 DEF FdInv
    <3>5. cpc' = "undo" => CreateWorkerFails("client", ci)
      BY <1>1 DEF Create
    <3>6. ~(create_worker_process("client", ci) /\ CreateWorkerFails("client", ci))
      <4>1. forks' = forks + 1 /\ forks \in Nat
        BY <2>1, <2>3, CreateEffect
      <4>2. CreateWorkerFails("client", ci) => forks' = forks
        BY DEF CreateWorkerFails, kernelVars
      <4> QED
        BY <4>1, <4>2
    <3> QED
      BY <1>1, <2>3, <3>3, <3>4, <3>5, <3>6 DEF Create
  <2>4. CASE CreateWorkerFails("client", ci) /\ cpc' = "undo" /\ ci' = 1
    <3>1. NumbersKept
      BY <2>1, <2>2, <2>4, SpawnFailsFds
    <3>2. \A f \in Fds : fdtab'["client"][f] # Closed =>
              \E v \in Workers : f \in Numbers(pool'["client"].workers[v])
      BY <2>1, <2>4, <3>1, CreateFailsEffect DEF NumbersKept, FdInv
    <3> QED
      BY <2>1, <2>4, <3>2 DEF FdInv, Workers
  <2> QED
    BY <1>1, <2>3, <2>4 DEF Create
<1>2. CASE process_pool_submit_task
  <2>1. pool' = [pool EXCEPT !["client"].queue = Enqueue(pool["client"].queue, next_task_id)] /\ fdtab' = fdtab
    BY <1>2, MastersAre DEF process_pool_submit_task, Types, PoolTypes, PoolRecord
  <2>2. NumbersKept
    BY <2>1 DEF NumbersKept, Types, PoolTypes, PoolRecord
  <2> QED
    BY <1>2, <2>2, KeptFds DEF process_pool_submit_task, callVars, runVars
<1>3. CASE RunBegin
  <2>1. forked' = forked /\ cpc' = cpc /\ ci' = ci /\ rpc' = "test"
    BY <1>3 DEF RunBegin, callVars
  <2>2. fdtab'["client"] = fdtab["client"] /\ pool'["client"].workers = pool["client"].workers
    BY <1>3, BeginEffect, MastersAre DEF Types, PoolTypes, PoolRecord
  <2> QED
    BY <2>1, <2>2 DEF FdInv
<1>4. CASE RunTest
  <2>1. NumbersKept
    BY <1>4 DEF RunTest, NumbersKept, callVars, runVars, getVars, getRest, kernelVars
  <2> QED
    BY <1>4, <2>1, KeptFds DEF RunTest, callVars, runVars, getVars, getRest, kernelVars
<1>5. CASE RunReap
  <2>1. NumbersKept
    BY <1>5, ReapKeeps, RunnerIsMaster DEF RunReap
  <2> QED
    BY <1>5, <2>1, KeptFds DEF RunReap, callVars, runVars, getVars, getRest, kernelVars
<1>6. CASE RunSkip
  <2>1. NumbersKept
    BY <1>6 DEF RunSkip, NextWorker, NumbersKept, callVars, runVars, getVars, getRest, kernelVars
  <2> QED
    BY <1>6, <2>1, KeptFds DEF RunSkip, NextWorker, callVars, runVars, getVars, getRest, kernelVars
<1>7. CASE RunClose
  <2>1. ri \in Workers /\ Runner \in Masters /\ UNCHANGED <<forked, cpc, ci, ri>> /\ cpc = "ready"
    <3>1. rpc = "restart" /\ UNCHANGED <<forked, cpc, ci, ri>>
      BY <1>7 DEF RunClose, callVars
    <3> QED
      BY <3>1, RunnerIsMaster DEF StageInv, Types, PlaceTypes
  <2>2. Numbers(Forgotten(pool[Runner].workers[ri])) = {}
    BY <2>1, WorkerOf, NumbersOf
  <2>3. \A f \in Fds : fdtab'["client"][f] # Closed =>
            \E v \in Workers : f \in Numbers(pool'["client"].workers[v])
    BY <1>7, <2>1, <2>2, CloseEffect, CloseFds
  <2>4. Numbers(pool'[Runner].workers[ri]) = {}
    BY <1>7, <2>1, <2>2, CloseEffect DEF OnlyWorker
  <2>5. Runner' = Runner
    BY <2>1 DEF Runner
  <2> QED
    BY <2>1, <2>3, <2>4, <2>5 DEF FdInv
<1>8. CASE RunCreate
  <2>1. ri \in Workers /\ Runner \in Masters /\ UNCHANGED <<forked, cpc, ci>> /\ cpc = "ready" /\ rpc = "create"
        /\ rpc' \in {"dispatch", "restart"}
    <3>1. rpc = "create" /\ UNCHANGED <<forked, cpc, ci>> /\ rpc' \in {"dispatch", "restart"}
      BY <1>8 DEF RunCreate, NextWorker, callVars
    <3> QED
      BY <3>1, RunnerIsMaster DEF StageInv, Types, PlaceTypes
  <2>2. Numbers(pool[Runner].workers[ri]) = {}
    BY <2>1 DEF FdInv
  <2>3. CASE create_worker_process(Runner, ri)
    <3>1. \A f \in Fds : fdtab'["client"][f] # Closed =>
              \E v \in Workers : f \in Numbers(pool'["client"].workers[v])
      BY <2>1, <2>2, <2>3, SpawnFds
    <3> QED
      BY <2>1, <3>1 DEF FdInv
  <2>4. CASE CreateWorkerFails(Runner, ri)
    <3>1. NumbersKept
      BY <2>1, <2>2, <2>4, SpawnFailsFds
    <3> QED
      BY <2>1, <3>1, KeptFds
  <2> QED
    BY <1>8, <2>3, <2>4 DEF RunCreate
<1>9. CASE DispatchSend
  <2>1. NumbersKept
    <3>1. UNCHANGED fdtab
      BY <1>9 DEF DispatchSend
    <3>2. /\ pool'[Runner].workers = MarkGone(Runner, pool[Runner].workers)
          /\ \A n \in Masters : n # Runner => pool'[n] = pool[n]
      BY <1>9, SendEffect
    <3> QED
      BY <3>1, <3>2, MarkedNumbers, RunnerIsMaster DEF NumbersKept
  <2> QED
    BY <1>9, <2>1, KeptFds DEF DispatchSend, callVars
<1>10. CASE DispatchMark
  <2>1. NumbersKept
    <3>1. UNCHANGED fdtab
      BY <1>10 DEF DispatchMark
    <3>2. snd.w \in Workers /\ Numbers(pool'[Runner].workers[snd.w]) = Numbers(pool[Runner].workers[snd.w])
      <4>1. PICK q \in WorkerRecord, s \in Status : /\ q = pool[Runner].workers[snd.w]
                                                    /\ s = IF snd.ok THEN "BUSY" ELSE "DEAD"
        BY <1>10, MarkEffect, WorkerOf, RunnerIsMaster DEF Status
      <4>2. Numbers([q EXCEPT !.status = s]) = Numbers(q)
        BY NumbersOf
      <4>3. snd.w \in Workers /\ pool'[Runner].workers[snd.w] = [q EXCEPT !.status = s]
        BY <1>10, <4>1, MarkEffect
      <4> QED
        BY <4>1, <4>2, <4>3
    <3> QED
      BY <1>10, <3>1, <3>2, MarkEffect DEF NumbersKept
  <2> QED
    BY <1>10, <2>1, KeptFds DEF DispatchMark, callVars
<1>11. CASE DispatchDone
  <2>1. NumbersKept
    <3>1. UNCHANGED fdtab
      BY <1>11 DEF DispatchDone
    <3> QED
      BY <1>11, <3>1, DoneEffect, MarkedNumbers, RunnerIsMaster DEF NumbersKept
  <2> QED
    BY <1>11, <2>1, KeptFds DEF DispatchDone, callVars
<1>12. CASE RunEnd
  <2>1. NumbersKept
    <3>1. pool' = [pool EXCEPT ![Runner].running = FALSE]
      BY <1>12 DEF RunEnd
    <3>2. \A n \in Masters : fdtab'[n] = fdtab[n] \/ (n = "runner" /\ forked)
      BY <1>12 DEF RunEnd, Types, PoolTypes
    <3> QED
      BY <3>1, <3>2, RunningKeeps, RunnerIsMaster
  <2> QED
    BY <1>12, <2>1, KeptFds DEF RunEnd, callVars
<1>13. CASE GetSelect
  <2>1. NumbersKept
    BY <1>13 DEF GetSelect, NumbersKept, callVars, runVars, getVars, getRest, kernelVars
  <2> QED
    BY <1>13, <2>1, KeptFds DEF GetSelect, callVars, runVars, getVars, getRest, kernelVars
<1>14. CASE GetPick
  <2>1. NumbersKept
    BY <1>14 DEF GetPick, NumbersKept, callVars, runVars, getVars, getRest, kernelVars
  <2> QED
    BY <1>14, <2>1, KeptFds DEF GetPick, callVars, runVars, getVars, getRest, kernelVars
<1>15. CASE GetRead
  <2>1. NumbersKept
    BY <1>15 DEF GetRead, NumbersKept, callVars, runVars, getVars, getRest, kernelVars
  <2> QED
    BY <1>15, <2>1, KeptFds DEF GetRead, callVars, runVars, getVars, getRest, kernelVars
<1>16. CASE GetMark
  <2>1. NumbersKept
    BY <1>16, GetMarkEffect, OneStatus, MastersAre DEF GetMark, getRest
  <2> QED
    BY <1>16, <2>1, KeptFds DEF GetMark, callVars, runVars, getVars, getRest, kernelVars
<1>17. CASE process_pool_stop
  <2>1. NumbersKept
    <3>1. pool' = [pool EXCEPT !["client"].running = FALSE] /\ UNCHANGED fdtab
      BY <1>17 DEF process_pool_stop
    <3> QED
      BY <3>1, MastersAre, RunningKeeps
  <2> QED
    BY <1>17, <2>1, KeptFds DEF process_pool_stop, callVars, runVars, getVars, getRest, kernelVars
<1>18. CASE DestroyBegin
  <2>1. NumbersKept
    <3>1. pool' = [pool EXCEPT !["client"].running = FALSE] /\ UNCHANGED fdtab
      BY <1>18 DEF DestroyBegin
    <3> QED
      BY <3>1, MastersAre, RunningKeeps
  <2> QED
    BY <1>18, <2>1, KeptFds DEF DestroyBegin, callVars, runVars, getVars, getRest, kernelVars
<1>19. CASE TerminateWorker
  <2>1. /\ ci \in Workers /\ cpc \in {"destroy", "undo"} /\ UNCHANGED <<cpc, forked, rpc>> /\ ci' = ci + 1
        /\ rpc # "create" /\ fdtab' = [fdtab EXCEPT !["client"] = ClosedPairs("client", ci)]
    BY <1>19, TerminateEffect DEF TerminateWorker, StageInv, runVars
  <2>2. Numbers([Blank EXCEPT !.status = "DEAD"]) = {}
    BY BlankRecord, NumbersOf
  <2>3. OnlyWorker("client", ci, [Blank EXCEPT !.status = "DEAD"])
    BY <1>19, TerminateEffect
  <2>4. \A f \in Fds : fdtab'["client"][f] # Closed =>
            \E v \in Workers : f \in Numbers(pool'["client"].workers[v])
    BY <2>1, <2>2, <2>3, CloseFds, MastersAre
  <2>5. \A v \in Workers : v <= ci => Numbers(pool'["client"].workers[v]) = {}
    <3>1. \A v \in Workers : v < ci => Numbers(pool["client"].workers[v]) = {}
      BY <2>1 DEF FdInv
    <3> QED
      <4>1. Numbers(pool'["client"].workers[ci]) = {}
        BY <2>2, <2>3 DEF OnlyWorker
      <4>2. \A v \in Workers : v # ci => pool'["client"].workers[v] = pool["client"].workers[v]
        BY <2>3 DEF OnlyWorker
      <4>3. \A v \in Workers : v <= ci => v < ci \/ v = ci
        BY <2>1 DEF Workers
      <4> QED
        BY <3>1, <4>1, <4>2, <4>3
  <2>6. \A v \in Workers : v < ci' => v <= ci
    BY <2>1 DEF Workers
  <2> QED
    BY <2>1, <2>4, <2>5, <2>6 DEF FdInv
<1>20. CASE FreePool
  <2>1. NumbersKept
    <3>1. UNCHANGED fdtab /\ (reap_dead_children("client") \/ UNCHANGED pool)
      BY <1>20 DEF FreePool
    <3>2. CASE UNCHANGED pool
      BY <3>1, <3>2 DEF NumbersKept
    <3> QED
      BY <3>1, <3>2, ReapKeeps, MastersAre
  <2> QED
    BY <1>20, <2>1, KeptFds DEF FreePool, callVars, runVars, getVars, getRest, kernelVars
<1>21. ASSUME NEW k \in Pids, WorkerRead(k) PROVE FdInv'
  <2>1. NumbersKept
    BY <1>21 DEF WorkerRead, workerRest, NumbersKept, callVars, runVars, getVars, getRest, kernelVars
  <2> QED
    BY <1>21, <2>1, KeptFds DEF WorkerRead, workerRest, callVars, runVars, getVars, getRest, kernelVars
<1>22. ASSUME NEW k \in Pids, WorkerEof(k) PROVE FdInv'
  <2>1. NumbersKept
    BY <1>22 DEF WorkerEof, workerRest, NumbersKept, callVars, runVars, getVars, getRest, kernelVars
  <2> QED
    BY <1>22, <2>1, KeptFds DEF WorkerEof, workerRest, callVars, runVars, getVars, getRest, kernelVars
<1>23. ASSUME NEW k \in Pids, WorkerReply(k) PROVE FdInv'
  <2>1. NumbersKept
    BY <1>23 DEF WorkerReply, workerRest, NumbersKept, callVars, runVars, getVars, getRest, kernelVars
  <2> QED
    BY <1>23, <2>1, KeptFds DEF WorkerReply, workerRest, callVars, runVars, getVars, getRest, kernelVars
<1>24. ASSUME NEW k \in Pids, WorkerCrash(k) PROVE FdInv'
  <2>1. NumbersKept
    BY <1>24 DEF WorkerCrash, workerRest, NumbersKept, callVars, runVars, getVars, getRest, kernelVars
  <2> QED
    BY <1>24, <2>1, KeptFds DEF WorkerCrash, workerRest, callVars, runVars, getVars, getRest, kernelVars
<1> QED
  BY <1>0, <1>1, <1>2, <1>3, <1>4, <1>5, <1>6, <1>7, <1>8, <1>9, <1>10, <1>11, <1>12,
     <1>13, <1>14, <1>15, <1>16, <1>17, <1>18, <1>19, <1>20, <1>21, <1>22, <1>23, <1>24
     DEF Next, RunStep, WorkerStep, GetStep, DestroyStep

LEMMA FdInit == Init => StageInv /\ FdInv
<1> SUFFICES ASSUME Init PROVE StageInv /\ FdInv
  OBVIOUS
<1>1. \A w \in Workers : Numbers(pool["client"].workers[w]) = {}
  BY BlankRecord, NumbersOf DEF Init, Masters
<1> QED
  BY <1>1 DEF Init, StageInv, FdInv, Masters, Workers

(* No descriptor leaks: once the pool is freed the caller's process holds   *)
(* no end of a pipe, however many workers crashed, were restarted, or could *)
(* not be created.                                                          *)
THEOREM NoLeakedDescriptors == Spec => []DescriptorsClosed
<1>1. Init => Types /\ StageInv /\ FdInv
  BY TypesInit, FdInit
<1>2. Types /\ StageInv /\ FdInv /\ [Next]_vars => (Types /\ StageInv /\ FdInv)'
  BY TypesStep, StageStep, FdStep
<1>3. Types /\ StageInv /\ FdInv => DescriptorsClosed
  <2> SUFFICES ASSUME Types, StageInv, FdInv, cpc = "freed" PROVE MasterEnds("client") = {}
    BY DEF DescriptorsClosed
  <2>1. ci > NumWorkers /\ NumWorkers \in Nat /\ ci \in Nat
    BY PoolAssumption DEF StageInv, Types, PlaceTypes
  <2>2. \A w \in Workers : Numbers(pool["client"].workers[w]) = {}
    BY <2>1 DEF FdInv, Workers
  <2>3. \A f \in Fds : fdtab["client"][f] = Closed
    BY <2>2 DEF FdInv
  <2> QED
    BY <2>3, MastersAre DEF MasterEnds, Range, Types, PoolTypes
<1> QED
  BY <1>1, <1>2, <1>3, PTL DEF Spec

-----------------------------------------------------------------------------
(* Where tasks are, as one table: a sequence of tasks for every place.      *)
Locs == ({"queue", "sending", "got", "delivered"} \X {0}) \cup ({"to", "work", "from"} \X Pids)
Tables == [Locs -> Seq(TaskIds)]

(* No task is in two positions; every task is below n; t is somewhere.      *)
Apart(C) ==
    \A l, m \in Locs : \A i \in 1..Len(C[l]), j \in 1..Len(C[m]) :
        C[l][i] = C[m][j] => l = m /\ i = j
Below(C, n) == \A l \in Locs : \A i \in 1..Len(C[l]) : C[l][i] < n
Has(C, t) == \E l \in Locs : \E i \in 1..Len(C[l]) : C[l][i] = t
Full(C, n) == \A t \in 1..(n - 1) : Has(C, t)

(* The head of a goes to the end of b; places are emptied or lose a head; a *)
(* new task comes to the end of b.                                          *)
Move(C, D, a, b) ==
    /\ a # b /\ C[a] # << >> /\ D[a] = Tail(C[a]) /\ D[b] = Append(C[b], Head(C[a]))
    /\ \A l \in Locs : l \notin {a, b} => D[l] = C[l]
Moves(C, D) == D = C \/ \E a, b \in Locs : Move(C, D, a, b)
Shrunk(C, D) ==
    \A l \in Locs : D[l] = C[l] \/ D[l] = << >> \/ (C[l] # << >> /\ D[l] = Tail(C[l]))
Added(C, D, b, t) == D[b] = Append(C[b], t) /\ \A l \in Locs : l # b => D[l] = C[l]

LEMMA TailAt ==
    ASSUME NEW q \in Seq(TaskIds), q # << >>
    PROVE  /\ Len(Tail(q)) = Len(q) - 1 /\ Len(q) \in Nat /\ Len(q) > 0 /\ Head(q) = q[1]
           /\ \A i \in 1..Len(Tail(q)) : Tail(q)[i] = q[i + 1] /\ i + 1 \in 1..Len(q)
  OBVIOUS

LEMMA AppendAt ==
    ASSUME NEW q \in Seq(TaskIds), NEW t \in TaskIds
    PROVE  /\ Len(Append(q, t)) = Len(q) + 1 /\ Len(q) \in Nat
           /\ \A i \in 1..Len(q) : Append(q, t)[i] = q[i]
           /\ Append(q, t)[Len(q) + 1] = t
  OBVIOUS

LEMMA Separate ==
    ASSUME NEW C, Apart(C), NEW l \in Locs, NEW m \in Locs,
           NEW i \in 1..Len(C[l]), NEW j \in 1..Len(C[m]), C[l][i] = C[m][j]
    PROVE  l = m /\ i = j
  BY DEF Apart

LEMMA MoveKeeps ==
    ASSUME NEW C \in Tables, NEW D \in Tables, NEW a \in Locs, NEW b \in Locs, Move(C, D, a, b)
    PROVE  /\ Apart(C) => Apart(D)
           /\ \A n \in Nat : Below(C, n) => Below(D, n)
           /\ \A t \in TaskIds : Has(C, t) => Has(D, t)
<1>1. C[a] \in Seq(TaskIds) /\ C[b] \in Seq(TaskIds) /\ C[a] # << >> /\ a # b
  BY DEF Tables, Move
<1>2. Head(C[a]) \in TaskIds
  BY <1>1, TailType
<1>3. /\ Len(C[a]) \in Nat /\ Len(C[a]) > 0 /\ Head(C[a]) = C[a][1] /\ Len(D[a]) = Len(C[a]) - 1
      /\ \A i \in 1..Len(D[a]) : D[a][i] = C[a][i + 1] /\ i + 1 \in 1..Len(C[a])
  <2>1. D[a] = Tail(C[a])
    BY DEF Move
  <2> QED
    BY <1>1, <2>1, TailAt
<1>4. /\ Len(C[b]) \in Nat /\ Len(D[b]) = Len(C[b]) + 1
      /\ \A i \in 1..Len(C[b]) : D[b][i] = C[b][i]
      /\ D[b][Len(C[b]) + 1] = C[a][1]
  <2>1. D[b] = Append(C[b], Head(C[a]))
    BY DEF Move
  <2> QED
    BY <1>1, <1>2, <1>3, <2>1, AppendAt
<1>5. \A l \in Locs : l \notin {a, b} => D[l] = C[l]
  BY DEF Move
<1> DEFINE Origin(l, i, p, x) ==
              \/ l = a /\ p = a /\ x = i + 1
              \/ l = b /\ p = b /\ x = i
              \/ l = b /\ p = a /\ x = 1 /\ i = Len(C[b]) + 1
              \/ l \notin {a, b} /\ p = l /\ x = i
<1>6. \A l \in Locs : \A i \in 1..Len(D[l]) :
          \E p \in Locs : \E x \in 1..Len(C[p]) : D[l][i] = C[p][x] /\ Origin(l, i, p, x)
  <2> SUFFICES ASSUME NEW l \in Locs, NEW i \in 1..Len(D[l])
               PROVE  \E p \in Locs : \E x \in 1..Len(C[p]) : D[l][i] = C[p][x] /\ Origin(l, i, p, x)
    OBVIOUS
  <2>1. CASE l = a
    BY <2>1, <1>3
  <2>2. CASE l = b
    <3>1. CASE i = Len(C[b]) + 1
      <4>1. 1 \in 1..Len(C[a])
        BY <1>3
      <4> QED
        BY <2>2, <3>1, <4>1, <1>4
    <3>2. CASE i # Len(C[b]) + 1
      <4>1. i \in 1..Len(C[b])
        BY <2>2, <3>2, <1>4
      <4> QED
        BY <2>2, <4>1, <1>4
    <3> QED
      BY <3>1, <3>2
  <2>3. CASE l \notin {a, b}
    BY <2>3, <1>5
  <2> QED
    BY <2>1, <2>2, <2>3
<1>7. ASSUME Apart(C) PROVE Apart(D)
  <2> SUFFICES ASSUME NEW l \in Locs, NEW m \in Locs, NEW i \in 1..Len(D[l]), NEW j \in 1..Len(D[m]),
                      D[l][i] = D[m][j]
               PROVE  l = m /\ i = j
    BY DEF Apart
  <2>1. PICK p \in Locs : \E x \in 1..Len(C[p]) : D[l][i] = C[p][x] /\ Origin(l, i, p, x)
    BY <1>6
  <2>2. PICK x \in 1..Len(C[p]) : D[l][i] = C[p][x] /\ Origin(l, i, p, x)
    BY <2>1
  <2>3. PICK q \in Locs : \E y \in 1..Len(C[q]) : D[m][j] = C[q][y] /\ Origin(m, j, q, y)
    BY <1>6
  <2>4. PICK y \in 1..Len(C[q]) : D[m][j] = C[q][y] /\ Origin(m, j, q, y)
    BY <2>3
  <2>8. C[p][x] = C[q][y]
    BY <2>2, <2>4
  <2>5. p = q /\ x = y
    BY <1>7, <2>8, Separate
  <2>9. D[l] \in Seq(TaskIds) /\ D[m] \in Seq(TaskIds)
    BY DEF Tables
  <2>6. Len(D[l]) \in Nat /\ Len(D[m]) \in Nat
    BY <2>9
  <2>7. i \in Nat /\ j \in Nat /\ i > 0 /\ j > 0
    BY <2>6
  <2> QED
    BY <2>2, <2>4, <2>5, <2>7, <1>1, <1>4
<1>8. ASSUME NEW n \in Nat, Below(C, n) PROVE Below(D, n)
  <2> HIDE DEF Origin
  <2> QED
    BY <1>6, <1>8 DEF Below
<1>9. ASSUME NEW t \in TaskIds, Has(C, t) PROVE Has(D, t)
  <2>1. PICK l \in Locs : \E i \in 1..Len(C[l]) : C[l][i] = t
    BY <1>9 DEF Has
  <2>2. PICK i \in 1..Len(C[l]) : C[l][i] = t
    BY <2>1
  <2>3. CASE l = a /\ i = 1
    <3>1. Len(C[b]) + 1 \in 1..Len(D[b]) /\ D[b][Len(C[b]) + 1] = t
      BY <2>2, <2>3, <1>4
    <3> QED
      BY <3>1 DEF Has
  <2>4. CASE l = a /\ i # 1
    <3>1. i - 1 \in 1..Len(D[a]) /\ (i - 1) + 1 = i
      BY <2>2, <2>4, <1>3
    <3>2. D[a][i - 1] = t
      BY <2>2, <2>4, <3>1, <1>3
    <3> QED
      BY <3>1, <3>2 DEF Has
  <2>5. CASE l = b
    <3>1. i \in 1..Len(D[b]) /\ D[b][i] = t
      BY <2>2, <2>5, <1>4
    <3> QED
      BY <3>1 DEF Has
  <2>6. CASE l \notin {a, b}
    BY <2>2, <2>6, <1>5 DEF Has
  <2> QED
    BY <2>3, <2>4, <2>5, <2>6
<1> QED
  BY <1>7, <1>8, <1>9

LEMMA ShrunkKeeps ==
    ASSUME NEW C \in Tables, NEW D \in Tables, Shrunk(C, D)
    PROVE  /\ Apart(C) => Apart(D)
           /\ \A n \in Nat : Below(C, n) => Below(D, n)
<1>1. \A l \in Locs : \A i \in 1..Len(D[l]) :
          \E x \in 1..Len(C[l]) : D[l][i] = C[l][x] /\ x \in Nat /\ i \in Nat
                                  /\ (D[l] = C[l] => x = i)
                                  /\ (D[l] # C[l] => x = i + 1)
  <2> SUFFICES ASSUME NEW l \in Locs, NEW i \in 1..Len(D[l])
               PROVE  \E x \in 1..Len(C[l]) : /\ D[l][i] = C[l][x] /\ x \in Nat /\ i \in Nat
                                              /\ (D[l] = C[l] => x = i)
                                              /\ (D[l] # C[l] => x = i + 1)
    OBVIOUS
  <2>1. C[l] \in Seq(TaskIds) /\ D[l] \in Seq(TaskIds) /\ Len(D[l]) \in Nat /\ i \in Nat
    BY DEF Tables
  <2>2. CASE D[l] = C[l]
    BY <2>1, <2>2
  <2>3. CASE D[l] # C[l] /\ D[l] = << >>
    BY <2>3
  <2>4. CASE D[l] # C[l] /\ C[l] # << >> /\ D[l] = Tail(C[l])
    BY <2>1, <2>4, TailAt
  <2> QED
    BY <2>2, <2>3, <2>4 DEF Shrunk
<1>2. ASSUME Apart(C) PROVE Apart(D)
  <2> SUFFICES ASSUME NEW l \in Locs, NEW m \in Locs, NEW i \in 1..Len(D[l]), NEW j \in 1..Len(D[m]),
                      D[l][i] = D[m][j]
               PROVE  l = m /\ i = j
    BY DEF Apart
  <2>1. PICK x \in 1..Len(C[l]) : /\ D[l][i] = C[l][x] /\ x \in Nat /\ i \in Nat
                                  /\ (D[l] = C[l] => x = i) /\ (D[l] # C[l] => x = i + 1)
    BY <1>1
  <2>2. PICK y \in 1..Len(C[m]) : /\ D[m][j] = C[m][y] /\ y \in Nat /\ j \in Nat
                                  /\ (D[m] = C[m] => y = j) /\ (D[m] # C[m] => y = j + 1)
    BY <1>1
  <2>4. C[l][x] = C[m][y]
    BY <2>1, <2>2
  <2>3. l = m /\ x = y
    BY <1>2, <2>4, Separate
  <2> QED
    BY <2>1, <2>2, <2>3
<1>3. ASSUME NEW n \in Nat, Below(C, n) PROVE Below(D, n)
  BY <1>1, <1>3 DEF Below
<1> QED
  BY <1>2, <1>3

LEMMA AddedKeeps ==
    ASSUME NEW C \in Tables, NEW D \in Tables, NEW b \in Locs, NEW t \in TaskIds, Added(C, D, b, t),
           Below(C, t)
    PROVE  /\ Apart(C) => Apart(D)
           /\ Below(D, t + 1)
           /\ Full(C, t) => Full(D, t + 1)
<1>1. C[b] \in Seq(TaskIds) /\ t \in Nat /\ TaskIds \subseteq Nat
  BY DEF Tables, TaskIds
<1>2. /\ Len(C[b]) \in Nat /\ Len(D[b]) = Len(C[b]) + 1
      /\ \A i \in 1..Len(C[b]) : D[b][i] = C[b][i]
      /\ D[b][Len(C[b]) + 1] = t
  <2>1. D[b] = Append(C[b], t)
    BY DEF Added
  <2> QED
    BY <1>1, <2>1, AppendAt
<1>3. \A l \in Locs : \A i \in 1..Len(C[l]) : C[l][i] \in Nat /\ C[l][i] < t
  <2>1. \A l \in Locs : C[l] \in Seq(TaskIds)
    BY DEF Tables
  <2>2. \A l \in Locs : \A i \in 1..Len(C[l]) : C[l][i] \in TaskIds
    BY <2>1
  <2> QED
    BY <1>1, <2>2 DEF Below
<1>4. \A l \in Locs : \A i \in 1..Len(D[l]) :
          \/ i \in 1..Len(C[l]) /\ D[l][i] = C[l][i]
          \/ l = b /\ i = Len(C[b]) + 1 /\ D[l][i] = t
  <2> SUFFICES ASSUME NEW l \in Locs, NEW i \in 1..Len(D[l])
               PROVE  \/ i \in 1..Len(C[l]) /\ D[l][i] = C[l][i]
                      \/ l = b /\ i = Len(C[b]) + 1 /\ D[l][i] = t
    OBVIOUS
  <2>1. CASE l = b
    <3>1. i \in 1..Len(C[b]) \/ i = Len(C[b]) + 1
      BY <2>1, <1>2
    <3> QED
      BY <2>1, <3>1, <1>2
  <2>2. CASE l # b
    BY <2>2 DEF Added
  <2> QED
    BY <2>1, <2>2
<1>5. ASSUME Apart(C) PROVE Apart(D)
  <2> SUFFICES ASSUME NEW l \in Locs, NEW m \in Locs, NEW i \in 1..Len(D[l]), NEW j \in 1..Len(D[m]),
                      D[l][i] = D[m][j]
               PROVE  l = m /\ i = j
    BY DEF Apart
  <2>1. \/ i \in 1..Len(C[l]) /\ D[l][i] = C[l][i]
        \/ l = b /\ i = Len(C[b]) + 1 /\ D[l][i] = t
    BY <1>4
  <2>2. \/ j \in 1..Len(C[m]) /\ D[m][j] = C[m][j]
        \/ m = b /\ j = Len(C[b]) + 1 /\ D[m][j] = t
    BY <1>4
  <2>3. CASE i \in 1..Len(C[l]) /\ D[l][i] = C[l][i] /\ j \in 1..Len(C[m]) /\ D[m][j] = C[m][j]
    <3>1. C[l][i] = C[m][j]
      BY <2>3
    <3> QED
      BY <1>5, <2>3, <3>1, Separate
  <2>4. CASE i \in 1..Len(C[l]) /\ D[l][i] = C[l][i] /\ D[m][j] = t
    <3>1. C[l][i] < t /\ C[l][i] = t
      BY <2>4, <1>3
    <3> QED
      BY <3>1, <1>1
  <2>5. CASE D[l][i] = t /\ j \in 1..Len(C[m]) /\ D[m][j] = C[m][j]
    <3>1. C[m][j] < t /\ C[m][j] = t
      BY <2>5, <1>3
    <3> QED
      BY <3>1, <1>1
  <2> QED
    BY <2>1, <2>2, <2>3, <2>4, <2>5
<1>6. Below(D, t + 1)
  BY <1>1, <1>3, <1>4 DEF Below
<1>7. ASSUME Full(C, t) PROVE Full(D, t + 1)
  <2> SUFFICES ASSUME NEW s \in 1..t PROVE Has(D, s)
    BY <1>1 DEF Full
  <2>1. CASE s = t
    <3>1. Len(C[b]) + 1 \in 1..Len(D[b])
      BY <1>2
    <3> QED
      BY <2>1, <3>1, <1>2 DEF Has
  <2>2. CASE s # t
    <3>1. s \in 1..(t - 1)
      BY <2>2, <1>1
    <3>2. PICK l \in Locs : \E i \in 1..Len(C[l]) : C[l][i] = s
      BY <3>1, <1>7 DEF Full, Has
    <3>3. PICK i \in 1..Len(C[l]) : C[l][i] = s
      BY <3>2
    <3>4. i \in 1..Len(D[l]) /\ D[l][i] = s
      <4>1. CASE l = b
        BY <3>3, <4>1, <1>2
      <4>2. CASE l # b
        BY <3>3, <4>2 DEF Added
      <4> QED
        BY <4>1, <4>2
    <3> QED
      BY <3>4 DEF Has
  <2> QED
    BY <2>1, <2>2
<1> QED
  BY <1>5, <1>6, <1>7

(* The table of a state.  Before the loop starts the queue is the client's. *)
One(t) == IF t = 0 THEN << >> ELSE << t >>
Queue == IF rpc = "called" THEN pool["client"].queue ELSE pool[Runner].queue
Sending == IF snd.ok THEN << >> ELSE One(snd.task)
At(l) ==
    IF l[1] = "queue" THEN Queue ELSE
    IF l[1] = "sending" THEN Sending ELSE
    IF l[1] = "got" THEN One(gres) ELSE
    IF l[1] = "delivered" THEN delivered ELSE
    IF l[1] = "to" THEN toQ[l[2]] ELSE
    IF l[1] = "work" THEN One(work[l[2]]) ELSE fromQ[l[2]]
Contents == [l \in Locs |-> At(l)]

LEMMA OneType == \A t \in 0..MaxTasks : One(t) \in Seq(TaskIds)
<1> SUFFICES ASSUME NEW t \in 0..MaxTasks PROVE One(t) \in Seq(TaskIds)
  OBVIOUS
<1>1. CASE t = 0
  <2>1. << >> \in Seq(TaskIds)
    OBVIOUS
  <2> QED
    BY <1>1, <2>1 DEF One
<1>2. CASE t # 0
  <2>1. t \in TaskIds
    BY <1>2, PoolAssumption DEF TaskIds
  <2>2. << t >> \in Seq(TaskIds)
    BY <2>1
  <2> QED
    BY <1>2, <2>2 DEF One
<1> QED
  BY <1>1, <1>2

LEMMA ContentsType == Types => Contents \in Tables
<1> SUFFICES ASSUME Types, NEW l \in Locs PROVE At(l) \in Seq(TaskIds)
  BY DEF Contents, Tables
<1>1. Queue \in Seq(TaskIds)
  BY MastersAre, WorkerOf DEF Queue, Types, PoolTypes, PoolRecord
<1>2. Sending \in Seq(TaskIds) /\ One(gres) \in Seq(TaskIds) /\ delivered \in Seq(TaskIds)
  BY OneType DEF Sending, Types, PlaceTypes
<1>3. \A k \in Pids : /\ toQ[k] \in Seq(TaskIds) /\ fromQ[k] \in Seq(TaskIds)
                      /\ One(work[k]) \in Seq(TaskIds)
  BY OneType DEF Types, KernelTypes
<1>4. l[1] \in {"to", "work", "from"} => l[2] \in Pids
  BY DEF Locs
<1>5. l[1] \in {"queue", "sending", "got", "delivered", "to", "work", "from"}
  BY DEF Locs
<1> QED
  BY <1>1, <1>2, <1>3, <1>4, <1>5 DEF At

LEMMA ContentsTypeNext == Types' => Contents' \in Tables
<1> SUFFICES ASSUME Types', NEW l \in Locs PROVE At(l)' \in Seq(TaskIds)
  BY DEF Contents, Tables
<1>1. Queue' \in Seq(TaskIds)
  BY MastersAre DEF Queue, Runner, Types, PoolTypes, PoolRecord, Masters
<1>2. Sending' \in Seq(TaskIds) /\ One(gres') \in Seq(TaskIds) /\ delivered' \in Seq(TaskIds)
  BY OneType DEF Sending, Types, PlaceTypes
<1>3. \A k \in Pids : /\ toQ'[k] \in Seq(TaskIds) /\ fromQ'[k] \in Seq(TaskIds)
                      /\ One(work'[k]) \in Seq(TaskIds)
  BY OneType DEF Types, KernelTypes
<1>4. l[1] \in {"to", "work", "from"} => l[2] \in Pids
  BY DEF Locs
<1>5. l[1] \in {"queue", "sending", "got", "delivered", "to", "work", "from"}
  BY DEF Locs
<1> QED
  BY <1>1, <1>2, <1>3, <1>4, <1>5 DEF At

LEMMA LocKinds ==
    ASSUME NEW l \in Locs
    PROVE  \/ l \in {<<"queue", 0>>, <<"sending", 0>>, <<"got", 0>>, <<"delivered", 0>>}
           \/ \E k \in Pids : l \in {<<"to", k>>, <<"work", k>>, <<"from", k>>}
  BY DEF Locs

LEMMA LocsAre ==
    /\ {<<"queue", 0>>, <<"sending", 0>>, <<"got", 0>>, <<"delivered", 0>>} \subseteq Locs
    /\ \A k \in Pids : {<<"to", k>>, <<"work", k>>, <<"from", k>>} \subseteq Locs
  BY DEF Locs

LEMMA ContentsAt ==
    /\ Contents[<<"queue", 0>>] = Queue /\ Contents[<<"sending", 0>>] = Sending
    /\ Contents[<<"got", 0>>] = One(gres) /\ Contents[<<"delivered", 0>>] = delivered
    /\ \A k \in Pids : /\ Contents[<<"to", k>>] = toQ[k] /\ Contents[<<"work", k>>] = One(work[k])
                       /\ Contents[<<"from", k>>] = fromQ[k]
  BY DEF Contents, At, Locs

LEMMA ContentsNext ==
    /\ Contents'[<<"queue", 0>>] = Queue' /\ Contents'[<<"sending", 0>>] = Sending'
    /\ Contents'[<<"got", 0>>] = One(gres') /\ Contents'[<<"delivered", 0>>] = delivered'
    /\ \A k \in Pids : /\ Contents'[<<"to", k>>] = toQ'[k] /\ Contents'[<<"work", k>>] = One(work'[k])
                       /\ Contents'[<<"from", k>>] = fromQ'[k]
  BY DEF Contents, At, Locs

LEMMA SameContents ==
    ASSUME Queue' = Queue, Sending' = Sending, UNCHANGED <<gres, delivered, toQ, work, fromQ>>
    PROVE  Contents' = Contents
  BY DEF Contents, At

(* Nothing is being sent outside the sending, nothing was read outside the  *)
(* marking, and there is room for a task that comes back.                   *)
HandsInv ==
    /\ rpc # "sent" => snd.task = 0 /\ ~snd.ok
    /\ gpc # "mark" => gres = 0
    /\ rpc = "called" /\ forked => pool["runner"].queue = << >>
    /\ rpc = "sent" => Len(pool[Runner].queue) < MaxQueue

LEMMA SameQueue ==
    ASSUME \A n \in Masters : pool'[n].queue = pool[n].queue, UNCHANGED forked,
           rpc' = "called" <=> rpc = "called"
    PROVE  Queue' = Queue
  BY MastersAre DEF Queue, Runner

(* What a step that loses tasks is: a termination, a fault, or a worker     *)
(* whose result nobody can read.                                            *)
Lossy ==
    \/ cpc \notin {"create", "ready"}
    \/ faults' # 0
    \/ \E k \in Pids : proc[k] = "up" /\ ~Held(<<"from", k, "r">>)
Shift ==
    \/ /\ next_task_id' = next_task_id + 1 /\ next_task_id \in TaskIds
       /\ \/ Added(Contents, Contents', <<"queue", 0>>, next_task_id)
          \/ forked /\ Contents' = Contents
    \/ next_task_id' = next_task_id /\ Moves(Contents, Contents')
    \/ next_task_id' = next_task_id /\ Shrunk(Contents, Contents') /\ Lossy

LEMMA SameShift ==
    ASSUME Queue' = Queue, Sending' = Sending, UNCHANGED <<gres, delivered, toQ, work, fromQ>>,
           UNCHANGED next_task_id
    PROVE  Shift
  BY SameContents DEF Shift, Moves

(* The task in the process k and those in its pipe go with it.              *)
LEMMA ExitShift ==
    ASSUME Types, NEW k \in Pids, Queue' = Queue, Sending' = Sending,
           UNCHANGED <<gres, delivered, fromQ, next_task_id>>,
           toQ' = [toQ EXCEPT ![k] = << >>], work' = [work EXCEPT ![k] = 0]
    PROVE  Shrunk(Contents, Contents')
<1> SUFFICES ASSUME NEW l \in Locs
             PROVE  \/ Contents'[l] = Contents[l] \/ Contents'[l] = << >>
                    \/ (Contents[l] # << >> /\ Contents'[l] = Tail(Contents[l]))
  BY DEF Shrunk
<1>1. CASE l \in {<<"queue", 0>>, <<"sending", 0>>, <<"got", 0>>, <<"delivered", 0>>}
  BY <1>1, ContentsAt, ContentsNext
<1>2. ASSUME NEW j \in Pids, l = <<"to", j>> PROVE Contents'[l] \in {Contents[l], << >>}
  BY <1>2, ContentsAt, ContentsNext DEF Types, KernelTypes
<1>3. ASSUME NEW j \in Pids, l = <<"from", j>> PROVE Contents'[l] = Contents[l]
  BY <1>3, ContentsAt, ContentsNext
<1>4. ASSUME NEW j \in Pids, l = <<"work", j>> PROVE Contents'[l] \in {Contents[l], << >>}
  <2>1. work'[j] \in {work[j], 0} /\ One(0) = << >>
    BY DEF Types, KernelTypes, One
  <2>2. One(work'[j]) = One(work[j]) \/ One(work'[j]) = << >>
    BY <2>1
  <2>3. Contents'[l] = One(work'[j]) /\ Contents[l] = One(work[j])
    BY <1>4, ContentsAt, ContentsNext
  <2> QED
    BY <2>2, <2>3
<1> QED
  BY <1>1, <1>2, <1>3, <1>4, LocKinds

LEMMA HandsQuiet ==
    ASSUME HandsInv, UNCHANGED forked, \A n \in Masters : pool'[n].queue = pool[n].queue,
           snd' = snd \/ snd' = NoSend,
           rpc' # "sent" => snd' = NoSend \/ (rpc # "sent" /\ snd' = snd),
           gpc' # "mark" => gres' = 0 \/ (gpc # "mark" /\ gres' = gres),
           rpc' = "called" => rpc = "called", rpc' = "sent" => rpc = "sent"
    PROVE  HandsInv'
<1>1. "runner" \in Masters /\ Runner \in Masters /\ Runner' = Runner
  BY RunnerIsMaster DEF Masters, Runner
<1>2. pool'["runner"].queue = pool["runner"].queue /\ pool'[Runner].queue = pool[Runner].queue
  BY <1>1
<1> QED
  BY <1>1, <1>2 DEF HandsInv, NoSend

LEMMA HandsStep == Types /\ HandsInv /\ [Next]_vars => HandsInv'
<1> SUFFICES ASSUME Types /\ HandsInv, [Next]_vars PROVE HandsInv'
  OBVIOUS
<1>0. CASE UNCHANGED vars
  BY <1>0, HandsQuiet DEF vars, runVars, getVars
<1>1. CASE Create
  <2>1. \A n \in Masters : pool'[n].queue = pool[n].queue
    <3>1. ci \in Workers /\ "client" \in Masters
      BY <1>1, MastersAre DEF Create, Types, PlaceTypes
    <3>2. CASE create_worker_process("client", ci)
      BY <3>1, <3>2, CreateEffect DEF OnlyWorker
    <3>3. CASE CreateWorkerFails("client", ci)
      BY <3>1, <3>3, CreateFailsEffect DEF OnlyWorker
    <3> QED
      BY <1>1, <3>2, <3>3 DEF Create
  <2> QED
    BY <1>1, <2>1, HandsQuiet DEF Create, runVars, getVars
<1>2. CASE process_pool_submit_task
  <2>1. pool' = [pool EXCEPT !["client"].queue = Enqueue(pool["client"].queue, next_task_id)]
    BY <1>2, MastersAre DEF process_pool_submit_task, Types, PoolTypes, PoolRecord
  <2>2. pool'["runner"] = pool["runner"]
    BY <2>1 DEF Types, PoolTypes, Masters
  <2>3. UNCHANGED <<forked, rpc, snd, gpc, gres>> /\ (forked \/ rpc = "called")
    BY <1>2 DEF process_pool_submit_task, runVars, getVars
  <2> QED
    BY <2>2, <2>3 DEF HandsInv, Runner
<1>3. CASE RunBegin
  <2>1. rpc = "called" /\ rpc' = "test" /\ UNCHANGED <<forked, snd, gpc, gres>>
    BY <1>3 DEF RunBegin, getVars
  <2> QED
    BY <2>1 DEF HandsInv
<1>4. CASE RunTest
  BY <1>4, HandsQuiet DEF RunTest, NoSend, callVars, runVars, getVars, getRest, kernelVars
<1>5. CASE RunReap
  <2>1. \A n \in Masters : pool'[n].queue = pool[n].queue
    BY <1>5, ReapEffect, RunnerIsMaster DEF RunReap
  <2> QED
    BY <1>5, <2>1, HandsQuiet DEF RunReap, getVars
<1>6. CASE RunSkip
  BY <1>6, HandsQuiet DEF RunSkip, NextWorker, NoSend, callVars, runVars, getVars, getRest, kernelVars
<1>7. CASE RunClose
  <2>1. \A n \in Masters : pool'[n].queue = pool[n].queue
    BY <1>7, CloseEffect DEF OnlyWorker
  <2> QED
    BY <1>7, <2>1, HandsQuiet DEF RunClose, getVars
<1>8. CASE RunCreate
  <2>1. \A n \in Masters : pool'[n].queue = pool[n].queue
    <3>1. ri \in Workers /\ Runner \in Masters
      BY <1>8, RunnerIsMaster DEF Types, PlaceTypes
    <3>2. CASE create_worker_process(Runner, ri)
      BY <3>1, <3>2, CreateEffect DEF OnlyWorker
    <3>3. CASE CreateWorkerFails(Runner, ri)
      BY <3>1, <3>3, CreateFailsEffect DEF OnlyWorker
    <3> QED
      BY <1>8, <3>2, <3>3 DEF RunCreate
  <2> QED
    BY <1>8, <2>1, HandsQuiet DEF RunCreate, NextWorker, getVars
<1>9. CASE DispatchSend
  <2>1. /\ pool'[Runner].queue = Tail(pool[Runner].queue) /\ pool[Runner].queue # << >>
    BY <1>9, SendEffect
  <2>2. pool[Runner].queue \in Seq(TaskIds) /\ Len(pool[Runner].queue) <= MaxQueue
    BY RunnerIsMaster DEF Types, PoolTypes, PoolRecord
  <2>3. Len(pool'[Runner].queue) < MaxQueue
    BY <2>1, <2>2, TailType, PoolAssumption
  <2> QED
    BY <1>9, <2>3 DEF DispatchSend, HandsInv, Runner, getVars
<1>10. CASE DispatchMark
  <2>1. rpc' # "called" /\ rpc' # "sent" /\ snd' = NoSend /\ UNCHANGED <<gpc, gres>>
    BY <1>10 DEF DispatchMark, getVars
  <2> QED
    BY <2>1 DEF HandsInv, NoSend
<1>11. CASE DispatchDone
  <2>1. \A n \in Masters : pool'[n].queue = pool[n].queue
    BY <1>11, DoneEffect
  <2> QED
    BY <1>11, <2>1, HandsQuiet DEF DispatchDone, getVars
<1>12. CASE RunEnd
  <2>1. \A n \in Masters : pool'[n].queue = pool[n].queue
    <3>1. pool' = [pool EXCEPT ![Runner].running = FALSE]
      BY <1>12 DEF RunEnd
    <3> QED
      BY <3>1, SetRunning, MastersAre
  <2> QED
    BY <1>12, <2>1, HandsQuiet DEF RunEnd, runVars, getVars
<1>13. CASE GetSelect
  BY <1>13, HandsQuiet DEF GetSelect, NoSend, callVars, runVars, getVars, getRest, kernelVars
<1>14. CASE GetPick
  BY <1>14, HandsQuiet DEF GetPick, NoSend, callVars, runVars, getVars, getRest, kernelVars
<1>15. CASE GetRead
  BY <1>15, HandsQuiet DEF GetRead, NoSend, callVars, runVars, getVars, getRest, kernelVars
<1>16. CASE GetMark
  <2>1. \A n \in Masters : pool'[n].queue = pool[n].queue
    BY <1>16, GetMarkEffect DEF OnlyWorker
  <2> QED
    BY <1>16, <2>1, HandsQuiet DEF GetMark, getRest, runVars
<1>17. CASE process_pool_stop
  <2>1. \A n \in Masters : pool'[n].queue = pool[n].queue
    <3>1. pool' = [pool EXCEPT !["client"].running = FALSE]
      BY <1>17 DEF process_pool_stop
    <3> QED
      BY <3>1, SetRunning, MastersAre
  <2> QED
    BY <1>17, <2>1, HandsQuiet DEF process_pool_stop, runVars, getVars
<1>18. CASE DestroyBegin
  <2>1. \A n \in Masters : pool'[n].queue = pool[n].queue
    <3>1. pool' = [pool EXCEPT !["client"].running = FALSE]
      BY <1>18 DEF DestroyBegin
    <3> QED
      BY <3>1, SetRunning, MastersAre
  <2> QED
    BY <1>18, <2>1, HandsQuiet DEF DestroyBegin, runVars, getVars
<1>19. CASE TerminateWorker
  <2>1. \A n \in Masters : pool'[n].queue = pool[n].queue
    BY <1>19, TerminateEffect DEF OnlyWorker
  <2> QED
    BY <1>19, <2>1, HandsQuiet DEF TerminateWorker, runVars, getVars
<1>20. CASE FreePool
  <2>1. \A n \in Masters : pool'[n].queue = pool[n].queue
    <3>1. reap_dead_children("client") \/ UNCHANGED pool
      BY <1>20 DEF FreePool
    <3> QED
      BY <3>1, ReapEffect, MastersAre
  <2> QED
    BY <1>20, <2>1, HandsQuiet DEF FreePool, runVars, getVars
<1>21. ASSUME NEW k \in Pids, WorkerRead(k) PROVE HandsInv'
  BY <1>21, HandsQuiet DEF WorkerRead, workerRest, runVars, getVars
<1>22. ASSUME NEW k \in Pids, WorkerEof(k) PROVE HandsInv'
  BY <1>22, HandsQuiet DEF WorkerEof, workerRest, runVars, getVars
<1>23. ASSUME NEW k \in Pids, WorkerReply(k) PROVE HandsInv'
  BY <1>23, HandsQuiet DEF WorkerReply, workerRest, runVars, getVars
<1>24. ASSUME NEW k \in Pids, WorkerCrash(k) PROVE HandsInv'
  BY <1>24, HandsQuiet DEF WorkerCrash, workerRest, runVars, getVars
<1> QED
  BY <1>0, <1>1, <1>2, <1>3, <1>4, <1>5, <1>6, <1>7, <1>8, <1>9, <1>10, <1>11, <1>12,
     <1>13, <1>14, <1>15, <1>16, <1>17, <1>18, <1>19, <1>20, <1>21, <1>22, <1>23, <1>24
     DEF Next, RunStep, WorkerStep, GetStep, DestroyStep

LEMMA MoveShift ==
    ASSUME NEW a \in Locs, NEW b \in Locs, Move(Contents, Contents', a, b), UNCHANGED next_task_id
    PROVE  Shift
  BY DEF Shift, Moves

LEMMA SameElsewhere ==
    ASSUME NEW X,
           <<"queue", 0>> \in X \/ Queue' = Queue, <<"sending", 0>> \in X \/ Sending' = Sending,
           <<"got", 0>> \in X \/ gres' = gres, <<"delivered", 0>> \in X \/ delivered' = delivered,
           \A k \in Pids : /\ <<"to", k>> \in X \/ toQ'[k] = toQ[k]
                           /\ <<"work", k>> \in X \/ work'[k] = work[k]
                           /\ <<"from", k>> \in X \/ fromQ'[k] = fromQ[k]
    PROVE  \A l \in Locs : l \notin X => Contents'[l] = Contents[l]
<1> SUFFICES ASSUME NEW l \in Locs, l \notin X PROVE Contents'[l] = Contents[l]
  OBVIOUS
<1>1. CASE l \in {<<"queue", 0>>, <<"sending", 0>>, <<"got", 0>>, <<"delivered", 0>>}
  BY <1>1, ContentsAt, ContentsNext
<1>2. ASSUME NEW k \in Pids, l \in {<<"to", k>>, <<"work", k>>, <<"from", k>>}
      PROVE  Contents'[l] = Contents[l]
  <2>1. /\ Contents[<<"to", k>>] = toQ[k] /\ Contents'[<<"to", k>>] = toQ'[k]
        /\ Contents[<<"work", k>>] = One(work[k]) /\ Contents'[<<"work", k>>] = One(work'[k])
        /\ Contents[<<"from", k>>] = fromQ[k] /\ Contents'[<<"from", k>>] = fromQ'[k]
    BY ContentsAt, ContentsNext
  <2>2. CASE l = <<"to", k>>
    BY <2>1, <2>2
  <2>3. CASE l = <<"work", k>>
    BY <2>1, <2>3
  <2>4. CASE l = <<"from", k>>
    BY <2>1, <2>4
  <2> QED
    BY <1>2, <2>2, <2>3, <2>4
<1> QED
  BY <1>1, <1>2, LocKinds

LEMMA ShiftStep == Types /\ HandsInv /\ [Next]_vars => Shift
<1> SUFFICES ASSUME Types /\ HandsInv, [Next]_vars PROVE Shift
  OBVIOUS
<1>0. CASE UNCHANGED vars
  <2>1. Queue' = Queue /\ Sending' = Sending
    BY <1>0 DEF vars, runVars, Queue, Runner, Sending
  <2> QED
    BY <1>0, <2>1, SameShift DEF vars, getVars, kernelVars
<1>1. CASE Create
  <2>1. \A n \in Masters : pool'[n].queue = pool[n].queue
    <3>1. ci \in Workers /\ "client" \in Masters
      BY <1>1, MastersAre DEF Create, Types, PlaceTypes
    <3>2. CASE create_worker_process("client", ci)
      BY <3>1, <3>2, CreateEffect DEF OnlyWorker
    <3>3. CASE CreateWorkerFails("client", ci)
      BY <3>1, <3>3, CreateFailsEffect DEF OnlyWorker
    <3> QED
      BY <1>1, <3>2, <3>3 DEF Create
  <2>2. Queue' = Queue
    BY <1>1, <2>1, SameQueue DEF Create, callVars, runVars, getVars, getRest, kernelVars
  <2>3. UNCHANGED <<snd, gres, delivered, toQ, work, fromQ, next_task_id>>
    BY <1>1, CreateEffect, CreateFailsEffect DEF Create, callVars, runVars, getVars, getRest, kernelVars, create_worker_process, SpawnKeeping, CreateWorkerFails
  <2> QED
    BY <2>2, <2>3, SameShift DEF Sending
<1>2. CASE process_pool_submit_task
  <2>1. pool' = [pool EXCEPT !["client"].queue = Enqueue(pool["client"].queue, next_task_id)]
    BY <1>2, MastersAre DEF process_pool_submit_task, Types, PoolTypes, PoolRecord
  <2>2. /\ UNCHANGED <<forked, rpc, snd, gres, delivered, toQ, work, fromQ>> /\ (forked \/ rpc = "called")
        /\ next_task_id \in TaskIds /\ next_task_id' = next_task_id + 1 /\ Len(pool["client"].queue) < MaxQueue
    BY <1>2 DEF process_pool_submit_task, runVars, getVars, kernelVars, Types, PoolTypes, TaskIds
  <2>3. CASE rpc = "called"
    <3>1. Queue' = Append(Queue, next_task_id)
      BY <2>1, <2>2, <2>3, MastersAre DEF Queue, Enqueue, Types, PoolTypes, PoolRecord
    <3>2. Sending' = Sending
      BY <2>2 DEF Sending
    <3>3. \A l \in Locs : l \notin {<<"queue", 0>>} => Contents'[l] = Contents[l]
      BY <2>2, <3>2, SameElsewhere
    <3>4. Contents'[<<"queue", 0>>] = Append(Contents[<<"queue", 0>>], next_task_id)
      BY <3>1, ContentsAt, ContentsNext
    <3> QED
      BY <2>2, <3>3, <3>4 DEF Shift, Added
  <2>4. CASE rpc # "called"
    <3>1. pool'["runner"] = pool["runner"] /\ forked /\ rpc' # "called"
      BY <2>1, <2>2, <2>4 DEF Types, PoolTypes, Masters
    <3>2. Queue' = Queue /\ Sending' = Sending
      BY <2>2, <2>4, <3>1 DEF Queue, Runner, Sending
    <3> QED
      BY <2>2, <3>1, <3>2, SameContents DEF Shift
  <2> QED
    BY <2>3, <2>4
<1>3. CASE RunBegin
  <2>1. rpc = "called" /\ rpc' = "test" /\ UNCHANGED <<forked, snd, gres, delivered, toQ, work, fromQ, next_task_id>>
    BY <1>3 DEF RunBegin, getVars, kernelVars
  <2>2. pool'[Runner].queue = pool["client"].queue
    BY <1>3, BeginEffect, MastersAre DEF Types, PoolTypes, PoolRecord
  <2>3. Queue' = Queue /\ Sending' = Sending
    BY <2>1, <2>2 DEF Queue, Sending, Runner
  <2> QED
    BY <2>1, <2>3, SameShift
<1>4. CASE RunTest
  <2>1. \A n \in Masters : pool'[n].queue = pool[n].queue
    BY <1>4 DEF RunTest, callVars, runVars, getVars, getRest, kernelVars
  <2>2. Queue' = Queue
    BY <1>4, <2>1, SameQueue DEF RunTest, callVars, runVars, getVars, getRest, kernelVars
  <2>3. UNCHANGED <<snd, gres, delivered, toQ, work, fromQ, next_task_id>>
    BY <1>4, CreateEffect, CreateFailsEffect DEF RunTest, callVars, runVars, getVars, getRest, kernelVars, create_worker_process, SpawnKeeping, CreateWorkerFails
  <2> QED
    BY <2>2, <2>3, SameShift DEF Sending
<1>5. CASE RunReap
  <2>1. \A n \in Masters : pool'[n].queue = pool[n].queue
    BY <1>5, ReapEffect, RunnerIsMaster DEF RunReap
  <2>2. Queue' = Queue
    BY <1>5, <2>1, SameQueue DEF RunReap, reap_dead_children, callVars, runVars, getVars, getRest, kernelVars
  <2>3. UNCHANGED <<snd, gres, delivered, toQ, work, fromQ, next_task_id>>
    BY <1>5, CreateEffect, CreateFailsEffect DEF RunReap, reap_dead_children, callVars, runVars, getVars, getRest, kernelVars, create_worker_process, SpawnKeeping, CreateWorkerFails
  <2> QED
    BY <2>2, <2>3, SameShift DEF Sending
<1>6. CASE RunSkip
  <2>1. \A n \in Masters : pool'[n].queue = pool[n].queue
    BY <1>6 DEF RunSkip, NextWorker, callVars, runVars, getVars, getRest, kernelVars
  <2>2. Queue' = Queue
    BY <1>6, <2>1, SameQueue DEF RunSkip, NextWorker, callVars, runVars, getVars, getRest, kernelVars
  <2>3. UNCHANGED <<snd, gres, delivered, toQ, work, fromQ, next_task_id>>
    BY <1>6, CreateEffect, CreateFailsEffect DEF RunSkip, NextWorker, callVars, runVars, getVars, getRest, kernelVars, create_worker_process, SpawnKeeping, CreateWorkerFails
  <2> QED
    BY <2>2, <2>3, SameShift DEF Sending
<1>7. CASE RunClose
  <2>1. \A n \in Masters : pool'[n].queue = pool[n].queue
    BY <1>7, CloseEffect DEF OnlyWorker
  <2>2. Queue' = Queue
    BY <1>7, <2>1, SameQueue DEF RunClose, callVars, runVars, getVars, getRest, kernelVars
  <2>3. UNCHANGED <<snd, gres, delivered, toQ, work, fromQ, next_task_id>>
    BY <1>7, CreateEffect, CreateFailsEffect DEF RunClose, callVars, runVars, getVars, getRest, kernelVars, create_worker_process, SpawnKeeping, CreateWorkerFails
  <2> QED
    BY <2>2, <2>3, SameShift DEF Sending
<1>8. CASE RunCreate
  <2>1. \A n \in Masters : pool'[n].queue = pool[n].queue
    <3>1. ri \in Workers /\ Runner \in Masters
      BY <1>8, RunnerIsMaster DEF Types, PlaceTypes
    <3>2. CASE create_worker_process(Runner, ri)
      BY <3>1, <3>2, CreateEffect DEF OnlyWorker
    <3>3. CASE CreateWorkerFails(Runner, ri)
      BY <3>1, <3>3, CreateFailsEffect DEF OnlyWorker
    <3> QED
      BY <1>8, <3>2, <3>3 DEF RunCreate
  <2>2. Queue' = Queue
    BY <1>8, <2>1, SameQueue DEF RunCreate, NextWorker, callVars, runVars, getVars, getRest, kernelVars
  <2>3. UNCHANGED <<snd, gres, delivered, toQ, work, fromQ, next_task_id>>
    BY <1>8, CreateEffect, CreateFailsEffect DEF RunCreate, NextWorker, callVars, runVars, getVars, getRest, kernelVars, create_worker_process, SpawnKeeping, CreateWorkerFails
  <2> QED
    BY <2>2, <2>3, SameShift DEF Sending
<1>9. CASE DispatchSend
  <2>1. /\ rpc = "dispatch" /\ rpc' = "sent"
        /\ UNCHANGED <<forked, gres, delivered, work, fromQ, next_task_id>>
    BY <1>9 DEF DispatchSend, getVars
  <2>2. PICK w \in Workers, t \in TaskIds, ok \in BOOLEAN, k \in Pids :
            /\ pool[Runner].queue # << >> /\ t = Head(pool[Runner].queue)
            /\ toQ' = IF ok THEN [toQ EXCEPT ![k] = Append(toQ[k], t)] ELSE toQ
            /\ snd' = [w |-> w, task |-> t, ok |-> ok]
            /\ pool'[Runner].queue = Tail(pool[Runner].queue)
    BY <1>9, SendEffect
  <2>3. /\ Queue = pool[Runner].queue /\ Queue' = Tail(Queue) /\ Queue # << >> /\ t = Head(Queue)
        /\ Queue \in Seq(TaskIds)
    BY <2>1, <2>2, MastersAre, WorkerOf DEF Queue, Runner
  <2>4. Sending = << >>
    BY <2>1 DEF HandsInv, Sending, One
  <2>5. CASE ok
    <3>1. Sending' = << >>
      BY <2>2, <2>5 DEF Sending
    <3>2. toQ'[k] = Append(toQ[k], t) /\ \A j \in Pids : j # k => toQ'[j] = toQ[j]
      BY <2>2, <2>5 DEF Types, KernelTypes
    <3>3. \A l \in Locs : l \notin {<<"queue", 0>>, <<"to", k>>} => Contents'[l] = Contents[l]
      BY <2>1, <2>4, <3>1, <3>2, SameElsewhere
    <3>4. /\ Contents[<<"queue", 0>>] = Queue /\ Contents'[<<"queue", 0>>] = Queue'
          /\ Contents[<<"to", k>>] = toQ[k] /\ Contents'[<<"to", k>>] = toQ'[k]
      BY ContentsAt, ContentsNext
    <3>5. Move(Contents, Contents', <<"queue", 0>>, <<"to", k>>)
      BY <2>3, <3>2, <3>3, <3>4 DEF Move
    <3> QED
      BY <2>1, <3>5, LocsAre, MoveShift
  <2>6. CASE ~ok
    <3>1. Sending' = Append(Sending, t)
      <4>1. Sending' = One(t) /\ t # 0
        BY <2>2, <2>6 DEF Sending, TaskIds
      <4> QED
        BY <2>4, <4>1 DEF One
    <3>3. \A l \in Locs : l \notin {<<"queue", 0>>, <<"sending", 0>>} => Contents'[l] = Contents[l]
      BY <2>1, <2>2, <2>6, SameElsewhere
    <3>4. /\ Contents[<<"queue", 0>>] = Queue /\ Contents'[<<"queue", 0>>] = Queue'
          /\ Contents[<<"sending", 0>>] = Sending /\ Contents'[<<"sending", 0>>] = Sending'
      BY ContentsAt, ContentsNext
    <3>5. Move(Contents, Contents', <<"queue", 0>>, <<"sending", 0>>)
      BY <2>3, <3>1, <3>3, <3>4 DEF Move
    <3> QED
      BY <2>1, <3>5, LocsAre, MoveShift
  <2> QED
    BY <2>5, <2>6
<1>10. CASE DispatchMark
  <2>1. /\ rpc = "sent" /\ rpc' # "called" /\ snd' = NoSend
        /\ UNCHANGED <<forked, gres, delivered, toQ, work, fromQ, next_task_id>>
    BY <1>10 DEF DispatchMark, getVars, kernelVars
  <2>2. /\ snd.task \in TaskIds
        /\ pool'[Runner].queue = IF snd.ok THEN pool[Runner].queue ELSE Enqueue(pool[Runner].queue, snd.task)
    BY <1>10, MarkEffect
  <2>3. Queue = pool[Runner].queue /\ Queue' = pool'[Runner].queue /\ Sending' = << >>
    BY <2>1 DEF Queue, Runner, Sending, NoSend, One
  <2>4. CASE snd.ok
    <3>1. Queue' = Queue /\ Sending' = Sending
      BY <2>2, <2>3, <2>4 DEF Sending
    <3> QED
      BY <2>1, <3>1, SameShift
  <2>5. CASE ~snd.ok
    <3>1. Sending = << snd.task >>
      BY <2>2, <2>5 DEF Sending, One, TaskIds
    <3>2. Sending # << >> /\ Tail(Sending) = << >> /\ Head(Sending) = snd.task
      BY <3>1, <2>2
    <3>6. Queue' = Append(Queue, snd.task)
      BY <2>1, <2>2, <2>3, <2>5 DEF HandsInv, Enqueue
    <3>3. \A l \in Locs : l \notin {<<"sending", 0>>, <<"queue", 0>>} => Contents'[l] = Contents[l]
      BY <2>1, SameElsewhere
    <3>4. /\ Contents[<<"queue", 0>>] = Queue /\ Contents'[<<"queue", 0>>] = Queue'
          /\ Contents[<<"sending", 0>>] = Sending /\ Contents'[<<"sending", 0>>] = Sending'
      BY ContentsAt, ContentsNext
    <3>5. Move(Contents, Contents', <<"sending", 0>>, <<"queue", 0>>)
      BY <2>3, <3>2, <3>6, <3>3, <3>4 DEF Move
    <3> QED
      BY <2>1, <3>5, LocsAre, MoveShift
  <2> QED
    BY <2>4, <2>5
<1>11. CASE DispatchDone
  <2>1. \A n \in Masters : pool'[n].queue = pool[n].queue
    BY <1>11, DoneEffect
  <2>2. Queue' = Queue
    BY <1>11, <2>1, SameQueue DEF DispatchDone, callVars, runVars, getVars, getRest, kernelVars
  <2>3. UNCHANGED <<snd, gres, delivered, toQ, work, fromQ, next_task_id>>
    BY <1>11, CreateEffect, CreateFailsEffect DEF DispatchDone, callVars, runVars, getVars, getRest, kernelVars, create_worker_process, SpawnKeeping, CreateWorkerFails
  <2> QED
    BY <2>2, <2>3, SameShift DEF Sending
<1>12. CASE RunEnd
  <2>1. \A n \in Masters : pool'[n].queue = pool[n].queue
    <3>1. pool' = [pool EXCEPT ![Runner].running = FALSE]
      BY <1>12 DEF RunEnd
    <3> QED
      BY <3>1, SetRunning, MastersAre
  <2>2. Queue' = Queue
    BY <1>12, <2>1, SameQueue DEF RunEnd, callVars, runVars, getVars, getRest, kernelVars
  <2>3. UNCHANGED <<snd, gres, delivered, toQ, work, fromQ, next_task_id>>
    BY <1>12, CreateEffect, CreateFailsEffect DEF RunEnd, callVars, runVars, getVars, getRest, kernelVars, create_worker_process, SpawnKeeping, CreateWorkerFails
  <2> QED
    BY <2>2, <2>3, SameShift DEF Sending
<1>13. CASE GetSelect
  <2>1. \A n \in Masters : pool'[n].queue = pool[n].queue
    BY <1>13 DEF GetSelect, callVars, runVars, getVars, getRest, kernelVars
  <2>2. Queue' = Queue
    BY <1>13, <2>1, SameQueue DEF GetSelect, callVars, runVars, getVars, getRest, kernelVars
  <2>3. UNCHANGED <<snd, gres, delivered, toQ, work, fromQ, next_task_id>>
    BY <1>13, CreateEffect, CreateFailsEffect DEF GetSelect, callVars, runVars, getVars, getRest, kernelVars, create_worker_process, SpawnKeeping, CreateWorkerFails
  <2> QED
    BY <2>2, <2>3, SameShift DEF Sending
<1>14. CASE GetPick
  <2>1. \A n \in Masters : pool'[n].queue = pool[n].queue
    BY <1>14 DEF GetPick, callVars, runVars, getVars, getRest, kernelVars
  <2>2. Queue' = Queue
    BY <1>14, <2>1, SameQueue DEF GetPick, callVars, runVars, getVars, getRest, kernelVars
  <2>3. UNCHANGED <<snd, gres, delivered, toQ, work, fromQ, next_task_id>>
    BY <1>14, CreateEffect, CreateFailsEffect DEF GetPick, callVars, runVars, getVars, getRest, kernelVars, create_worker_process, SpawnKeeping, CreateWorkerFails
  <2> QED
    BY <2>2, <2>3, SameShift DEF Sending
<1>15. CASE GetRead
  <2>1. UNCHANGED <<forked, rpc, snd, delivered, toQ, work, pool, next_task_id>> /\ gpc = "read"
    BY <1>15 DEF GetRead, getRest, runVars
  <2>2. Queue' = Queue /\ Sending' = Sending
    BY <2>1 DEF Queue, Runner, Sending
  <2>3. gres = 0
    BY <2>1 DEF HandsInv
  <2>4. \/ gres' = gres /\ fromQ' = fromQ
        \/ \E k \in Pids : fromQ[k] # << >> /\ gres' = Head(fromQ[k]) /\ fromQ' = [fromQ EXCEPT ![k] = Tail(fromQ[k])]
    BY <1>15, <2>3, GetReadEffect
  <2>5. CASE gres' = gres /\ fromQ' = fromQ
    BY <2>1, <2>2, <2>5, SameShift
  <2>6. ASSUME NEW k \in Pids, fromQ[k] # << >>, gres' = Head(fromQ[k]), fromQ' = [fromQ EXCEPT ![k] = Tail(fromQ[k])]
        PROVE  Shift
    <3>1. fromQ[k] \in Seq(TaskIds)
      BY DEF Types, KernelTypes
    <3>2. gres' \in TaskIds
      BY <2>6, <3>1, TailType
    <3>3. One(gres) = << >> /\ One(gres') = << gres' >>
      BY <2>3, <3>2 DEF One, TaskIds
    <3>4. fromQ'[k] = Tail(fromQ[k]) /\ \A j \in Pids : j # k => fromQ'[j] = fromQ[j]
      BY <2>6 DEF Types, KernelTypes
    <3>5. \A l \in Locs : l \notin {<<"from", k>>, <<"got", 0>>} => Contents'[l] = Contents[l]
      BY <2>1, <2>2, <3>4, SameElsewhere
    <3>6. /\ Contents[<<"got", 0>>] = << >> /\ Contents'[<<"got", 0>>] = << gres' >>
          /\ Contents[<<"from", k>>] = fromQ[k] /\ Contents'[<<"from", k>>] = fromQ'[k]
      BY <3>3, ContentsAt, ContentsNext
    <3>7. Append(<< >>, gres') = << gres' >>
      OBVIOUS
    <3>8. Move(Contents, Contents', <<"from", k>>, <<"got", 0>>)
      BY <2>6, <3>4, <3>5, <3>6, <3>7 DEF Move
    <3> QED
      BY <2>1, <3>8, LocsAre, MoveShift
  <2> QED
    BY <2>4, <2>5, <2>6
<1>16. CASE GetMark
  <2>1. \A n \in Masters : pool'[n].queue = pool[n].queue
    BY <1>16, GetMarkEffect DEF OnlyWorker
  <2>2. /\ UNCHANGED <<forked, rpc, snd, toQ, work, fromQ, next_task_id>> /\ gres' = 0
        /\ delivered' = IF gres = 0 THEN delivered ELSE Append(delivered, gres)
    BY <1>16 DEF GetMark, getRest, runVars
  <2>3. Queue' = Queue /\ Sending' = Sending
    BY <2>1, <2>2, SameQueue DEF Sending
  <2>4. CASE gres = 0
    BY <2>2, <2>3, <2>4, SameShift
  <2>5. CASE gres # 0
    <3>1. gres \in TaskIds
      BY <2>5 DEF Types, PlaceTypes, TaskIds
    <3>2. One(gres') = << >> /\ One(gres) = << gres >>
      BY <2>2, <2>5 DEF One
    <3>3. Contents[<<"got", 0>>] = << gres >> /\ Contents'[<<"got", 0>>] = << >>
      BY <3>2, ContentsAt, ContentsNext
    <3>4. Head(<< gres >>) = gres /\ Tail(<< gres >>) = << >> /\ << gres >> # << >>
      OBVIOUS
    <3>5. \A l \in Locs : l \notin {<<"got", 0>>, <<"delivered", 0>>} => Contents'[l] = Contents[l]
      BY <2>2, <2>3, SameElsewhere
    <3>6. Contents'[<<"delivered", 0>>] = Append(Contents[<<"delivered", 0>>], gres)
      BY <2>2, <2>5, ContentsAt, ContentsNext
    <3>7. Move(Contents, Contents', <<"got", 0>>, <<"delivered", 0>>)
      BY <3>3, <3>4, <3>5, <3>6 DEF Move
    <3> QED
      BY <2>2, <3>7, LocsAre, MoveShift
  <2> QED
    BY <2>4, <2>5
<1>17. CASE process_pool_stop
  <2>1. \A n \in Masters : pool'[n].queue = pool[n].queue
    <3>1. pool' = [pool EXCEPT !["client"].running = FALSE]
      BY <1>17 DEF process_pool_stop
    <3> QED
      BY <3>1, SetRunning, MastersAre
  <2>2. Queue' = Queue
    BY <1>17, <2>1, SameQueue DEF process_pool_stop, callVars, runVars, getVars, getRest, kernelVars
  <2>3. UNCHANGED <<snd, gres, delivered, toQ, work, fromQ, next_task_id>>
    BY <1>17, CreateEffect, CreateFailsEffect DEF process_pool_stop, callVars, runVars, getVars, getRest, kernelVars, create_worker_process, SpawnKeeping, CreateWorkerFails
  <2> QED
    BY <2>2, <2>3, SameShift DEF Sending
<1>18. CASE DestroyBegin
  <2>1. \A n \in Masters : pool'[n].queue = pool[n].queue
    <3>1. pool' = [pool EXCEPT !["client"].running = FALSE]
      BY <1>18 DEF DestroyBegin
    <3> QED
      BY <3>1, SetRunning, MastersAre
  <2>2. Queue' = Queue
    BY <1>18, <2>1, SameQueue DEF DestroyBegin, callVars, runVars, getVars, getRest, kernelVars
  <2>3. UNCHANGED <<snd, gres, delivered, toQ, work, fromQ, next_task_id>>
    BY <1>18, CreateEffect, CreateFailsEffect DEF DestroyBegin, callVars, runVars, getVars, getRest, kernelVars, create_worker_process, SpawnKeeping, CreateWorkerFails
  <2> QED
    BY <2>2, <2>3, SameShift DEF Sending
<1>19. CASE TerminateWorker
  <2>1. \A n \in Masters : pool'[n].queue = pool[n].queue
    BY <1>19, TerminateEffect DEF OnlyWorker
  <2>2. /\ UNCHANGED <<forked, rpc, snd, gres, delivered, fromQ, next_task_id>> /\ cpc \in {"destroy", "undo"}
    BY <1>19 DEF TerminateWorker, runVars, getVars
  <2>3. Queue' = Queue /\ Sending' = Sending
    BY <2>1, <2>2, SameQueue DEF Sending
  <2>4. pool["client"].workers[ci].pid \in Pids \cup {None}
    BY <1>19, TerminateEffect, MastersAre, WorkerOf DEF WorkerRecord
  <2>5. CASE pool["client"].workers[ci].pid = None
    <3>1. UNCHANGED <<toQ, work>>
      BY <1>19, <2>5 DEF TerminateWorker
    <3> QED
      BY <2>2, <2>3, <3>1, SameShift
  <2>6. CASE pool["client"].workers[ci].pid # None
    <3>1. PICK k \in Pids : k = pool["client"].workers[ci].pid
      BY <2>4, <2>6
    <3>2. toQ' = [toQ EXCEPT ![k] = << >>] /\ work' = [work EXCEPT ![k] = 0]
      BY <1>19, <2>6, <3>1 DEF TerminateWorker
    <3>3. Shrunk(Contents, Contents')
      BY <2>2, <2>3, <3>2, ExitShift
    <3> QED
      BY <2>2, <3>3 DEF Shift, Lossy
  <2> QED
    BY <2>5, <2>6
<1>20. CASE FreePool
  <2>1. \A n \in Masters : pool'[n].queue = pool[n].queue
    <3>1. reap_dead_children("client") \/ UNCHANGED pool
      BY <1>20 DEF FreePool
    <3> QED
      BY <3>1, ReapEffect, MastersAre
  <2>2. Queue' = Queue
    BY <1>20, <2>1, SameQueue DEF FreePool, reap_dead_children, callVars, runVars, getVars, getRest, kernelVars
  <2>3. UNCHANGED <<snd, gres, delivered, toQ, work, fromQ, next_task_id>>
    BY <1>20, CreateEffect, CreateFailsEffect DEF FreePool, reap_dead_children, callVars, runVars, getVars, getRest, kernelVars, create_worker_process, SpawnKeeping, CreateWorkerFails
  <2> QED
    BY <2>2, <2>3, SameShift DEF Sending
<1>21. ASSUME NEW k \in Pids, WorkerRead(k) PROVE Shift
  <2>1. UNCHANGED <<forked, rpc, pool, snd, gres, delivered, next_task_id, fromQ>> /\ proc[k] = "up"
    BY <1>21 DEF WorkerRead, workerRest, runVars, getVars
  <2>2. Queue' = Queue /\ Sending' = Sending
    BY <2>1 DEF Queue, Runner, Sending
  <2>3. toQ[k] \in Seq(TaskIds) /\ toQ[k] # << >> /\ work[k] = 0
    BY <1>21 DEF WorkerRead, Types, KernelTypes
  <2>4. Head(toQ[k]) \in TaskIds
    BY <2>3, TailType
  <2>5. /\ toQ'[k] = Tail(toQ[k]) /\ work'[k] = Head(toQ[k])
        /\ \A j \in Pids : j # k => toQ'[j] = toQ[j] /\ work'[j] = work[j]
    BY <1>21 DEF WorkerRead, Types, KernelTypes
  <2>6. One(work[k]) = << >> /\ One(work'[k]) = << Head(toQ[k]) >>
    BY <2>3, <2>4, <2>5 DEF One, TaskIds
  <2>7. \A l \in Locs : l \notin {<<"to", k>>, <<"work", k>>} => Contents'[l] = Contents[l]
    BY <2>1, <2>2, <2>5, SameElsewhere
  <2>8. /\ Contents[<<"to", k>>] = toQ[k] /\ Contents'[<<"to", k>>] = toQ'[k]
        /\ Contents[<<"work", k>>] = << >> /\ Contents'[<<"work", k>>] = << Head(toQ[k]) >>
    BY <2>6, ContentsAt, ContentsNext
  <2>9. Append(<< >>, Head(toQ[k])) = << Head(toQ[k]) >>
    OBVIOUS
  <2>10. Move(Contents, Contents', <<"to", k>>, <<"work", k>>)
    BY <2>3, <2>5, <2>7, <2>8, <2>9 DEF Move
  <2> QED
    BY <2>1, <2>10, LocsAre, MoveShift
<1>22. ASSUME NEW k \in Pids, WorkerEof(k) PROVE Shift
  <2>1. UNCHANGED <<forked, rpc, pool, snd, gres, delivered, next_task_id, fromQ>> /\ proc[k] = "up"
    BY <1>22 DEF WorkerEof, Exit, workerRest, runVars, getVars
  <2>2. Queue' = Queue /\ Sending' = Sending
    BY <2>1 DEF Queue, Runner, Sending
  <2>3. toQ' = toQ /\ work' = work
    BY <1>22 DEF WorkerEof, Exit, Types, KernelTypes
  <2> QED
    BY <2>1, <2>2, <2>3, SameShift
<1>23. ASSUME NEW k \in Pids, WorkerReply(k) PROVE Shift
  <2>1. UNCHANGED <<forked, rpc, pool, snd, gres, delivered, next_task_id>> /\ proc[k] = "up"
    BY <1>23 DEF WorkerReply, workerRest, runVars, getVars
  <2>2. Queue' = Queue /\ Sending' = Sending
    BY <2>1 DEF Queue, Runner, Sending
  <2>3. CASE Held(<<"from", k, "r">>)
    <3>1. /\ fromQ'[k] = Append(fromQ[k], work[k]) /\ work'[k] = 0 /\ toQ' = toQ /\ work[k] \in TaskIds
          /\ \A j \in Pids : j # k => fromQ'[j] = fromQ[j] /\ work'[j] = work[j]
      BY <1>23, <2>3 DEF WorkerReply, Types, KernelTypes, TaskIds
    <3>2. One(work[k]) = << work[k] >> /\ One(work'[k]) = << >>
      BY <3>1 DEF One, TaskIds
    <3>3. Contents[<<"work", k>>] = << work[k] >> /\ Contents'[<<"work", k>>] = << >>
      BY <3>2, ContentsAt, ContentsNext
    <3>4. Head(<< work[k] >>) = work[k] /\ Tail(<< work[k] >>) = << >> /\ << work[k] >> # << >>
      OBVIOUS
    <3>5. \A l \in Locs : l \notin {<<"work", k>>, <<"from", k>>} => Contents'[l] = Contents[l]
      BY <2>1, <2>2, <3>1, SameElsewhere
    <3>6. Contents'[<<"from", k>>] = Append(Contents[<<"from", k>>], work[k])
      BY <3>1, ContentsAt, ContentsNext
    <3>7. Move(Contents, Contents', <<"work", k>>, <<"from", k>>)
      BY <3>3, <3>4, <3>5, <3>6 DEF Move
    <3> QED
      BY <2>1, <3>7, LocsAre, MoveShift
  <2>4. CASE ~Held(<<"from", k, "r">>)
    <3>1. toQ' = [toQ EXCEPT ![k] = << >>] /\ work' = [work EXCEPT ![k] = 0] /\ fromQ' = fromQ
      BY <1>23, <2>4 DEF WorkerReply, Exit
    <3>2. Shrunk(Contents, Contents')
      BY <2>1, <2>2, <3>1, ExitShift
    <3> QED
      BY <2>1, <2>4, <3>2 DEF Shift, Lossy
  <2> QED
    BY <2>3, <2>4
<1>24. ASSUME NEW k \in Pids, WorkerCrash(k) PROVE Shift
  <2>1. UNCHANGED <<forked, rpc, pool, snd, gres, delivered, next_task_id, fromQ>> /\ proc[k] = "up"
    BY <1>24 DEF WorkerCrash, workerRest, runVars, getVars
  <2>2. Queue' = Queue /\ Sending' = Sending
    BY <2>1 DEF Queue, Runner, Sending
  <2>3. toQ' = [toQ EXCEPT ![k] = << >>] /\ work' = [work EXCEPT ![k] = 0] /\ faults' # 0
    BY <1>24 DEF WorkerCrash, Exit, Types, PlaceTypes
  <2>4. Shrunk(Contents, Contents')
    BY <2>1, <2>2, <2>3, ExitShift
  <2> QED
    BY <2>1, <2>3, <2>4 DEF Shift, Lossy
<1> QED
  BY <1>0, <1>1, <1>2, <1>3, <1>4, <1>5, <1>6, <1>7, <1>8, <1>9, <1>10, <1>11, <1>12,
     <1>13, <1>14, <1>15, <1>16, <1>17, <1>18, <1>19, <1>20, <1>21, <1>22, <1>23, <1>24
     DEF Next, RunStep, WorkerStep, GetStep, DestroyStep

(* No task is in two places.                                                *)
ApartInv == HandsInv /\ Apart(Contents) /\ Below(Contents, next_task_id)

LEMMA ApartInit == Init => ApartInv
<1> SUFFICES ASSUME Init PROVE ApartInv
  OBVIOUS
<1>1. /\ Queue = << >> /\ Sending = << >> /\ One(gres) = << >> /\ delivered = << >>
      /\ \A k \in Pids : toQ[k] = << >> /\ One(work[k]) = << >> /\ fromQ[k] = << >>
  BY MastersAre DEF Init, Queue, Sending, One, NoSend
<1>2. \A l \in Locs : Contents[l] = << >>
  BY <1>1, LocKinds, ContentsAt
<1>3. HandsInv
  BY MastersAre DEF Init, HandsInv, NoSend, Masters
<1> QED
  BY <1>2, <1>3 DEF ApartInv, Apart, Below

LEMMA ApartStep == Types /\ ApartInv /\ [Next]_vars => ApartInv'
<1> SUFFICES ASSUME Types, ApartInv, [Next]_vars PROVE ApartInv'
  OBVIOUS
<1>1. HandsInv' /\ Shift /\ Types'
  BY TypesStep, HandsStep, ShiftStep DEF ApartInv
<1>2. Contents \in Tables /\ next_task_id \in Nat
  BY ContentsType DEF Types, PoolTypes
<1>3. Contents' \in Tables
  BY <1>1, ContentsTypeNext
<1>4. Apart(Contents) /\ Below(Contents, next_task_id)
  BY DEF ApartInv
<1> DEFINE C == Contents
           D == Contents'
           n == next_task_id
<1> HIDE DEF C, D, n
<1>5. Apart(D) /\ Below(D, next_task_id')
  <2>1. CASE /\ next_task_id' = n + 1 /\ n \in TaskIds
             /\ Added(C, D, <<"queue", 0>>, n) \/ (forked /\ D = C)
    <3>1. CASE Added(C, D, <<"queue", 0>>, n)
      BY <1>2, <1>3, <1>4, <2>1, <3>1, LocsAre, AddedKeeps DEF C, D, n
    <3>2. CASE D = C
      <4>1. Below(C, n + 1)
        <5>1. \A l \in Locs : \A i \in 1..Len(C[l]) : C[l][i] \in Nat /\ C[l][i] < n
          <6>1. \A l \in Locs : C[l] \in Seq(TaskIds)
            BY <1>2 DEF C, Tables
          <6>2. \A l \in Locs : \A i \in 1..Len(C[l]) : C[l][i] \in TaskIds
            BY <6>1
          <6> QED
            BY <6>2, <1>4 DEF C, n, Below, TaskIds
        <5>2. n \in Nat
          BY <1>2 DEF n
        <5> QED
          BY <5>1, <5>2 DEF Below
      <4> QED
        BY <1>4, <2>1, <3>2, <4>1 DEF C, D, n
    <3> QED
      BY <2>1, <3>1, <3>2
  <2>2. CASE next_task_id' = n /\ Moves(C, D)
    <3>1. CASE D = C
      BY <1>4, <2>2, <3>1 DEF C, D, n
    <3>2. ASSUME NEW a \in Locs, NEW b \in Locs, Move(C, D, a, b)
          PROVE  Apart(D) /\ Below(D, next_task_id')
      BY <1>2, <1>3, <1>4, <2>2, <3>2, MoveKeeps DEF C, D, n
    <3> QED
      BY <2>2, <3>1, <3>2 DEF Moves
  <2>3. CASE next_task_id' = n /\ Shrunk(C, D)
    BY <1>2, <1>3, <1>4, <2>3, ShrunkKeeps DEF C, D, n
  <2> QED
    BY <1>1, <2>1, <2>2, <2>3 DEF Shift, C, D, n
<1> QED
  BY <1>1, <1>5 DEF ApartInv, D

LEMMA ApartThm == Spec => [](Types /\ ApartInv)
<1>1. Init => Types /\ ApartInv
  BY TypesInit, ApartInit
<1>2. Types /\ ApartInv /\ [Next]_vars => (Types /\ ApartInv)'
  BY TypesStep, ApartStep
<1> QED
  BY <1>1, <1>2, PTL DEF Spec

\* What Places calls position i of place l of the table.
PlaceOf(l, i) ==
    IF l[1] \in {"to", "from"} THEN <<l, i>>
    ELSE IF l[1] = "work" THEN l
    ELSE IF l[1] \in {"queue", "delivered"} THEN <<l[1], i>>
    ELSE <<l[1], 1>>

LEMMA PositionsAre ==
    ASSUME NEW q \in Seq(TaskIds), NEW t, NEW i
    PROVE  i \in Positions(q, t) <=> i \in 1..Len(q) /\ q[i] = t
  BY DEF Positions

LEMMA OneAt ==
    ASSUME NEW t \in TaskIds, NEW u
    PROVE  u = t => One(u) = << t >> /\ Len(One(u)) = 1 /\ One(u)[1] = t
  BY DEF One, TaskIds

\* Every place that Places names is a position of the table that holds t.
LEMMA PlaceInTable ==
    ASSUME Types, HandsInv, NEW t \in TaskIds, NEW p \in Places(t)
    PROVE  \E l \in Locs : \E i \in 1..Len(Contents[l]) : Contents[l][i] = t /\ p = PlaceOf(l, i)
<1>1. CASE p \in {"queue"} \X Positions(pool[Runner].queue, t)
  <2>1. PICK i \in Positions(pool[Runner].queue, t) : p = <<"queue", i>>
    BY <1>1
  <2>2. pool[Runner].queue \in Seq(TaskIds)
    BY MastersAre DEF Types, PoolTypes, PoolRecord
  <2>3. i \in 1..Len(pool[Runner].queue) /\ pool[Runner].queue[i] = t
    BY <2>2, PositionsAre
  <2>4. pool[Runner].queue = Queue
    <3>1. CASE rpc = "called" /\ forked
      <4>1. pool[Runner].queue = << >>
        BY <3>1 DEF HandsInv, Runner
      <4> QED
        BY <4>1, <2>3
    <3> QED
      BY <3>1 DEF Queue, Runner, Types, KernelTypes, PoolTypes
  <2>5. Contents[<<"queue", 0>>] = pool[Runner].queue
    BY <2>4, ContentsAt
  <2>6. p = PlaceOf(<<"queue", 0>>, i)
    BY <2>1 DEF PlaceOf
  <2>7. <<"queue", 0>> \in Locs
    BY LocsAre
  <2> QED
    BY <2>3, <2>5, <2>6, <2>7
<1>2. CASE p \in {<<"sending", 1>> : x \in {y \in {snd} : y.task = t /\ ~y.ok}}
  <2>1. p = <<"sending", 1>> /\ snd.task = t /\ ~snd.ok
    BY <1>2
  <2>2. Contents[<<"sending", 0>>] = One(snd.task)
    BY <2>1, ContentsAt DEF Sending
  <2>3. p = PlaceOf(<<"sending", 0>>, 1)
    BY <2>1 DEF PlaceOf
  <2>4. <<"sending", 0>> \in Locs
    BY LocsAre
  <2>5. 1 \in 1..Len(Contents[<<"sending", 0>>]) /\ Contents[<<"sending", 0>>][1] = t
    BY <2>1, <2>2, OneAt
  <2> QED
    BY <2>3, <2>4, <2>5
<1>3. ASSUME NEW k \in Pids, p \in {<<"to", k>>} \X Positions(toQ[k], t)
      PROVE  \E l \in Locs : \E i \in 1..Len(Contents[l]) : Contents[l][i] = t /\ p = PlaceOf(l, i)
  <2>1. PICK i \in Positions(toQ[k], t) : p = << <<"to", k>>, i>>
    BY <1>3
  <2>2. toQ[k] \in Seq(TaskIds)
    BY DEF Types, KernelTypes
  <2>3. i \in 1..Len(toQ[k]) /\ toQ[k][i] = t
    BY <2>2, PositionsAre
  <2>4. Contents[<<"to", k>>] = toQ[k]
    BY ContentsAt
  <2>5. p = PlaceOf(<<"to", k>>, i)
    BY <2>1 DEF PlaceOf
  <2>6. <<"to", k>> \in Locs
    BY LocsAre
  <2> QED
    BY <2>3, <2>4, <2>5, <2>6
<1>4. CASE p \in {<<"work", k>> : k \in {j \in Pids : work[j] = t}}
  <2>1. PICK k \in Pids : p = <<"work", k>> /\ work[k] = t
    BY <1>4
  <2>2. Contents[<<"work", k>>] = One(work[k])
    BY ContentsAt
  <2>3. p = PlaceOf(<<"work", k>>, 1)
    BY <2>1 DEF PlaceOf
  <2>4. <<"work", k>> \in Locs
    BY LocsAre
  <2>5. 1 \in 1..Len(Contents[<<"work", k>>]) /\ Contents[<<"work", k>>][1] = t
    BY <2>1, <2>2, OneAt
  <2> QED
    BY <2>3, <2>4, <2>5
<1>5. ASSUME NEW k \in Pids, p \in {<<"from", k>>} \X Positions(fromQ[k], t)
      PROVE  \E l \in Locs : \E i \in 1..Len(Contents[l]) : Contents[l][i] = t /\ p = PlaceOf(l, i)
  <2>1. PICK i \in Positions(fromQ[k], t) : p = << <<"from", k>>, i>>
    BY <1>5
  <2>2. fromQ[k] \in Seq(TaskIds)
    BY DEF Types, KernelTypes
  <2>3. i \in 1..Len(fromQ[k]) /\ fromQ[k][i] = t
    BY <2>2, PositionsAre
  <2>4. Contents[<<"from", k>>] = fromQ[k]
    BY ContentsAt
  <2>5. p = PlaceOf(<<"from", k>>, i)
    BY <2>1 DEF PlaceOf
  <2>6. <<"from", k>> \in Locs
    BY LocsAre
  <2> QED
    BY <2>3, <2>4, <2>5, <2>6
<1>6. CASE p \in {<<"got", 1>> : x \in {y \in {gres} : y = t}}
  <2>1. p = <<"got", 1>> /\ gres = t
    BY <1>6
  <2>2. Contents[<<"got", 0>>] = One(gres)
    BY ContentsAt
  <2>3. p = PlaceOf(<<"got", 0>>, 1)
    BY <2>1 DEF PlaceOf
  <2>4. <<"got", 0>> \in Locs
    BY LocsAre
  <2>5. 1 \in 1..Len(Contents[<<"got", 0>>]) /\ Contents[<<"got", 0>>][1] = t
    BY <2>1, <2>2, OneAt
  <2> QED
    BY <2>3, <2>4, <2>5
<1>7. CASE p \in {"delivered"} \X Positions(delivered, t)
  <2>1. PICK i \in Positions(delivered, t) : p = <<"delivered", i>>
    BY <1>7
  <2>2. delivered \in Seq(TaskIds)
    BY DEF Types, PlaceTypes
  <2>3. i \in 1..Len(delivered) /\ delivered[i] = t
    BY <2>2, PositionsAre
  <2>4. Contents[<<"delivered", 0>>] = delivered
    BY ContentsAt
  <2>5. p = PlaceOf(<<"delivered", 0>>, i)
    BY <2>1 DEF PlaceOf
  <2>6. <<"delivered", 0>> \in Locs
    BY LocsAre
  <2> QED
    BY <2>3, <2>4, <2>5, <2>6
<1>8. CASE p \in UNION {{<<"to", k>>} \X Positions(toQ[k], t) : k \in Pids}
  BY <1>8, <1>3
<1>9. CASE p \in UNION {{<<"from", k>>} \X Positions(fromQ[k], t) : k \in Pids}
  BY <1>9, <1>5
<1> DEFINE A == {"queue"} \X Positions(pool[Runner].queue, t)
           B == {<<"sending", 1>> : x \in {y \in {snd} : y.task = t /\ ~y.ok}}
           C == UNION {{<<"to", k>>} \X Positions(toQ[k], t) : k \in Pids}
           D == {<<"work", k>> : k \in {j \in Pids : work[j] = t}}
           E == UNION {{<<"from", k>>} \X Positions(fromQ[k], t) : k \in Pids}
           F == {<<"got", 1>> : x \in {y \in {gres} : y = t}}
           G == {"delivered"} \X Positions(delivered, t)
           Goal == \E l \in Locs : \E i \in 1..Len(Contents[l]) :
                      Contents[l][i] = t /\ p = PlaceOf(l, i)
<1>10. Places(t) = A \cup B \cup C \cup D \cup E \cup F \cup G
  BY DEF Places
<1>11. p \in A => Goal
  BY <1>1
<1>12. p \in B => Goal
  BY <1>2
<1>13. p \in C => Goal
  BY <1>8
<1>14. p \in D => Goal
  BY <1>4
<1>15. p \in E => Goal
  BY <1>9
<1>16. p \in F => Goal
  BY <1>6
<1>17. p \in G => Goal
  BY <1>7
<1>18. Goal
  <2> HIDE DEF A, B, C, D, E, F, G, Goal
  <2> QED
    BY <1>10, <1>11, <1>12, <1>13, <1>14, <1>15, <1>16, <1>17
<1> QED
  BY <1>18

\* A set whose elements are all equal has at most one.
LEMMA AtMostOne ==
    ASSUME NEW S, \A x, y \in S : x = y
    PROVE  Cardinality(S) <= 1
<1>1. CASE S = {}
  BY <1>1, FS_EmptySet
<1>2. CASE S # {}
  <2>1. PICK x \in S : TRUE
    BY <1>2
  <2>2. S = {x}
    BY <2>1
  <2> QED
    BY <2>2, FS_Singleton
<1> QED
  BY <1>1, <1>2

LEMMA OneAtMost ==
    ASSUME Types, ApartInv, NEW t \in TaskIds
    PROVE  Cardinality(Places(t)) <= 1
<1>1. ASSUME NEW p \in Places(t), NEW q \in Places(t) PROVE p = q
  <2>1. PICK l \in Locs : \E i \in 1..Len(Contents[l]) : Contents[l][i] = t /\ p = PlaceOf(l, i)
    BY PlaceInTable DEF ApartInv
  <2>2. PICK i \in 1..Len(Contents[l]) : Contents[l][i] = t /\ p = PlaceOf(l, i)
    BY <2>1
  <2>3. PICK m \in Locs : \E j \in 1..Len(Contents[m]) : Contents[m][j] = t /\ q = PlaceOf(m, j)
    BY PlaceInTable DEF ApartInv
  <2>4. PICK j \in 1..Len(Contents[m]) : Contents[m][j] = t /\ q = PlaceOf(m, j)
    BY <2>3
  <2>5. l = m /\ i = j
    BY <2>2, <2>4 DEF ApartInv, Apart
  <2> QED
    BY <2>2, <2>4, <2>5
<1> QED
  BY <1>1, AtMostOne

-----------------------------------------------------------------------------
(* One task for each process, and no task lost without a fault.  Both rest  *)
(* on what the workers' descriptor numbers refer to.  Cur is the master     *)
(* whose copy of the structure is in use, Made its workers that have a      *)
(* process or had one.                                                      *)
Cur == IF rpc = "called" THEN "client" ELSE Runner
InUse == \/ rpc = "called" /\ cpc \in {"create", "ready"}
         \/ rpc \notin {"called", "ended"}
         \/ rpc = "ended" /\ ~forked /\ cpc = "ready"
Safe == faults = 0 \/ (forked /\ faults <= 1)
Made(w) == /\ w \in Workers
           /\ cpc = "create" => w < ci
           /\ rpc = "create" => w # ri
Wk(w) == pool[Cur].workers[w]
Fd(f) == fdtab[Cur][f]

\* The kernel takes the lowest free numbers: worker w always gets these.
NumbersAt(s, w) == s.toR = 0 /\ s.toW = 2 * w - 1 /\ s.fromR = 2 * w /\ s.fromW = 2 * w + 1

\* A worker whose process and whose pipes are there.
Good(w) ==
    /\ Wk(w).pid \in 1..forks /\ proc[Wk(w).pid] = "up"
    /\ Fd(2 * w - 1) = <<"to", Wk(w).pid, "w">> /\ Fd(2 * w) = <<"from", Wk(w).pid, "r">>
    /\ Wk(w).status \in {"IDLE", "BUSY"}

\* A worker that cannot be sent anything: its task pipe is closed (a restart of
\* the worker before it closed that number) or its process is not there.
Broken(w) == Fd(2 * w - 1) = Closed
             \/ \E k \in Pids : Fd(2 * w - 1) = <<"to", k, "w">> /\ proc[k] # "up"

\* Tasks and results a process has, and the result of worker w just read.
Out(k) == Len(toQ[k]) + Len(fromQ[k]) + (IF work[k] = 0 THEN 0 ELSE 1)
Reading(w) == IF gpc = "mark" /\ gi = w /\ gres # 0 THEN 1 ELSE 0
SentTo(w) == rpc = "sent" /\ snd.ok /\ snd.w = w

\* A worker that is not marked busy has nothing outstanding, but for the task
\* that was just written to it.
Load(w) == /\ Out(Wk(w).pid) + Reading(w) <= 1
           /\ Out(Wk(w).pid) + Reading(w) = 1 => Wk(w).status = "BUSY" \/ SentTo(w)

\* What select reported has a result in it until it is read.
GetCalm ==
    /\ gpc \in {"scan", "read"} =>
          \A w \in Workers : Made(w) /\ 2 * w \in gset => fromQ[Wk(w).pid] # << >>
    /\ gpc = "read" => 2 * gi \in gset
    /\ gpc = "mark" => gres # 0

\* Without a fault no worker is broken, nobody restarts one, and every living
\* process is a worker's.
Calm(x) ==
    /\ x = NumWorkers + 1 /\ rpc # "create"
    /\ \A k \in Pids : proc[k] = "up" => \E w \in Workers : Made(w) /\ Wk(w).pid = k
    /\ GetCalm

\* At most one worker, x, is broken.
Struct(x) ==
    /\ faults = 0 => Calm(x)
    /\ x \in Workers => Made(x)
    /\ rpc = "create" => x = ri + 1 /\ \A f \in Fds : f = 2 * ri + 1 => Fd(f) = Closed
    /\ \A w \in Workers : Made(w) => NumbersAt(Wk(w), w)
    /\ \A w \in Workers : Made(w) /\ w # x => Good(w) /\ Load(w)
    /\ \A w \in Workers : Made(w) /\ w = x => Broken(w)
    /\ \A v, w \in Workers : Made(v) /\ Made(w) /\ x \notin {v, w} /\ Wk(v).pid = Wk(w).pid => v = w
    /\ \A f \in Fds : Fd(f) # Closed => \E w \in Workers : Made(w) /\ f \in {2 * w - 1, 2 * w}
    /\ rpc = "called" => \A w \in Workers : Made(w) => Fd(2 * w - 1) # Closed /\ Fd(2 * w) # Closed
    /\ rpc = "sent" /\ ~snd.ok => snd.w = x

\* The kernel's tables: masters hold the near ends only, a process its own far
\* ends; what was not created has nothing.
EndsInv ==
    /\ \A m \in Masters : \A f \in Fds : fdtab[m][f] # Closed =>
          \E k \in 1..forks : fdtab[m][f] \in {<<"to", k, "w">>, <<"from", k, "r">>}
    /\ \A k, j \in Pids : <<"to", j, "r">> \in hold[k] => j = k
    /\ \A k \in Pids : proc[k] = "up" => ChildEnds(k) \subseteq hold[k]
    /\ \A k \in Pids : proc[k] # "up" => hold[k] = {}
    /\ \A k \in Pids : k > forks => toQ[k] = << >> /\ fromQ[k] = << >> /\ work[k] = 0

\* A forked runner's results are nobody's to read.
GetInv == /\ forked => gpc = "none" /\ ~pool["client"].running
          /\ gpc # "none" => cpc = "ready"

StructInv == Safe /\ InUse => \E x \in 1..(NumWorkers + 1) : Struct(x)
CountInv == Safe => \A k \in Pids : Out(k) <= 1
FullInv == faults = 0 /\ cpc \in {"create", "ready"} /\ ~forked => Full(Contents, next_task_id)

LEMMA ExitEffect ==
    ASSUME Types, NEW k \in Pids, Exit(k)
    PROVE  /\ proc'[k] # "up" /\ hold'[k] = {} /\ toQ'[k] = << >> /\ work'[k] = 0
           /\ \A j \in Pids : j # k => /\ proc'[j] = proc[j] /\ hold'[j] = hold[j]
                                       /\ toQ'[j] = toQ[j] /\ work'[j] = work[j]
  BY DEF Exit, Types, KernelTypes

\* Descriptors are closed or copied between masters, processes only end, and
\* what was not created stays empty.
LEMMA EndsFrame ==
    ASSUME Types, EndsInv, UNCHANGED forks,
           \A m \in Masters : \A f \in Fds :
               fdtab'[m][f] = Closed \/ \E n \in Masters : fdtab'[m][f] = fdtab[n][f],
           \A k \in Pids : \/ (hold'[k] = hold[k] /\ (proc'[k] = "up" <=> proc[k] = "up"))
                           \/ (hold'[k] = {} /\ proc'[k] # "up"),
           \A k \in Pids : k > forks => toQ'[k] = << >> /\ fromQ'[k] = << >> /\ work'[k] = 0
    PROVE  EndsInv'
<1>1. \A m \in Masters : \A f \in Fds : fdtab'[m][f] # Closed =>
          \E k \in 1..forks' : fdtab'[m][f] \in {<<"to", k, "w">>, <<"from", k, "r">>}
  BY DEF EndsInv
<1>2. \A k, j \in Pids : <<"to", j, "r">> \in hold'[k] => j = k
  BY DEF EndsInv
<1>3. \A k \in Pids : proc'[k] = "up" => ChildEnds(k) \subseteq hold'[k]
  BY DEF EndsInv
<1>4. \A k \in Pids : proc'[k] # "up" => hold'[k] = {}
  BY DEF EndsInv
<1> QED
  BY <1>1, <1>2, <1>3, <1>4 DEF EndsInv, ChildEnds

LEMMA EndsSame ==
    ASSUME Types, EndsInv, UNCHANGED kernelVars,
           \A m \in Masters : \A f \in Fds :
               fdtab'[m][f] = Closed \/ \E n \in Masters : fdtab'[m][f] = fdtab[n][f]
    PROVE  EndsInv'
<1>1. UNCHANGED <<forks, hold, proc, toQ, fromQ, work>>
  BY DEF kernelVars
<1>2. \A k \in Pids : k > forks => toQ'[k] = << >> /\ fromQ'[k] = << >> /\ work'[k] = 0
  BY <1>1 DEF EndsInv
<1> QED
  BY <1>1, <1>2, EndsFrame

LEMMA EndsExit ==
    ASSUME Types, EndsInv, NEW k \in Pids, Exit(k), UNCHANGED <<forks, fdtab, fromQ>>
    PROVE  EndsInv'
<1>1. /\ proc'[k] # "up" /\ hold'[k] = {} /\ toQ'[k] = << >> /\ work'[k] = 0
      /\ \A j \in Pids : j # k => /\ proc'[j] = proc[j] /\ hold'[j] = hold[j]
                                  /\ toQ'[j] = toQ[j] /\ work'[j] = work[j]
  BY ExitEffect
<1>2. \A j \in Pids : j > forks => toQ'[j] = << >> /\ fromQ'[j] = << >> /\ work'[j] = 0
  BY <1>1 DEF EndsInv
<1>3. \A j \in Pids : \/ (hold'[j] = hold[j] /\ (proc'[j] = "up" <=> proc[j] = "up"))
                      \/ (hold'[j] = {} /\ proc'[j] # "up")
  BY <1>1
<1> QED
  BY <1>2, <1>3, EndsFrame

\* A new worker process inherits near ends only.
LEMMA EndsSpawn ==
    ASSUME Types, EndsInv, NEW m \in Masters, NEW w \in Workers, create_worker_process(m, w)
    PROVE  EndsInv'
<1>1. /\ forks + 1 \in Pids /\ forks' = forks + 1 /\ forks \in Nat
      /\ proc' = [proc EXCEPT ![forks + 1] = "up"]
      /\ hold' = [hold EXCEPT ![forks + 1] = MasterEnds(m) \cup ChildEnds(forks + 1)]
      /\ UNCHANGED <<toQ, fromQ, work>>
  BY CreateEffect
<1>2. PICK a, b, c, d \in Fds : Took(m, w, a, b, c, d)
  BY Spawned
<1>3. \A n \in Masters : \A f \in Fds :
         fdtab'[n][f] \in {fdtab[n][f], <<"to", forks + 1, "w">>, <<"from", forks + 1, "r">>}
  <2>1. fdtab' = [fdtab EXCEPT ![m][b] = <<"to", forks + 1, "w">>,
                               ![m][c] = <<"from", forks + 1, "r">>]
    BY <1>2 DEF Took
  <2> QED
    BY <2>1 DEF Types, PoolTypes
<1>4. \A n \in Masters : \A f \in Fds : fdtab[n][f] # Closed =>
          \E k \in 1..forks : fdtab[n][f] \in {<<"to", k, "w">>, <<"from", k, "r">>}
  BY DEF EndsInv
<1>5. \A n \in Masters : \A f \in Fds : fdtab'[n][f] # Closed =>
          \E k \in 1..forks' : fdtab'[n][f] \in {<<"to", k, "w">>, <<"from", k, "r">>}
  <2> SUFFICES ASSUME NEW n \in Masters, NEW f \in Fds, fdtab'[n][f] # Closed
               PROVE  \E k \in 1..forks' : fdtab'[n][f] \in {<<"to", k, "w">>, <<"from", k, "r">>}
    OBVIOUS
  <2>1. CASE fdtab'[n][f] = fdtab[n][f]
    <3>1. PICK k \in 1..forks : fdtab[n][f] \in {<<"to", k, "w">>, <<"from", k, "r">>}
      BY <1>4, <2>1
    <3>2. k \in 1..forks'
      BY <1>1
    <3> QED
      BY <3>1, <3>2, <2>1
  <2>2. CASE fdtab'[n][f] \in {<<"to", forks + 1, "w">>, <<"from", forks + 1, "r">>}
    <3>1. forks + 1 \in 1..forks'
      BY <1>1
    <3> QED
      BY <3>1, <2>2
  <2> QED
    BY <1>3, <2>1, <2>2
<1>6. \A j \in Pids : <<"to", j, "r">> \notin MasterEnds(m)
  <2> SUFFICES ASSUME NEW j \in Pids, <<"to", j, "r">> \in MasterEnds(m) PROVE FALSE
    OBVIOUS
  <2>1. DOMAIN fdtab[m] = Fds
    BY DEF Types, PoolTypes
  <2>2. PICK f \in Fds : fdtab[m][f] = <<"to", j, "r">>
    BY <2>1 DEF MasterEnds, Range
  <2>3. <<"to", j, "r">> # Closed
    BY DEF Closed
  <2>4. PICK k \in 1..forks : <<"to", j, "r">> \in {<<"to", k, "w">>, <<"from", k, "r">>}
    BY <1>4, <2>2, <2>3
  <2> QED
    BY <2>4
<1>7. /\ hold'[forks + 1] = MasterEnds(m) \cup ChildEnds(forks + 1) /\ proc'[forks + 1] = "up"
      /\ \A k \in Pids : k # forks + 1 => hold'[k] = hold[k] /\ proc'[k] = proc[k]
  BY <1>1 DEF Types, KernelTypes
<1>8. \A k, j \in Pids : <<"to", j, "r">> \in hold'[k] => j = k
  <2> SUFFICES ASSUME NEW k \in Pids, NEW j \in Pids, <<"to", j, "r">> \in hold'[k] PROVE j = k
    OBVIOUS
  <2>1. CASE k = forks + 1
    BY <1>6, <1>7, <2>1 DEF ChildEnds
  <2>2. CASE k # forks + 1
    BY <1>7, <2>2 DEF EndsInv
  <2> QED
    BY <2>1, <2>2
<1>9. \A k \in Pids : /\ proc'[k] = "up" => ChildEnds(k) \subseteq hold'[k]
                      /\ proc'[k] # "up" => hold'[k] = {}
  BY <1>7 DEF EndsInv
<1>10. \A k \in Pids : k > forks' => toQ'[k] = << >> /\ fromQ'[k] = << >> /\ work'[k] = 0
  BY <1>1 DEF EndsInv, Pids
<1> QED
  BY <1>5, <1>8, <1>9, <1>10 DEF EndsInv, ChildEnds

LEMMA EndsInit == Init => EndsInv
  BY DEF Init, EndsInv, Masters

\* The descriptors a step leaves open were open before it.
FdsClose == \A m \in Masters : \A f \in Fds :
                fdtab'[m][f] = Closed \/ \E n \in Masters : fdtab'[m][f] = fdtab[n][f]

LEMMA EndsStep == Types /\ EndsInv /\ [Next]_vars => EndsInv'
<1> SUFFICES ASSUME Types, EndsInv, [Next]_vars PROVE EndsInv'
  OBVIOUS
<1>0. CASE UNCHANGED vars
  <2>1. UNCHANGED <<kernelVars, fdtab>>
    BY <1>0 DEF vars
  <2> QED
    BY <2>1, EndsSame
<1>1. CASE Create
  <2>0. ci \in Workers
    BY <1>1 DEF Create, Types, PlaceTypes
  <2>1. CASE create_worker_process("client", ci)
    BY <2>1, EndsSpawn, MastersAre, <2>0
  <2>2. CASE CreateWorkerFails("client", ci)
    BY <2>2, EndsSame DEF CreateWorkerFails
  <2> QED
    BY <1>1, <2>1, <2>2 DEF Create
<1>2. CASE process_pool_submit_task
  <2>1. UNCHANGED <<kernelVars, fdtab>>
    BY <1>2 DEF process_pool_submit_task, kernelVars, getRest
  <2> QED
    BY <2>1, EndsSame
<1>3. CASE RunBegin
  <2>1. UNCHANGED kernelVars
    BY <1>3 DEF RunBegin
  <2>2. FdsClose
    BY <1>3, BeginEffect, MastersAre DEF FdsClose
  <2> QED
    BY <2>1, <2>2, EndsSame DEF FdsClose
<1>4. CASE RunTest
  <2>1. UNCHANGED <<kernelVars, fdtab>>
    BY <1>4 DEF RunTest, kernelVars, getRest
  <2> QED
    BY <2>1, EndsSame
<1>5. CASE RunReap
  <2>1. UNCHANGED <<fdtab, forks, hold, toQ, fromQ, work>>
    BY <1>5 DEF RunReap
  <2>2. \A k \in Pids : proc'[k] = "up" <=> proc[k] = "up"
    BY <1>5 DEF RunReap, reap_dead_children, Zombies
  <2>3. \A k \in Pids : k > forks => toQ'[k] = << >> /\ fromQ'[k] = << >> /\ work'[k] = 0
    BY <2>1 DEF EndsInv
  <2> QED
    BY <2>1, <2>2, <2>3, EndsFrame
<1>6. CASE RunSkip
  <2>1. UNCHANGED <<kernelVars, fdtab>>
    BY <1>6 DEF RunSkip, NextWorker, kernelVars, getRest
  <2> QED
    BY <2>1, EndsSame
<1>7. CASE RunClose
  <2>1. UNCHANGED kernelVars
    BY <1>7 DEF RunClose
  <2>2. FdsClose
    BY <1>7, CloseEffect, MastersAre DEF FdsClose, ClosedPairs, Types, PoolTypes
  <2> QED
    BY <2>1, <2>2, EndsSame DEF FdsClose
<1>8. CASE RunCreate
  <2>1. CASE create_worker_process(Runner, ri)
    BY <2>1, EndsSpawn, MastersAre DEF Types, PlaceTypes
  <2>2. CASE CreateWorkerFails(Runner, ri)
    BY <2>2, EndsSame DEF CreateWorkerFails
  <2> QED
    BY <1>8, <2>1, <2>2 DEF RunCreate
<1>9. CASE DispatchSend
  <2>1. UNCHANGED <<fdtab, forks, hold, proc, fromQ, work>>
    BY <1>9 DEF DispatchSend
  <2>2. PICK w \in Workers, t \in TaskIds, ok \in BOOLEAN, k \in Pids :
          /\ LET e == Entry(Runner, pool[Runner].workers[w].toW) IN ok => e \in Ends /\ e[2] = k
          /\ toQ' = IF ok THEN [toQ EXCEPT ![k] = Append(toQ[k], t)] ELSE toQ
    BY <1>9, SendEffect
  <2>3. ok => k <= forks
    <3>1. SUFFICES ASSUME ok PROVE k <= forks
      OBVIOUS
    <3> DEFINE e == Entry(Runner, pool[Runner].workers[w].toW)
    <3>2. e \in Ends /\ e[2] = k
      BY <2>2, <3>1
    <3>3. pool[Runner].workers[w].toW \in Fds \cup {None}
      BY MastersAre, WorkerOf DEF WorkerRecord
    <3>4. e # Closed
      BY <3>2 DEF Ends, Closed
    <3>5. PICK f \in Fds : e = fdtab[Runner][f]
      BY <3>3, <3>4 DEF Entry
    <3>6. PICK j \in 1..forks : e \in {<<"to", j, "w">>, <<"from", j, "r">>}
      BY <3>4, <3>5, MastersAre DEF EndsInv
    <3> QED
      BY <3>2, <3>6 DEF Types, KernelTypes
  <2>4. \A j \in Pids : j > forks => toQ'[j] = << >> /\ fromQ'[j] = << >> /\ work'[j] = 0
    <3>1. SUFFICES ASSUME NEW j \in Pids, j > forks PROVE toQ'[j] = toQ[j]
      BY <2>1 DEF EndsInv
    <3>2. CASE ok
      <4>1. toQ' = [toQ EXCEPT ![k] = Append(toQ[k], t)] /\ k # j
        <5>1. k \in Int /\ j \in Int /\ forks \in Int
          BY DEF Pids, Types, KernelTypes
        <5> QED
          BY <2>2, <2>3, <3>1, <3>2, <5>1
      <4> QED
        BY <4>1 DEF Types, KernelTypes
    <3>3. CASE ~ok
      BY <2>2, <3>3
    <3> QED
      BY <3>2, <3>3
  <2> QED
    BY <2>1, <2>4, EndsFrame
<1>10. CASE DispatchMark
  <2>1. UNCHANGED <<kernelVars, fdtab>>
    BY <1>10 DEF DispatchMark, kernelVars, getRest
  <2> QED
    BY <2>1, EndsSame
<1>11. CASE DispatchDone
  <2>1. UNCHANGED <<kernelVars, fdtab>>
    BY <1>11 DEF DispatchDone, kernelVars, getRest
  <2> QED
    BY <2>1, EndsSame
<1>12. CASE RunEnd
  <2>1. UNCHANGED <<forks, hold, toQ, fromQ, work>>
    BY <1>12 DEF RunEnd
  <2>2. \A k \in Pids : proc'[k] = "up" <=> proc[k] = "up"
    BY <1>12 DEF RunEnd, Zombies
  <2>3. \A k \in Pids : k > forks => toQ'[k] = << >> /\ fromQ'[k] = << >> /\ work'[k] = 0
    BY <2>1 DEF EndsInv
  <2>4. FdsClose
    BY <1>12 DEF FdsClose, RunEnd, Types, PoolTypes
  <2> QED
    BY <2>1, <2>2, <2>3, <2>4, EndsFrame DEF FdsClose
<1>13. CASE GetSelect
  <2>1. UNCHANGED <<kernelVars, fdtab>>
    BY <1>13 DEF GetSelect, kernelVars, getRest
  <2> QED
    BY <2>1, EndsSame
<1>14. CASE GetPick
  <2>1. UNCHANGED <<kernelVars, fdtab>>
    BY <1>14 DEF GetPick, kernelVars, getRest
  <2> QED
    BY <2>1, EndsSame
<1>15. CASE GetRead
  <2>1. UNCHANGED <<fdtab, forks, hold, proc, toQ, work>>
    BY <1>15 DEF GetRead, getRest
  <2>2. \A k \in Pids : fromQ[k] = << >> => fromQ'[k] = << >>
    BY <1>15, GetReadEffect DEF Types, KernelTypes
  <2>4. \A j \in Pids : j > forks => toQ'[j] = << >> /\ fromQ'[j] = << >> /\ work'[j] = 0
    BY <2>1, <2>2 DEF EndsInv
  <2> QED
    BY <2>1, <2>4, EndsFrame
<1>16. CASE GetMark
  <2>1. UNCHANGED <<kernelVars, fdtab>>
    BY <1>16 DEF GetMark, kernelVars, getRest
  <2> QED
    BY <2>1, EndsSame
<1>17. CASE process_pool_stop
  <2>1. UNCHANGED <<kernelVars, fdtab>>
    BY <1>17 DEF process_pool_stop, kernelVars, getRest
  <2> QED
    BY <2>1, EndsSame
<1>18. CASE DestroyBegin
  <2>1. UNCHANGED <<kernelVars, fdtab>>
    BY <1>18 DEF DestroyBegin, kernelVars, getRest
  <2> QED
    BY <2>1, EndsSame
<1>19. CASE TerminateWorker
  <2>1. UNCHANGED <<forks, fromQ>> /\ ci \in Workers
    BY <1>19 DEF TerminateWorker
  <2>2. FdsClose
    BY <1>19, MastersAre DEF TerminateWorker, FdsClose, ClosedPairs, Types, PoolTypes
  <2>3. /\ \A k \in Pids : \/ (hold'[k] = hold[k] /\ (proc'[k] = "up" <=> proc[k] = "up"))
                          \/ (hold'[k] = {} /\ proc'[k] # "up")
        /\ \A k \in Pids : toQ'[k] \in {toQ[k], << >>} /\ work'[k] \in {work[k], 0}
    BY <1>19 DEF TerminateWorker, Types, KernelTypes
  <2>4. \A k \in Pids : k > forks => toQ'[k] = << >> /\ fromQ'[k] = << >> /\ work'[k] = 0
    BY <2>1, <2>3 DEF EndsInv
  <2> QED
    BY <2>1, <2>2, <2>3, <2>4, EndsFrame DEF FdsClose
<1>20. CASE FreePool
  <2>1. UNCHANGED <<fdtab, forks, hold, toQ, fromQ, work>>
    BY <1>20 DEF FreePool
  <2>2. \A k \in Pids : proc'[k] = "up" <=> proc[k] = "up"
    BY <1>20 DEF FreePool, reap_dead_children, Zombies
  <2>3. \A k \in Pids : k > forks => toQ'[k] = << >> /\ fromQ'[k] = << >> /\ work'[k] = 0
    BY <2>1 DEF EndsInv
  <2> QED
    BY <2>1, <2>2, <2>3, EndsFrame
<1>21. ASSUME NEW k \in Pids, WorkerRead(k) PROVE EndsInv'
  <2>1. UNCHANGED <<fdtab, forks, hold, proc, fromQ>>
    BY <1>21 DEF WorkerRead, workerRest
  <2>2. \A j \in Pids : toQ[j] = << >> => toQ'[j] = << >> /\ work'[j] = work[j]
    BY <1>21 DEF WorkerRead, Types, KernelTypes
  <2>4. \A j \in Pids : j > forks => toQ'[j] = << >> /\ fromQ'[j] = << >> /\ work'[j] = 0
    BY <2>1, <2>2 DEF EndsInv
  <2> QED
    BY <2>1, <2>4, EndsFrame
<1>22. ASSUME NEW k \in Pids, WorkerEof(k) PROVE EndsInv'
  BY <1>22, EndsExit DEF WorkerEof, workerRest
<1>23. ASSUME NEW k \in Pids, WorkerReply(k) PROVE EndsInv'
  <2>1. UNCHANGED <<fdtab, forks>>
    BY <1>23 DEF WorkerReply, workerRest
  <2>2. CASE Held(<<"from", k, "r">>)
    <3>1. UNCHANGED <<hold, proc, toQ>>
      BY <1>23, <2>2 DEF WorkerReply
    <3>2. \A j \in Pids : work[j] = 0 => fromQ'[j] = fromQ[j] /\ work'[j] = 0
      BY <1>23, <2>2 DEF WorkerReply, Types, KernelTypes
    <3>4. \A j \in Pids : j > forks => toQ'[j] = << >> /\ fromQ'[j] = << >> /\ work'[j] = 0
      BY <3>1, <3>2 DEF EndsInv
    <3> QED
      BY <2>1, <3>1, <3>4, EndsFrame
  <2>3. CASE ~Held(<<"from", k, "r">>)
    BY <1>23, <2>1, <2>3, EndsExit DEF WorkerReply
  <2> QED
    BY <2>2, <2>3
<1>24. ASSUME NEW k \in Pids, WorkerCrash(k) PROVE EndsInv'
  BY <1>24, EndsExit DEF WorkerCrash, workerRest
<1> QED
  BY <1>0, <1>1, <1>2, <1>3, <1>4, <1>5, <1>6, <1>7, <1>8, <1>9, <1>10, <1>11, <1>12,
     <1>13, <1>14, <1>15, <1>16, <1>17, <1>18, <1>19, <1>20, <1>21, <1>22, <1>23, <1>24
     DEF Next, RunStep, WorkerStep, GetStep, DestroyStep

LEMMA GetFrame ==
    ASSUME GetInv, UNCHANGED forked,
           pool'["client"].running = pool["client"].running \/ pool'["client"].running = FALSE \/ ~forked,
           gpc' # "none" => gpc # "none" /\ cpc' = cpc
    PROVE  GetInv'
  BY DEF GetInv

LEMMA GetInvStep == Types /\ GetInv /\ [Next]_vars => GetInv'
<1> SUFFICES ASSUME Types, GetInv, [Next]_vars PROVE GetInv'
  OBVIOUS
<1>0. CASE UNCHANGED vars
  BY <1>0, GetFrame DEF vars, getVars, callVars
<1>1. CASE Create
  <2>0. ci \in Workers
    BY <1>1 DEF Create, Types, PlaceTypes
  <2>1. pool'["client"].running = pool["client"].running
    BY <1>1, <2>0, MastersAre, CreateEffect, CreateFailsEffect DEF Create, OnlyWorker
  <2>2. UNCHANGED forked
    BY <1>1 DEF Create, getRest
  <2>3. gpc' # "none" => gpc # "none" /\ cpc' = cpc
    BY <1>1 DEF Create, getRest, getVars, callVars, GetInv
  <2> QED
    BY <2>1, <2>2, <2>3, GetFrame
<1>2. CASE process_pool_submit_task
  <2>1. pool'["client"].running = pool["client"].running
    BY <1>2, MastersAre DEF process_pool_submit_task, Types, PoolTypes, PoolRecord
  <2>2. UNCHANGED forked
    BY <1>2 DEF process_pool_submit_task, getRest
  <2>3. gpc' # "none" => gpc # "none" /\ cpc' = cpc
    BY <1>2 DEF process_pool_submit_task, getRest, getVars, callVars, GetInv
  <2> QED
    BY <2>1, <2>2, <2>3, GetFrame
<1>3. CASE RunBegin
  <2>1. pool'["client"].running = pool["client"].running \/ ~forked
    BY <1>3, MastersAre, BeginEffect DEF Runner
  <2>2. UNCHANGED forked
    BY <1>3 DEF RunBegin, getRest
  <2>3. gpc' # "none" => gpc # "none" /\ cpc' = cpc
    BY <1>3 DEF RunBegin, getRest, getVars, callVars, GetInv
  <2> QED
    BY <2>1, <2>2, <2>3, GetFrame
<1>4. CASE RunTest
  <2>1. UNCHANGED pool
    BY <1>4 DEF RunTest, getRest
  <2>2. UNCHANGED forked
    BY <1>4 DEF RunTest, getRest
  <2>3. gpc' # "none" => gpc # "none" /\ cpc' = cpc
    BY <1>4 DEF RunTest, getRest, getVars, callVars, GetInv
  <2> QED
    BY <2>1, <2>2, <2>3, GetFrame
<1>5. CASE RunReap
  <2>1. pool'["client"].running = pool["client"].running
    BY <1>5, MastersAre, ReapEffect DEF RunReap
  <2>2. UNCHANGED forked
    BY <1>5 DEF RunReap, reap_dead_children, getRest
  <2>3. gpc' # "none" => gpc # "none" /\ cpc' = cpc
    BY <1>5 DEF RunReap, reap_dead_children, getRest, getVars, callVars, GetInv
  <2> QED
    BY <2>1, <2>2, <2>3, GetFrame
<1>6. CASE RunSkip
  <2>1. UNCHANGED pool
    BY <1>6 DEF RunSkip, NextWorker, getRest
  <2>2. UNCHANGED forked
    BY <1>6 DEF RunSkip, NextWorker, getRest
  <2>3. gpc' # "none" => gpc # "none" /\ cpc' = cpc
    BY <1>6 DEF RunSkip, NextWorker, getRest, getVars, callVars, GetInv
  <2> QED
    BY <2>1, <2>2, <2>3, GetFrame
<1>7. CASE RunClose
  <2>1. pool'["client"].running = pool["client"].running
    BY <1>7, MastersAre, CloseEffect DEF OnlyWorker
  <2>2. UNCHANGED forked
    BY <1>7 DEF RunClose, getRest
  <2>3. gpc' # "none" => gpc # "none" /\ cpc' = cpc
    BY <1>7 DEF RunClose, getRest, getVars, callVars, GetInv
  <2> QED
    BY <2>1, <2>2, <2>3, GetFrame
<1>8. CASE RunCreate
  <2>1. pool'["client"].running = pool["client"].running
    <3>0. ri \in Workers
      BY DEF Types, PlaceTypes
    <3>1. CASE create_worker_process(Runner, ri)
      BY <3>0, <3>1, MastersAre, CreateEffect DEF OnlyWorker
    <3>2. CASE CreateWorkerFails(Runner, ri)
      BY <3>0, <3>2, MastersAre, CreateFailsEffect DEF OnlyWorker
    <3> QED
      BY <1>8, <3>1, <3>2 DEF RunCreate
  <2>2. UNCHANGED forked
    BY <1>8 DEF RunCreate, NextWorker, getRest
  <2>3. gpc' # "none" => gpc # "none" /\ cpc' = cpc
    BY <1>8 DEF RunCreate, NextWorker, getRest, getVars, callVars, GetInv
  <2> QED
    BY <2>1, <2>2, <2>3, GetFrame
<1>9. CASE DispatchSend
  <2>1. pool'["client"].running = pool["client"].running
    BY <1>9, MastersAre, SendEffect
  <2>2. UNCHANGED forked
    BY <1>9 DEF DispatchSend, getRest
  <2>3. gpc' # "none" => gpc # "none" /\ cpc' = cpc
    BY <1>9 DEF DispatchSend, getRest, getVars, callVars, GetInv
  <2> QED
    BY <2>1, <2>2, <2>3, GetFrame
<1>10. CASE DispatchMark
  <2>1. pool'["client"].running = pool["client"].running
    BY <1>10, MastersAre, MarkEffect
  <2>2. UNCHANGED forked
    BY <1>10 DEF DispatchMark, getRest
  <2>3. gpc' # "none" => gpc # "none" /\ cpc' = cpc
    BY <1>10 DEF DispatchMark, getRest, getVars, callVars, GetInv
  <2> QED
    BY <2>1, <2>2, <2>3, GetFrame
<1>11. CASE DispatchDone
  <2>1. pool'["client"].running = pool["client"].running
    BY <1>11, MastersAre, DoneEffect
  <2>2. UNCHANGED forked
    BY <1>11 DEF DispatchDone, getRest
  <2>3. gpc' # "none" => gpc # "none" /\ cpc' = cpc
    BY <1>11 DEF DispatchDone, getRest, getVars, callVars, GetInv
  <2> QED
    BY <2>1, <2>2, <2>3, GetFrame
<1>12. CASE RunEnd
  <2>1. pool'["client"].running = pool["client"].running \/ pool'["client"].running = FALSE
    BY <1>12, MastersAre DEF RunEnd, Types, PoolTypes, PoolRecord
  <2>2. UNCHANGED forked
    BY <1>12 DEF RunEnd, getRest
  <2>3. gpc' # "none" => gpc # "none" /\ cpc' = cpc
    BY <1>12 DEF RunEnd, getRest, getVars, callVars, GetInv
  <2> QED
    BY <2>1, <2>2, <2>3, GetFrame
<1>13. CASE GetSelect
  BY <1>13 DEF GetSelect, getRest, callVars, GetInv
<1>14. CASE GetPick
  <2>1. UNCHANGED pool
    BY <1>14 DEF GetPick, getRest
  <2>2. UNCHANGED forked
    BY <1>14 DEF GetPick, getRest
  <2>3. gpc' # "none" => gpc # "none" /\ cpc' = cpc
    BY <1>14 DEF GetPick, getRest, getVars, callVars, GetInv
  <2> QED
    BY <2>1, <2>2, <2>3, GetFrame
<1>15. CASE GetRead
  <2>1. UNCHANGED pool
    BY <1>15 DEF GetRead, getRest
  <2>2. UNCHANGED forked
    BY <1>15 DEF GetRead, getRest
  <2>3. gpc' # "none" => gpc # "none" /\ cpc' = cpc
    BY <1>15 DEF GetRead, getRest, getVars, callVars, GetInv
  <2> QED
    BY <2>1, <2>2, <2>3, GetFrame
<1>16. CASE GetMark
  <2>1. pool'["client"].running = pool["client"].running
    BY <1>16, MastersAre, GetMarkEffect DEF OnlyWorker
  <2>2. UNCHANGED forked
    BY <1>16 DEF GetMark, getRest
  <2>3. gpc' # "none" => gpc # "none" /\ cpc' = cpc
    BY <1>16 DEF GetMark, getRest, getVars, callVars, GetInv
  <2> QED
    BY <2>1, <2>2, <2>3, GetFrame
<1>17. CASE process_pool_stop
  <2>1. pool'["client"].running = FALSE
    BY <1>17, MastersAre DEF process_pool_stop, Types, PoolTypes, PoolRecord
  <2>2. UNCHANGED forked
    BY <1>17 DEF process_pool_stop, getRest
  <2>3. gpc' # "none" => gpc # "none" /\ cpc' = cpc
    BY <1>17 DEF process_pool_stop, getRest, getVars, callVars, GetInv
  <2> QED
    BY <2>1, <2>2, <2>3, GetFrame
<1>18. CASE DestroyBegin
  <2>1. pool'["client"].running = FALSE
    BY <1>18, MastersAre DEF DestroyBegin, Types, PoolTypes, PoolRecord
  <2>2. UNCHANGED forked
    BY <1>18 DEF DestroyBegin, getRest
  <2>3. gpc' # "none" => gpc # "none" /\ cpc' = cpc
    BY <1>18 DEF DestroyBegin, getRest, getVars, callVars, GetInv
  <2> QED
    BY <2>1, <2>2, <2>3, GetFrame
<1>19. CASE TerminateWorker
  <2>1. pool'["client"].running = pool["client"].running
    BY <1>19, MastersAre, TerminateEffect DEF OnlyWorker
  <2>2. UNCHANGED forked
    BY <1>19 DEF TerminateWorker, getRest
  <2>3. gpc' # "none" => gpc # "none" /\ cpc' = cpc
    BY <1>19 DEF TerminateWorker, getRest, getVars, callVars, GetInv
  <2> QED
    BY <2>1, <2>2, <2>3, GetFrame
<1>20. CASE FreePool
  <2>1. pool'["client"].running = pool["client"].running
    <3>1. reap_dead_children("client") \/ UNCHANGED pool
      BY <1>20 DEF FreePool
    <3> QED
      BY <3>1, MastersAre, ReapEffect
  <2>2. UNCHANGED forked
    BY <1>20 DEF FreePool, reap_dead_children, getRest
  <2>3. gpc' # "none" => gpc # "none" /\ cpc' = cpc
    BY <1>20 DEF FreePool, reap_dead_children, getRest, getVars, callVars, GetInv
  <2> QED
    BY <2>1, <2>2, <2>3, GetFrame
<1>21. ASSUME NEW k \in Pids, WorkerRead(k) PROVE GetInv'
  <2>1. UNCHANGED pool
    BY <1>21 DEF WorkerRead, workerRest, getRest
  <2>2. UNCHANGED forked
    BY <1>21 DEF WorkerRead, workerRest, getRest
  <2>3. gpc' # "none" => gpc # "none" /\ cpc' = cpc
    BY <1>21 DEF WorkerRead, workerRest, getRest, getVars, callVars, GetInv
  <2> QED
    BY <2>1, <2>2, <2>3, GetFrame
<1>22. ASSUME NEW k \in Pids, WorkerEof(k) PROVE GetInv'
  <2>1. UNCHANGED pool
    BY <1>22 DEF WorkerEof, workerRest, getRest
  <2>2. UNCHANGED forked
    BY <1>22 DEF WorkerEof, workerRest, getRest
  <2>3. gpc' # "none" => gpc # "none" /\ cpc' = cpc
    BY <1>22 DEF WorkerEof, workerRest, getRest, getVars, callVars, GetInv
  <2> QED
    BY <2>1, <2>2, <2>3, GetFrame
<1>23. ASSUME NEW k \in Pids, WorkerReply(k) PROVE GetInv'
  <2>1. UNCHANGED pool
    BY <1>23 DEF WorkerReply, workerRest, getRest
  <2>2. UNCHANGED forked
    BY <1>23 DEF WorkerReply, workerRest, getRest
  <2>3. gpc' # "none" => gpc # "none" /\ cpc' = cpc
    BY <1>23 DEF WorkerReply, workerRest, getRest, getVars, callVars, GetInv
  <2> QED
    BY <2>1, <2>2, <2>3, GetFrame
<1>24. ASSUME NEW k \in Pids, WorkerCrash(k) PROVE GetInv'
  <2>1. UNCHANGED pool
    BY <1>24 DEF WorkerCrash, workerRest, getRest
  <2>2. UNCHANGED forked
    BY <1>24 DEF WorkerCrash, workerRest, getRest
  <2>3. gpc' # "none" => gpc # "none" /\ cpc' = cpc
    BY <1>24 DEF WorkerCrash, workerRest, getRest, getVars, callVars, GetInv
  <2> QED
    BY <2>1, <2>2, <2>3, GetFrame
<1> QED
  BY <1>0, <1>1, <1>2, <1>3, <1>4, <1>5, <1>6, <1>7, <1>8, <1>9, <1>10, <1>11, <1>12,
     <1>13, <1>14, <1>15, <1>16, <1>17, <1>18, <1>19, <1>20, <1>21, <1>22, <1>23, <1>24
     DEF Next, RunStep, WorkerStep, GetStep, DestroyStep

LEMMA GetInvInit == Init => GetInv
  BY MastersAre DEF Init, GetInv, Masters

-----------------------------------------------------------------------------
(* Steps that keep the structure.                                           *)
LEMMA MadeAre == \A w : Made(w) => w \in Workers
  BY DEF Made

LEMMA UseType ==
    ASSUME Types
    PROVE  /\ Cur \in Masters /\ Wk(1) = Wk(1)
           /\ \A w \in Workers : Wk(w) \in WorkerRecord
           /\ \A f \in Fds : Fd(f) \in Ends \cup {Closed}
<1>1. Cur \in Masters
  BY MastersAre DEF Cur
<1> QED
  BY <1>1, WorkerOf DEF Wk, Fd, Types, PoolTypes

LEMMA SumType ==
    ASSUME NEW a \in Nat, NEW b \in Nat, NEW c \in Nat
    PROVE  a + b + c \in Nat
  OBVIOUS

LEMMA OutType ==
    ASSUME Types, NEW k \in Pids
    PROVE  Out(k) \in Nat /\ Len(toQ[k]) \in Nat /\ Len(fromQ[k]) \in Nat
<1> DEFINE c == IF work[k] = 0 THEN 0 ELSE 1
<1>1. Len(toQ[k]) \in Nat /\ Len(fromQ[k]) \in Nat
  BY DEF Types, KernelTypes
<1>2. c \in Nat
  OBVIOUS
<1>3. Out(k) = Len(toQ[k]) + Len(fromQ[k]) + c
  BY DEF Out
<1> HIDE DEF c
<1>4. Len(toQ[k]) + Len(fromQ[k]) + c \in Nat
  BY <1>1, <1>2, SumType
<1> QED
  BY <1>1, <1>3, <1>4

\* What Made workers look like, before and after a step.
SameView ==
    /\ \A f \in Fds : Fd(f)' = Fd(f)
    /\ \A w \in Workers : Made(w)' <=> Made(w)
    /\ \A w \in Workers : Made(w) =>
          /\ Good(w) => Wk(w)'.pid = Wk(w).pid
          /\ Wk(w)'.toR = Wk(w).toR /\ Wk(w)'.toW = Wk(w).toW
          /\ Wk(w)'.fromR = Wk(w).fromR /\ Wk(w)'.fromW = Wk(w).fromW
SameStages ==
    /\ rpc' = "create" => rpc = "create" /\ ri' = ri
    /\ rpc' = "called" => rpc = "called"

LEMMA NumbersFds ==
    ASSUME Types, NEW w \in Workers, NumbersAt(Wk(w), w)
    PROVE  {0, 2 * w - 1, 2 * w, 2 * w + 1} \subseteq Fds
<1>1. Wk(w) \in WorkerRecord
  BY UseType
<1>2. /\ 0 \in Fds \cup {None} /\ 2 * w - 1 \in Fds \cup {None} /\ 2 * w \in Fds \cup {None}
      /\ 2 * w + 1 \in Fds \cup {None}
  BY <1>1 DEF NumbersAt, WorkerRecord
<1> QED
  BY <1>2 DEF None, Workers

LEMMA Keeps ==
    ASSUME Types, NEW x \in 1..(NumWorkers + 1), Struct(x), SameView, SameStages, UNCHANGED forks,
           faults' = 0 => Calm(x)',
           \A k \in Pids : proc[k] # "up" => proc'[k] # "up",
           \A w \in Workers : Made(w) /\ w # x /\ Good(w) =>
               proc'[Wk(w).pid] = "up" /\ Wk(w)'.status \in {"IDLE", "BUSY"} /\ Load(w)',
           rpc' = "sent" /\ ~snd'.ok => snd'.w = x
    PROVE  Struct(x)'
<1>0. \A w \in Workers : Made(w) => {0, 2 * w - 1, 2 * w, 2 * w + 1} \subseteq Fds
  BY NumbersFds DEF Struct
<1>1. x \in Workers => Made(x)'
  BY DEF Struct, SameView
<1>2. rpc' = "create" => x = ri' + 1 /\ \A f \in Fds : f = 2 * ri' + 1 => Fd(f)' = Closed
  BY DEF Struct, SameView, SameStages
<1>3. \A w \in Workers : Made(w)' => NumbersAt(Wk(w), w)'
  BY DEF Struct, SameView, NumbersAt
<1>4. \A w \in Workers : Made(w)' /\ w # x => Good(w)' /\ Load(w)'
  <2> SUFFICES ASSUME NEW w \in Workers, Made(w)', w # x PROVE Good(w)' /\ Load(w)'
    OBVIOUS
  <2>1. Made(w) /\ Good(w) /\ {2 * w - 1, 2 * w} \subseteq Fds
    BY <1>0 DEF SameView, Struct
  <2>2. proc'[Wk(w).pid] = "up" /\ Wk(w)'.status \in {"IDLE", "BUSY"} /\ Load(w)'
    BY <2>1
  <2>3. Wk(w)'.pid = Wk(w).pid /\ Fd(2 * w - 1)' = Fd(2 * w - 1) /\ Fd(2 * w)' = Fd(2 * w)
    BY <2>1 DEF SameView
  <2> QED
    BY <2>1, <2>2, <2>3 DEF Good
<1>5. \A w \in Workers : Made(w)' /\ w = x => Broken(w)'
  <2> SUFFICES ASSUME NEW w \in Workers, Made(w)', w = x PROVE Broken(w)'
    OBVIOUS
  <2>1. Made(w) /\ Broken(w) /\ Fd(2 * w - 1)' = Fd(2 * w - 1)
    BY <1>0 DEF SameView, Struct
  <2> QED
    BY <2>1 DEF Broken
<1>6. \A v, w \in Workers : Made(v)' /\ Made(w)' /\ x \notin {v, w} /\ Wk(v)'.pid = Wk(w)'.pid => v = w
  BY DEF Struct, SameView
<1>7. \A f \in Fds : Fd(f)' # Closed => \E w \in Workers : Made(w)' /\ f \in {2 * w - 1, 2 * w}
  BY DEF Struct, SameView
<1>8. rpc' = "called" => \A w \in Workers : Made(w)' => Fd(2 * w - 1)' # Closed /\ Fd(2 * w)' # Closed
  BY <1>0 DEF Struct, SameView, SameStages
<1> HIDE DEF Calm
<1> QED
  BY <1>1, <1>2, <1>3, <1>4, <1>5, <1>6, <1>7, <1>8 DEF Struct

\* Nobody's load changes when the pipes and the reads do not, and no status
\* goes back to idle.
LEMMA LoadKeeps ==
    ASSUME NEW w \in Workers, Load(w), NEW p, Wk(w).pid = p, Wk(w)'.pid = p, Out(p)' = Out(p),
           Reading(w)' = Reading(w),
           Wk(w)'.status = Wk(w).status \/ Wk(w)'.status = "BUSY",
           SentTo(w) => SentTo(w)' \/ Wk(w)'.status = "BUSY"
    PROVE  Load(w)'
  BY DEF Load, Out

LEMMA OutSame ==
    ASSUME NEW k, toQ'[k] = toQ[k], fromQ'[k] = fromQ[k], work'[k] = work[k]
    PROVE  Out(k)' = Out(k)
  BY DEF Out

LEMMA CalmParts ==
    ASSUME NEW x, Calm(x), \A w \in Workers : Made(w) => Good(w), SameView, SameStages,
           \A k \in Pids : proc[k] # "up" => proc'[k] # "up", GetCalm'
    PROVE  Calm(x)'
<1>1. rpc' # "create"
  BY DEF Calm, SameStages
<1>2. \A k \in Pids : proc'[k] = "up" => \E w \in Workers : Made(w)' /\ Wk(w)'.pid = k
  BY DEF Calm, SameView
<1> QED
  BY <1>1, <1>2 DEF Calm

LEMMA CalmKeeps ==
    ASSUME NEW x, Calm(x), \A w \in Workers : Made(w) => Good(w), SameView, SameStages,
           \A k \in Pids : proc[k] # "up" => proc'[k] # "up",
           \A w \in Workers : Made(w) /\ fromQ[Wk(w).pid] # << >> => fromQ'[Wk(w).pid] # << >>,
           UNCHANGED <<gpc, gi, gset, gres>>
    PROVE  Calm(x)'
<1>1. gpc' \in {"scan", "read"} =>
          \A w \in Workers : Made(w)' /\ 2 * w \in gset' => fromQ'[Wk(w)'.pid] # << >>
  BY DEF Calm, GetCalm, SameView
<1>2. GetCalm'
  BY <1>1 DEF Calm, GetCalm
<1> QED
  BY <1>2, CalmParts

LEMMA GoodPid ==
    ASSUME Types, NEW w \in Workers, Good(w)
    PROVE  Wk(w).pid \in Pids
<1>1. Wk(w).pid \in 1..forks /\ forks \in 0..MaxPids
  BY DEF Good, Types, KernelTypes
<1>2. MaxPids \in Nat
  BY PoolAssumption
<1> HIDE DEF Good
<1> QED
  BY <1>1, <1>2 DEF Pids

LEMMA CalmGood ==
    ASSUME NEW x, Struct(x), faults = 0
    PROVE  /\ Calm(x) /\ x = NumWorkers + 1 /\ rpc # "create"
           /\ \A w \in Workers : w # x /\ (Made(w) => Good(w) /\ Load(w))
<1>1. Calm(x)
  BY DEF Struct
<1>2. x = NumWorkers + 1 /\ rpc # "create"
  BY <1>1 DEF Calm
<1>3. \A w \in Workers : w # x
  BY <1>2, PoolAssumption DEF Workers
<1>4. \A w \in Workers : Made(w) /\ w # x => Good(w) /\ Load(w)
  BY DEF Struct
<1> QED
  BY <1>1, <1>2, <1>3, <1>4

\* A step that touches no pipe and no living process, and no status of a worker
\* whose process is there.
LEMMA QuietStruct ==
    ASSUME Types, NEW x \in 1..(NumWorkers + 1), Struct(x), SameView, SameStages,
           UNCHANGED <<forks, toQ, fromQ, work, gpc, gi, gset, gres, faults>>,
           \A k \in Pids : proc'[k] = "up" <=> proc[k] = "up",
           \A w \in Workers : Made(w) /\ Good(w) => Wk(w)'.status = Wk(w).status,
           rpc' = "sent" <=> rpc = "sent", rpc = "sent" => snd' = snd
    PROVE  Struct(x)'
<1>1. faults' = 0 => Calm(x)'
  <2>1. SUFFICES ASSUME faults = 0 PROVE Calm(x)'
    OBVIOUS
  <2>2. Calm(x) /\ \A w \in Workers : Made(w) => Good(w)
    BY <2>1, CalmGood
  <2> QED
    BY <2>2, CalmKeeps
<1>2. ASSUME NEW w \in Workers, Made(w), w # x, Good(w)
      PROVE  proc'[Wk(w).pid] = "up" /\ Wk(w)'.status \in {"IDLE", "BUSY"} /\ Load(w)'
  <2>1. Wk(w).pid \in Pids
    BY <1>2, GoodPid
  <2>2. proc'[Wk(w).pid] = "up" /\ Wk(w)'.status \in {"IDLE", "BUSY"}
    BY <1>2, <2>1 DEF Good
  <2>3. Load(w) /\ Wk(w)'.pid = Wk(w).pid
    BY <1>2 DEF Struct, SameView
  <2>4. Out(Wk(w).pid)' = Out(Wk(w).pid) /\ Reading(w)' = Reading(w)
    BY <2>3 DEF Out, Reading
  <2>5. SentTo(w) => SentTo(w)'
    BY DEF SentTo
  <2>6. Wk(w)'.status = Wk(w).status
    BY <1>2
  <2>7. Load(w)'
    BY <2>3, <2>4, <2>5, <2>6 DEF Load
  <2> QED
    BY <2>2, <2>7
<1>3. rpc' = "sent" /\ ~snd'.ok => snd'.w = x
  BY DEF Struct
<1>4. \A k \in Pids : proc[k] # "up" => proc'[k] # "up"
  OBVIOUS
<1>5. \A w \in Workers : Made(w) /\ w # x /\ Good(w) =>
               proc'[Wk(w).pid] = "up" /\ Wk(w)'.status \in {"IDLE", "BUSY"} /\ Load(w)'
  BY <1>2
<1> HIDE DEF Calm
<1> QED
  BY <1>1, <1>3, <1>4, <1>5, Keeps

\* The view when a step writes nothing of it.
LEMMA ViewSame ==
    ASSUME UNCHANGED <<pool, fdtab, forked, cpc, ci>>,
           rpc' = "called" <=> rpc = "called",
           (rpc' # "create" /\ rpc # "create") \/ (rpc' = rpc /\ ri' = ri)
    PROVE  /\ SameView /\ SameStages
           /\ \A w \in Workers : Wk(w)' = Wk(w)
<1>1. Cur' = Cur
  BY DEF Cur, Runner
<1> QED
  BY <1>1 DEF SameView, SameStages, Fd, Wk, Made

\* The view when a step writes workers' statuses and the pids of dead ones.
LEMMA ViewStatus ==
    ASSUME UNCHANGED <<fdtab, forked, cpc, ci>>,
           rpc' = "called" <=> rpc = "called",
           (rpc' # "create" /\ rpc # "create") \/ (rpc' = rpc /\ ri' = ri),
           \A w \in Workers :
              /\ Good(w) => pool'[Cur].workers[w].pid = pool[Cur].workers[w].pid
              /\ pool'[Cur].workers[w].toR = pool[Cur].workers[w].toR
              /\ pool'[Cur].workers[w].toW = pool[Cur].workers[w].toW
              /\ pool'[Cur].workers[w].fromR = pool[Cur].workers[w].fromR
              /\ pool'[Cur].workers[w].fromW = pool[Cur].workers[w].fromW
    PROVE  /\ SameView /\ SameStages
           /\ \A w \in Workers : Wk(w)'.status = pool'[Cur].workers[w].status
<1>1. Cur' = Cur
  BY DEF Cur, Runner
<1> QED
  BY <1>1 DEF SameView, SameStages, Fd, Wk, Made

\* The processes of two sound workers differ, and master and process hold the
\* ends of the pipes between them.
LEMMA GoodApart ==
    ASSUME NEW x, Struct(x), NEW v \in Workers, NEW w \in Workers, Made(v), Made(w),
           v # x, w # x, Wk(v).pid = Wk(w).pid
    PROVE  v = w
  BY DEF Struct

LEMMA EndHeld ==
    ASSUME Types, NEW m \in Masters, NEW f \in Fds, fdtab[m][f] # Closed
    PROVE  Held(fdtab[m][f])
<1>1. DOMAIN fdtab[m] = Fds
  BY DEF Types, PoolTypes
<1>2. fdtab[m][f] \in MasterEnds(m)
  BY <1>1 DEF MasterEnds, Range
<1> QED
  BY <1>2 DEF Held

LEMMA GoodEnds ==
    ASSUME Types, EndsInv, NEW w \in Workers, Good(w), NumbersAt(Wk(w), w)
    PROVE  LET k == Wk(w).pid IN
           /\ Held(<<"to", k, "w">>) /\ Held(<<"from", k, "r">>)
           /\ Held(<<"to", k, "r">>) /\ Held(<<"from", k, "w">>)
<1> DEFINE k == Wk(w).pid
<1>1. k \in Pids /\ proc[k] = "up"
  BY GoodPid DEF Good
<1>2. {2 * w - 1, 2 * w} \subseteq Fds
  BY NumbersFds
<1>3. fdtab[Cur][2 * w - 1] = <<"to", k, "w">> /\ fdtab[Cur][2 * w] = <<"from", k, "r">>
  BY DEF Good, Fd
<1>4. Cur \in Masters
  BY UseType
<1>5. Held(<<"to", k, "w">>) /\ Held(<<"from", k, "r">>)
  <2>1. <<"to", k, "w">> # Closed /\ <<"from", k, "r">> # Closed
    BY DEF Closed
  <2>2. fdtab[Cur][2 * w - 1] # Closed /\ fdtab[Cur][2 * w] # Closed
    BY <1>3, <2>1
  <2>3. Held(fdtab[Cur][2 * w - 1]) /\ Held(fdtab[Cur][2 * w])
    BY <1>2, <1>4, <2>2, EndHeld
  <2> QED
    BY <1>3, <2>3
<1>6. ChildEnds(k) \subseteq hold[k]
  BY <1>1 DEF EndsInv
<1>7. Held(<<"to", k, "r">>) /\ Held(<<"from", k, "w">>)
  BY <1>1, <1>6 DEF Held, ChildEnds
<1> QED
  BY <1>5, <1>7

\* Nobody holds the read end of the task pipe of a process that is not there.
LEMMA DeadPipe ==
    ASSUME Types, EndsInv, NEW k \in Pids, proc[k] # "up"
    PROVE  ~Held(<<"to", k, "r">>)
<1>1. ASSUME NEW m \in Masters, <<"to", k, "r">> \in MasterEnds(m) PROVE FALSE
  <2>1. DOMAIN fdtab[m] = Fds
    BY DEF Types, PoolTypes
  <2>2. PICK f \in Fds : fdtab[m][f] = <<"to", k, "r">>
    BY <1>1, <2>1 DEF MasterEnds, Range
  <2>3. <<"to", k, "r">> # Closed
    BY DEF Closed
  <2>4. fdtab[m][f] # Closed
    BY <2>2, <2>3
  <2>5. PICK j \in 1..forks : fdtab[m][f] \in {<<"to", j, "w">>, <<"from", j, "r">>}
    BY <1>1, <2>4 DEF EndsInv
  <2> QED
    BY <2>2, <2>5
<1>2. ASSUME NEW j \in Pids, <<"to", k, "r">> \in hold[j] PROVE FALSE
  <2>1. j = k
    BY <1>2 DEF EndsInv
  <2>2. hold[k] = {}
    BY DEF EndsInv
  <2> QED
    BY <1>2, <2>1, <2>2
<1> QED
  BY <1>1, <1>2 DEF Held

\* What steps do to what a process has outstanding.
\* A process loses its tasks; the results it wrote stay.
LEMMA OutEmptied ==
    ASSUME Types, NEW k \in Pids, toQ' = [toQ EXCEPT ![k] = << >>], work' = [work EXCEPT ![k] = 0],
           UNCHANGED fromQ
    PROVE  Out(k)' <= Out(k) /\ \A j \in Pids : j # k => Out(j)' = Out(j)
<1>1. /\ toQ'[k] = << >> /\ work'[k] = 0
      /\ \A j \in Pids : j # k => toQ'[j] = toQ[j] /\ work'[j] = work[j]
  BY DEF Types, KernelTypes
<1>2. \A j \in Pids : j # k => Out(j)' = Out(j)
  BY <1>1 DEF Out
<1>3. Out(k)' = Len(fromQ[k])
  <2>1. Out(k)' = 0 + Len(fromQ[k]) + 0
    BY <1>1 DEF Out
  <2>2. Len(fromQ[k]) \in Nat
    BY OutType
  <2> QED
    BY <2>1, <2>2
<1>4. Len(fromQ[k]) <= Out(k)
  <2> DEFINE a == Len(toQ[k])
             b == Len(fromQ[k])
             c == IF work[k] = 0 THEN 0 ELSE 1
             o == Out(k)
  <2>1. a \in Nat /\ b \in Nat /\ c \in Nat
    BY OutType
  <2>2. o = a + b + c
    BY DEF Out
  <2>3. SUFFICES b <= o
    OBVIOUS
  <2> HIDE DEF a, b, c, o
  <2> QED
    BY <2>1, <2>2
<1> QED
  BY <1>2, <1>3, <1>4

LEMMA OutExit ==
    ASSUME Types, NEW k \in Pids, Exit(k), UNCHANGED fromQ
    PROVE  Out(k)' <= Out(k) /\ \A j \in Pids : j # k => Out(j)' = Out(j)
  BY OutEmptied DEF Exit

LEMMA OutRead ==
    ASSUME Types, NEW k \in Pids, WorkerRead(k)
    PROVE  \A j \in Pids : Out(j)' = Out(j)
<1>1. /\ toQ[k] \in Seq(TaskIds) /\ toQ[k] # << >> /\ work[k] = 0 /\ fromQ' = fromQ
      /\ toQ'[k] = Tail(toQ[k]) /\ work'[k] = Head(toQ[k])
      /\ \A j \in Pids : j # k => toQ'[j] = toQ[j] /\ work'[j] = work[j]
  BY DEF WorkerRead, Types, KernelTypes
<1>2. \A j \in Pids : j # k => Out(j)' = Out(j)
  BY <1>1 DEF Out
<1>3. Len(toQ'[k]) = Len(toQ[k]) - 1 /\ work'[k] # 0 /\ Len(toQ[k]) \in Nat
  BY <1>1, TailType DEF TaskIds
<1>4. Out(k)' = Len(toQ'[k]) + Len(fromQ[k]) + 1 /\ Out(k) = Len(toQ[k]) + Len(fromQ[k]) + 0
  BY <1>1, <1>3 DEF Out
<1>5. Len(fromQ[k]) \in Nat
  BY OutType
<1>6. Out(k)' = Out(k)
  <2> DEFINE a == Len(toQ[k])
             b == Len(fromQ[k])
             d == Len(toQ'[k])
             o == Out(k)
             n == Out(k)'
  <2>1. a \in Nat /\ b \in Nat /\ d = a - 1 /\ n = d + b + 1 /\ o = a + b + 0
    BY <1>3, <1>4, <1>5
  <2>2. SUFFICES n = o
    OBVIOUS
  <2> HIDE DEF a, b, d, o, n
  <2> QED
    BY <2>1
<1> QED
  BY <1>2, <1>6

LEMMA OutReply ==
    ASSUME Types, NEW k \in Pids, WorkerReply(k), Held(<<"from", k, "r">>)
    PROVE  /\ \A j \in Pids : Out(j)' = Out(j)
           /\ \A j \in Pids : fromQ[j] # << >> => fromQ'[j] # << >>
<1>1. /\ fromQ[k] \in Seq(TaskIds) /\ work[k] \in TaskIds /\ work[k] # 0 /\ toQ' = toQ
      /\ fromQ'[k] = Append(fromQ[k], work[k]) /\ work'[k] = 0
      /\ \A j \in Pids : j # k => fromQ'[j] = fromQ[j] /\ work'[j] = work[j]
  BY DEF WorkerReply, Types, KernelTypes, TaskIds
<1>2. \A j \in Pids : j # k => Out(j)' = Out(j)
  BY <1>1 DEF Out
<1>3. Len(fromQ'[k]) = Len(fromQ[k]) + 1 /\ Len(fromQ[k]) \in Nat /\ fromQ'[k] # << >>
  BY <1>1
<1>4. Out(k)' = Len(toQ[k]) + Len(fromQ'[k]) + 0 /\ Out(k) = Len(toQ[k]) + Len(fromQ[k]) + 1
  BY <1>1 DEF Out
<1>5. Len(toQ[k]) \in Nat
  BY OutType
<1>6. Out(k)' = Out(k)
  <2> DEFINE a == Len(toQ[k])
             b == Len(fromQ[k])
             d == Len(fromQ'[k])
             o == Out(k)
             n == Out(k)'
  <2>1. a \in Nat /\ b \in Nat /\ d = b + 1 /\ n = a + d + 0 /\ o = a + b + 1
    BY <1>3, <1>4, <1>5
  <2>2. SUFFICES n = o
    OBVIOUS
  <2> HIDE DEF a, b, d, o, n
  <2> QED
    BY <2>1
<1> QED
  BY <1>1, <1>2, <1>3, <1>6

J == Types /\ StageInv /\ HandsInv /\ EndsInv /\ GetInv

\* Marking dead workers leaves the sound ones alone, and every number.
LEMMA ReapedAre ==
    ASSUME Types, NEW m \in Masters, NEW dead, NEW w \in Workers
    PROVE  LET s == pool[m].workers[w]
               r == MarkReaped(pool[m].workers, dead)[w]
           IN  /\ r.toR = s.toR /\ r.toW = s.toW /\ r.fromR = s.fromR /\ r.fromW = s.fromW
               /\ s.pid \notin dead => r = s
<1>1. pool[m].workers[w] \in WorkerRecord
  BY WorkerOf
<1> QED
  BY <1>1 DEF MarkReaped, WorkerRecord

LEMMA GoneAre ==
    ASSUME Types, NEW m \in Masters, NEW w \in Workers
    PROVE  LET s == pool[m].workers[w]
               r == MarkGone(m, pool[m].workers)[w]
           IN  /\ r.toR = s.toR /\ r.toW = s.toW /\ r.fromR = s.fromR /\ r.fromW = s.fromW
               /\ r.pid = s.pid
               /\ s.pid \in Pids /\ proc[s.pid] # "gone" => r = s
<1>1. pool[m].workers[w] \in WorkerRecord
  BY WorkerOf
<1>2. w \in Idle(m) /\ proc[pool[m].workers[w].pid] # "gone" => w \in IdleAlive(m)
  BY DEF IdleAlive
<1> QED
  BY <1>1, <1>2 DEF MarkGone, WorkerRecord

LEMMA MarkedView ==
    ASSUME Types, UNCHANGED <<fdtab, forked, cpc, ci>>,
           rpc \notin {"called", "create"}, rpc' \notin {"called", "create"},
           \/ /\ pool'[Cur].workers = MarkGone(Cur, pool[Cur].workers)
           \/ /\ pool'[Cur].workers = MarkReaped(pool[Cur].workers, Zombies(Cur))
    PROVE  /\ SameView /\ SameStages
           /\ \A w \in Workers : Good(w) => Wk(w)'.status = Wk(w).status
<1>0. Cur \in Masters
  BY UseType
<1>1. \A w \in Workers :
              /\ pool'[Cur].workers[w].toR = pool[Cur].workers[w].toR
              /\ pool'[Cur].workers[w].toW = pool[Cur].workers[w].toW
              /\ pool'[Cur].workers[w].fromR = pool[Cur].workers[w].fromR
              /\ pool'[Cur].workers[w].fromW = pool[Cur].workers[w].fromW
  <2>1. CASE pool'[Cur].workers = MarkGone(Cur, pool[Cur].workers)
    <3>1. \A w \in Workers : pool'[Cur].workers[w] = MarkGone(Cur, pool[Cur].workers)[w]
      BY <2>1
    <3> QED
      BY <1>0, <3>1, GoneAre
  <2>2. CASE pool'[Cur].workers = MarkReaped(pool[Cur].workers, Zombies(Cur))
    <3>1. \A w \in Workers : pool'[Cur].workers[w] = MarkReaped(pool[Cur].workers, Zombies(Cur))[w]
      BY <2>2
    <3> QED
      BY <1>0, <3>1, ReapedAre
  <2> QED
    BY <2>1, <2>2
<1>2. ASSUME NEW w \in Workers, Good(w)
      PROVE  pool'[Cur].workers[w] = pool[Cur].workers[w]
  <2>1. Wk(w).pid \in Pids /\ proc[Wk(w).pid] = "up"
    BY <1>2, GoodPid DEF Good
  <2>2. pool[Cur].workers[w].pid \in Pids /\ proc[pool[Cur].workers[w].pid] # "gone"
        /\ pool[Cur].workers[w].pid \notin Zombies(Cur)
    BY <2>1 DEF Wk, Zombies
  <2> QED
    BY <2>2, <1>0, ReapedAre, GoneAre
<1>3. SameView /\ SameStages /\ \A w \in Workers : Wk(w)'.status = pool'[Cur].workers[w].status
  BY <1>1, <1>2, ViewStatus
<1> QED
  BY <1>2, <1>3 DEF Wk

LEMMA BeginView ==
    ASSUME Types, RunBegin
    PROVE  /\ SameView /\ SameStages
           /\ \A w \in Workers : Wk(w)'.status = Wk(w).status
<1>1. rpc = "called" /\ rpc' = "test" /\ UNCHANGED <<forked, cpc, ci>>
  BY DEF RunBegin, callVars
<1>2. Cur = "client" /\ Cur' = Runner
  BY <1>1 DEF Cur, Runner
<1>3. pool'[Runner].workers = pool["client"].workers /\ fdtab'[Runner] = fdtab["client"]
  BY BeginEffect, MastersAre DEF Types, PoolTypes, PoolRecord
<1>4. \A w : Wk(w)' = Wk(w)
  BY <1>2, <1>3 DEF Wk
<1>5. \A f : Fd(f)' = Fd(f)
  BY <1>2, <1>3 DEF Fd
<1> QED
  BY <1>1, <1>4, <1>5 DEF SameView, SameStages, Made

\* dispatch_tasks sends to a sound worker that has nothing to do, or fails to
\* send to the broken one.
LEMMA SendCase ==
    ASSUME J, NEW x \in 1..(NumWorkers + 1), Struct(x), DispatchSend
    PROVE  \E w \in Workers :
             /\ snd'.w = w
             /\ \/ /\ w # x /\ snd'.ok /\ Wk(w).status = "IDLE" /\ Made(w)
                   /\ \E t \in TaskIds : toQ' = [toQ EXCEPT ![Wk(w).pid] = Append(toQ[Wk(w).pid], t)]
                \/ w = x /\ ~snd'.ok /\ toQ' = toQ
<1>1. rpc = "dispatch" /\ Cur = Runner /\ cpc # "create"
  BY DEF DispatchSend, Cur, J, StageInv
<1>2. PICK w \in Workers, t \in TaskIds, ok \in BOOLEAN, k \in Pids :
             /\ w \in IdleAlive(Runner)
             /\ LET e == Entry(Runner, pool[Runner].workers[w].toW) IN
                  /\ ok <=> e # Closed /\ e[3] = "w" /\ Held(<<e[1], e[2], "r">>)
                  /\ ok => e \in Ends /\ e[2] = k
             /\ toQ' = IF ok THEN [toQ EXCEPT ![k] = Append(toQ[k], t)] ELSE toQ
             /\ snd' = [w |-> w, task |-> t, ok |-> ok]
  BY SendEffect DEF J
<1> DEFINE e == Entry(Runner, pool[Runner].workers[w].toW)
<1>3. Types /\ EndsInv /\ Made(w) /\ NumbersAt(Wk(w), w)
  BY <1>1 DEF J, Made, Struct
<1>4. 2 * w - 1 \in Fds /\ 2 * w - 1 # None
  BY <1>3, NumbersFds DEF Fds, None
<1>5. e = Fd(2 * w - 1)
  BY <1>1, <1>3, <1>4 DEF Entry, NumbersAt, Wk, Fd
<1>6. Wk(w).status = "IDLE"
  BY <1>1, <1>2 DEF IdleAlive, Idle, Wk
<1>7. CASE w # x
  <2>1. Good(w)
    BY <1>3, <1>7 DEF Struct
  <2>2. e = <<"to", Wk(w).pid, "w">>
    BY <1>5, <2>1 DEF Good
  <2>3. Held(<<"to", Wk(w).pid, "r">>)
    BY <1>3, <2>1, GoodEnds
  <2>4. e # Closed /\ e[3] = "w" /\ e[1] = "to" /\ e[2] = Wk(w).pid
    BY <2>2 DEF Closed
  <2> HIDE DEF e
  <2>5. ok /\ k = Wk(w).pid
    BY <1>2, <2>3, <2>4 DEF e
  <2> QED
    BY <1>2, <1>3, <1>6, <1>7, <2>5
<1>8. CASE w = x
  <2>1. Broken(w)
    BY <1>3, <1>8 DEF Struct
  <2>2. ~ok
    <3>1. CASE e = Closed
      BY <1>2, <3>1
    <3>2. ASSUME NEW j \in Pids, e = <<"to", j, "w">>, proc[j] # "up" PROVE ~ok
      <4>1. ~Held(<<"to", j, "r">>)
        BY <1>3, <3>2, DeadPipe
      <4>2. e[1] = "to" /\ e[2] = j
        BY <3>2
      <4> QED
        BY <1>2, <4>1, <4>2
    <3> QED
      BY <1>5, <2>1, <3>1, <3>2 DEF Broken
  <2> QED
    BY <1>2, <1>8, <2>2
<1> QED
  BY <1>7, <1>8

\* An idle worker that is sound has nothing outstanding.
LEMMA IdleLoad ==
    ASSUME Types, NEW w \in Workers, Good(w), Load(w), Wk(w).status = "IDLE", ~SentTo(w)
    PROVE  Out(Wk(w).pid) = 0 /\ Reading(w) = 0
<1>1. Wk(w).pid \in Pids
  BY GoodPid
<1>2. Out(Wk(w).pid) \in Nat
  BY <1>1, OutType
<1>3. Reading(w) \in {0, 1}
  BY DEF Reading
<1>4. Out(Wk(w).pid) + Reading(w) <= 1 /\ Out(Wk(w).pid) + Reading(w) # 1
  BY DEF Load
<1> QED
  BY <1>2, <1>3, <1>4

LEMMA OutSend ==
    ASSUME Types, NEW k \in Pids, NEW t \in TaskIds, toQ' = [toQ EXCEPT ![k] = Append(toQ[k], t)],
           UNCHANGED <<fromQ, work>>, Out(k) = 0
    PROVE  Out(k)' = 1 /\ \A j \in Pids : j # k => Out(j)' = Out(j)
<1>1. /\ toQ[k] \in Seq(TaskIds) /\ toQ'[k] = Append(toQ[k], t)
      /\ \A j \in Pids : j # k => toQ'[j] = toQ[j]
  BY DEF Types, KernelTypes
<1>2. \A j \in Pids : j # k => Out(j)' = Out(j)
  BY <1>1 DEF Out
<1>3. Len(toQ'[k]) = Len(toQ[k]) + 1
  BY <1>1
<1>4. Out(k)' = 1
  <2> DEFINE a == Len(toQ[k])
             b == Len(fromQ[k])
             c == IF work[k] = 0 THEN 0 ELSE 1
             d == Len(toQ'[k])
             o == Out(k)
             n == Out(k)'
  <2>1. a \in Nat /\ b \in Nat /\ c \in Nat
    BY OutType
  <2>2. d = a + 1 /\ n = d + b + c /\ o = a + b + c /\ o = 0
    BY <1>3 DEF Out
  <2>3. SUFFICES n = 1
    OBVIOUS
  <2> HIDE DEF a, b, c, d, o, n
  <2> QED
    BY <2>1, <2>2
<1> QED
  BY <1>2, <1>4

LEMMA LoadIs ==
    ASSUME NEW w \in Workers, NEW p, Wk(w)'.pid = p,
           \/ Out(p)' = 1 /\ Reading(w)' = 0 /\ SentTo(w)'
           \/ Out(p)' = 0 /\ Reading(w)' = 0
           \/ Out(p)' = 0 /\ Reading(w)' = 1 /\ (Wk(w)'.status = "BUSY" \/ SentTo(w)')
    PROVE  Load(w)'
<1>1. Load(w)' <=> /\ Out(p)' + Reading(w)' <= 1
                   /\ Out(p)' + Reading(w)' = 1 => Wk(w)'.status = "BUSY" \/ SentTo(w)'
  BY DEF Load, Out
<1> QED
  BY <1>1

LEMMA SendStruct ==
    ASSUME J, NEW x \in 1..(NumWorkers + 1), Struct(x), DispatchSend
    PROVE  Struct(x)' /\ \A k \in Pids : Out(k) <= 1 => Out(k)' <= 1
<1>1. /\ rpc = "dispatch" /\ rpc' = "sent" /\ Cur = Runner
      /\ UNCHANGED <<fdtab, forked, cpc, ci, forks, proc, fromQ, work, gpc, gi, gset, gres, faults>>
  BY DEF DispatchSend, Cur, callVars, getVars
<1>2. pool'[Runner].workers = MarkGone(Runner, pool[Runner].workers)
  BY SendEffect DEF J
<1>3. /\ SameView /\ SameStages
      /\ \A w \in Workers : Good(w) => Wk(w)'.status = Wk(w).status
  BY <1>1, <1>2, MarkedView DEF J
<1>4. PICK w \in Workers :
             /\ snd'.w = w
             /\ \/ /\ w # x /\ snd'.ok /\ Wk(w).status = "IDLE" /\ Made(w)
                   /\ \E t \in TaskIds : toQ' = [toQ EXCEPT ![Wk(w).pid] = Append(toQ[Wk(w).pid], t)]
                \/ w = x /\ ~snd'.ok /\ toQ' = toQ
  BY SendCase
<1>5. Types /\ \A v \in Workers : Made(v) /\ v # x => Good(v) /\ Load(v) /\ Wk(v).pid \in Pids
  BY GoodPid DEF J, Struct
<1>6. \A v \in Workers : ~SentTo(v)
  BY <1>1 DEF SentTo
<1>7. \A v \in Workers : Reading(v)' = Reading(v)
  BY <1>1 DEF Reading
<1>8. /\ \A v \in Workers : Made(v) /\ v # x => Load(v)'
      /\ \A k \in Pids : Out(k) <= 1 => Out(k)' <= 1
  <2>1. CASE w = x /\ toQ' = toQ
    <3>1. \A k : Out(k)' = Out(k)
      BY <1>1, <2>1 DEF Out
    <3>2. ASSUME NEW v \in Workers, Made(v), v # x PROVE Load(v)'
      <4>1. Load(v) /\ Good(v)
        BY <1>5, <3>2
      <4>2. Wk(v)'.pid = Wk(v).pid /\ Wk(v)'.status = Wk(v).status
        BY <1>3, <3>2, <4>1 DEF SameView
      <4> QED
        BY <1>6, <1>7, <3>1, <4>1, <4>2, LoadKeeps
    <3> QED
      BY <3>1, <3>2
  <2>2. ASSUME NEW t \in TaskIds, toQ' = [toQ EXCEPT ![Wk(w).pid] = Append(toQ[Wk(w).pid], t)],
               w # x, snd'.ok, Wk(w).status = "IDLE", Made(w)
        PROVE  /\ \A v \in Workers : Made(v) /\ v # x => Load(v)'
               /\ \A k \in Pids : Out(k) <= 1 => Out(k)' <= 1
    <3>1. Good(w) /\ Load(w) /\ Wk(w).pid \in Pids
      BY <1>5, <2>2
    <3>2. PICK p \in Pids : p = Wk(w).pid
      BY <3>1
    <3>3. Out(p) = 0 /\ Reading(w) = 0
      BY <1>5, <1>6, <2>2, <3>1, <3>2, IdleLoad
    <3>4. Out(p)' = 1 /\ \A j \in Pids : j # p => Out(j)' = Out(j)
      BY <1>1, <1>5, <2>2, <3>2, <3>3, OutSend
    <3>5. ASSUME NEW v \in Workers, Made(v), v # x PROVE Load(v)'
      <4>1. Load(v) /\ Good(v) /\ Wk(v).pid \in Pids
        BY <1>5, <3>5
      <4>2. Wk(v)'.pid = Wk(v).pid /\ Wk(v)'.status = Wk(v).status
        BY <1>3, <3>5, <4>1 DEF SameView
      <4>3. CASE v = w
        <5>1. SentTo(v)'
          BY <1>1, <1>4, <2>2, <4>3 DEF SentTo
        <5>2. Reading(v)' = 0 /\ Wk(v)'.pid = p
          BY <1>7, <3>2, <3>3, <4>2, <4>3
        <5> QED
          BY <3>4, <5>1, <5>2, LoadIs
      <4>4. CASE v # w
        <5>1. Wk(v).pid # p
          BY <2>2, <3>2, <3>5, <4>4, GoodApart
        <5>2. PICK q \in Pids : q = Wk(v).pid
          BY <4>1
        <5>3. Out(q)' = Out(q) /\ Wk(v)'.pid = q
          BY <3>4, <4>2, <5>1, <5>2
        <5> QED
          BY <1>6, <1>7, <4>1, <4>2, <5>2, <5>3, LoadKeeps
      <4> QED
        BY <4>3, <4>4
    <3>6. \A k \in Pids : Out(k) <= 1 => Out(k)' <= 1
      BY <3>4
    <3> QED
      BY <3>5, <3>6
  <2> QED
    BY <1>4, <2>1, <2>2
<1>9. faults' = 0 => Calm(x)'
  <2>1. SUFFICES ASSUME faults = 0 PROVE Calm(x)'
    BY <1>1
  <2>2. Calm(x) /\ \A v \in Workers : Made(v) => Good(v)
    BY <2>1, CalmGood
  <2> QED
    BY <1>1, <1>3, <2>2, CalmKeeps
<1>10. \A v \in Workers : Made(v) /\ v # x /\ Good(v) =>
               proc'[Wk(v).pid] = "up" /\ Wk(v)'.status \in {"IDLE", "BUSY"} /\ Load(v)'
  BY <1>1, <1>3, <1>8 DEF Good
<1>11. rpc' = "sent" /\ ~snd'.ok => snd'.w = x
  BY <1>4
<1>12. (\A k \in Pids : proc[k] # "up" => proc'[k] # "up") /\ UNCHANGED forks
  BY <1>1
<1> HIDE DEF Calm
<1>13. Struct(x)'
  BY <1>3, <1>5, <1>9, <1>10, <1>11, <1>12, Keeps
<1> QED
  BY <1>8, <1>13

LEMMA MarkStruct ==
    ASSUME J, NEW x \in 1..(NumWorkers + 1), Struct(x), DispatchMark
    PROVE  Struct(x)'
<1>1. /\ rpc = "sent" /\ rpc' \in {"dispatch", "test"} /\ Cur = Runner
      /\ UNCHANGED <<fdtab, forked, cpc, ci, forks, proc, toQ, fromQ, work, gpc, gi, gset, gres, faults>>
  BY DEF DispatchMark, Cur, callVars, getVars, kernelVars
<1>2. /\ snd.w \in Workers
      /\ pool'[Runner].workers[snd.w] =
                [pool[Runner].workers[snd.w] EXCEPT !.status = IF snd.ok THEN "BUSY" ELSE "DEAD"]
      /\ \A v \in Workers : v # snd.w => pool'[Runner].workers[v] = pool[Runner].workers[v]
  BY MarkEffect DEF J
<1>3. pool[Runner].workers[snd.w] \in WorkerRecord
  BY <1>2, MastersAre, WorkerOf DEF J
<1>4. /\ SameView /\ SameStages
      /\ \A w \in Workers : Wk(w)'.status = pool'[Cur].workers[w].status
  <2>1. \A w \in Workers :
              /\ pool'[Cur].workers[w].pid = pool[Cur].workers[w].pid
              /\ pool'[Cur].workers[w].toR = pool[Cur].workers[w].toR
              /\ pool'[Cur].workers[w].toW = pool[Cur].workers[w].toW
              /\ pool'[Cur].workers[w].fromR = pool[Cur].workers[w].fromR
              /\ pool'[Cur].workers[w].fromW = pool[Cur].workers[w].fromW
    BY <1>1, <1>2, <1>3 DEF WorkerRecord
  <2> QED
    BY <1>1, <2>1, ViewStatus
<1>5. snd.ok \/ snd.w = x
  BY <1>1 DEF Struct
<1>6. Types /\ \A v \in Workers : Made(v) /\ v # x => Good(v) /\ Load(v) /\ Wk(v).pid \in Pids
  BY GoodPid DEF J, Struct
<1>7. ASSUME NEW v \in Workers, Made(v), v # x
      PROVE  proc'[Wk(v).pid] = "up" /\ Wk(v)'.status \in {"IDLE", "BUSY"} /\ Load(v)'
  <2>1. Good(v) /\ Load(v) /\ Wk(v)'.pid = Wk(v).pid
    BY <1>4, <1>6, <1>7 DEF SameView
  <2>2. Wk(v)'.status = Wk(v).status \/ Wk(v)'.status = "BUSY"
    BY <1>1, <1>2, <1>3, <1>4, <1>5, <1>7 DEF Wk, WorkerRecord
  <2>3. SentTo(v) => Wk(v)'.status = "BUSY"
    BY <1>1, <1>2, <1>3, <1>4 DEF SentTo, WorkerRecord
  <2>4. PICK p : p = Wk(v).pid
    OBVIOUS
  <2>5. Out(p)' = Out(p) /\ Reading(v)' = Reading(v)
    BY <1>1 DEF Out, Reading
  <2>6. Load(v)'
    BY <2>1, <2>2, <2>3, <2>4, <2>5, LoadKeeps
  <2>7. proc'[Wk(v).pid] = "up" /\ Wk(v)'.status \in {"IDLE", "BUSY"}
    BY <1>1, <2>1, <2>2 DEF Good
  <2> QED
    BY <2>6, <2>7
<1>8. faults' = 0 => Calm(x)'
  <2>1. SUFFICES ASSUME faults = 0 PROVE Calm(x)'
    BY <1>1
  <2>2. Calm(x) /\ \A v \in Workers : Made(v) => Good(v)
    BY <2>1, CalmGood
  <2> QED
    BY <1>1, <1>4, <2>2, CalmKeeps
<1>9. /\ \A v \in Workers : Made(v) /\ v # x /\ Good(v) =>
               proc'[Wk(v).pid] = "up" /\ Wk(v)'.status \in {"IDLE", "BUSY"} /\ Load(v)'
      /\ rpc' # "sent" /\ UNCHANGED forks /\ \A k \in Pids : proc[k] # "up" => proc'[k] # "up"
  BY <1>1, <1>7
<1> HIDE DEF Calm
<1> QED
  BY <1>4, <1>6, <1>8, <1>9, Keeps

\* A worker process reads a task or writes a result.
LEMMA PipesStruct ==
    ASSUME Types, NEW x \in 1..(NumWorkers + 1), Struct(x),
           UNCHANGED <<pool, fdtab, forked, cpc, ci, rpc, ri, snd, forks, proc,
                       gpc, gi, gset, gres, faults>>,
           \A j \in Pids : Out(j)' = Out(j) /\ (fromQ[j] # << >> => fromQ'[j] # << >>)
    PROVE  Struct(x)'
<1>1. SameView /\ SameStages /\ \A w \in Workers : Wk(w)' = Wk(w)
  BY ViewSame
<1>2. \A v \in Workers : Made(v) /\ v # x => Good(v) /\ Load(v) /\ Wk(v).pid \in Pids
  BY GoodPid DEF Struct
<1>3. ASSUME NEW v \in Workers, Made(v), v # x
      PROVE  proc'[Wk(v).pid] = "up" /\ Wk(v)'.status \in {"IDLE", "BUSY"} /\ Load(v)'
  <2>1. Good(v) /\ Load(v) /\ Wk(v).pid \in Pids
    BY <1>2, <1>3
  <2>2. PICK p \in Pids : p = Wk(v).pid
    BY <2>1
  <2>3. Out(p)' = Out(p) /\ Wk(v)'.pid = p /\ Wk(v)'.status = Wk(v).status
    BY <1>1, <2>2
  <2>4. Reading(v)' = Reading(v) /\ (SentTo(v) => SentTo(v)')
    BY DEF Reading, SentTo
  <2>5. Load(v)'
    BY <2>1, <2>2, <2>3, <2>4, LoadKeeps
  <2> QED
    BY <2>1, <2>3, <2>5 DEF Good
<1>4. faults' = 0 => Calm(x)'
  <2>1. SUFFICES ASSUME faults = 0 PROVE Calm(x)'
    OBVIOUS
  <2>2. Calm(x) /\ \A v \in Workers : Made(v) => Good(v)
    BY <2>1, CalmGood
  <2>3. \A w \in Workers : Made(w) /\ fromQ[Wk(w).pid] # << >> => fromQ'[Wk(w).pid] # << >>
    BY <2>2, GoodPid
  <2> QED
    BY <1>1, <2>2, <2>3, CalmKeeps
<1>5. /\ \A v \in Workers : Made(v) /\ v # x /\ Good(v) =>
               proc'[Wk(v).pid] = "up" /\ Wk(v)'.status \in {"IDLE", "BUSY"} /\ Load(v)'
      /\ rpc' = "sent" /\ ~snd'.ok => snd'.w = x
      /\ \A k \in Pids : proc[k] # "up" => proc'[k] # "up"
  BY <1>3 DEF Struct
<1> HIDE DEF Calm
<1> QED
  BY <1>1, <1>4, <1>5, Keeps

\* A process ends that belongs to no sound worker.
LEMMA ExitStruct ==
    ASSUME Types, NEW x \in 1..(NumWorkers + 1), Struct(x), NEW k \in Pids, Exit(k),
           UNCHANGED <<pool, fdtab, forked, cpc, ci, rpc, ri, snd, forks, fromQ,
                       gpc, gi, gset, gres>>,
           faults' = 0 => faults = 0,
           \A w \in Workers : Made(w) /\ w # x => Wk(w).pid # k
    PROVE  Struct(x)'
<1>1. SameView /\ SameStages /\ \A w \in Workers : Wk(w)' = Wk(w)
  BY ViewSame
<1>2. \A v \in Workers : Made(v) /\ v # x => Good(v) /\ Load(v) /\ Wk(v).pid \in Pids
  BY GoodPid DEF Struct
<1>3. proc'[k] # "up" /\ \A j \in Pids : j # k => proc'[j] = proc[j]
  BY ExitEffect
<1>4. \A j \in Pids : j # k => Out(j)' = Out(j)
  BY OutExit
<1>5. ASSUME NEW v \in Workers, Made(v), v # x
      PROVE  proc'[Wk(v).pid] = "up" /\ Wk(v)'.status \in {"IDLE", "BUSY"} /\ Load(v)'
  <2>1. Good(v) /\ Load(v) /\ Wk(v).pid \in Pids /\ Wk(v).pid # k
    BY <1>2, <1>5
  <2>2. PICK p \in Pids : p = Wk(v).pid
    BY <2>1
  <2>3. Out(p)' = Out(p) /\ Wk(v)'.pid = p /\ Wk(v)'.status = Wk(v).status
    BY <1>1, <1>4, <2>1, <2>2
  <2>4. Reading(v)' = Reading(v) /\ (SentTo(v) => SentTo(v)')
    BY DEF Reading, SentTo
  <2>5. Load(v)'
    BY <2>1, <2>2, <2>3, <2>4, LoadKeeps
  <2> QED
    BY <1>3, <2>1, <2>3, <2>5 DEF Good
<1>6. \A j \in Pids : proc[j] # "up" => proc'[j] # "up"
  BY <1>3
<1>7. faults' = 0 => Calm(x)'
  <2>1. SUFFICES ASSUME faults = 0 PROVE Calm(x)'
    OBVIOUS
  <2>2. Calm(x) /\ \A v \in Workers : Made(v) => Good(v)
    BY <2>1, CalmGood
  <2> QED
    BY <1>1, <1>6, <2>2, CalmKeeps
<1>8. /\ \A v \in Workers : Made(v) /\ v # x /\ Good(v) =>
               proc'[Wk(v).pid] = "up" /\ Wk(v)'.status \in {"IDLE", "BUSY"} /\ Load(v)'
      /\ rpc' = "sent" /\ ~snd'.ok => snd'.w = x
  BY <1>5 DEF Struct
<1> HIDE DEF Calm
<1> QED
  BY <1>1, <1>6, <1>7, <1>8, Keeps

\* The first fault: the process of a worker ends, and that worker is broken.
LEMMA CrashStruct ==
    ASSUME Types, NEW x \in 1..(NumWorkers + 1), Struct(x), faults = 0, faults' # 0,
           NEW y \in Workers, Made(y), NEW k \in Pids, k = Wk(y).pid, Exit(k),
           UNCHANGED <<pool, fdtab, forked, cpc, ci, rpc, ri, snd, forks, fromQ,
                       gpc, gi, gset, gres>>
    PROVE  Struct(y)'
<1>1. SameView /\ SameStages /\ \A w \in Workers : Wk(w)' = Wk(w)
  BY ViewSame
<1>2. /\ x \notin Workers /\ rpc # "create"
      /\ \A v \in Workers : Made(v) => v # x /\ Good(v) /\ Load(v) /\ Wk(v).pid \in Pids
  BY CalmGood, GoodPid
<1>3. proc'[k] # "up" /\ \A j \in Pids : j # k => proc'[j] = proc[j]
  BY ExitEffect
<1>4. \A j \in Pids : j # k => Out(j)' = Out(j)
  BY OutExit
<1>5. ASSUME NEW v \in Workers, Made(v), v # y
      PROVE  Good(v)' /\ Load(v)'
  <2>1. Good(v) /\ Load(v) /\ Wk(v).pid \in Pids
    BY <1>2, <1>5
  <2>2. Wk(v).pid # k
    BY <1>2, <1>5, GoodApart
  <2>3. PICK p \in Pids : p = Wk(v).pid
    BY <2>1
  <2>4. Out(p)' = Out(p) /\ Wk(v)'.pid = p /\ Wk(v)'.status = Wk(v).status
    BY <1>1, <1>4, <2>2, <2>3
  <2>5. Reading(v)' = Reading(v) /\ (SentTo(v) => SentTo(v)')
    BY DEF Reading, SentTo
  <2>6. Load(v)'
    BY <2>1, <2>3, <2>4, <2>5, LoadKeeps
  <2>7. {2 * v - 1, 2 * v} \subseteq Fds
    BY <1>5, NumbersFds DEF Struct
  <2>8. Fd(2 * v - 1)' = Fd(2 * v - 1) /\ Fd(2 * v)' = Fd(2 * v)
    BY <1>1, <2>7 DEF SameView
  <2>9. proc'[Wk(v).pid] = "up"
    BY <1>3, <2>1, <2>2 DEF Good
  <2>10. Good(v)'
    BY <1>1, <2>1, <2>8, <2>9 DEF Good
  <2> QED
    BY <2>6, <2>10
<1>6. Broken(y)'
  <2>1. Good(y) /\ 2 * y - 1 \in Fds
    BY <1>2, NumbersFds DEF Struct
  <2>2. Fd(2 * y - 1)' = Fd(2 * y - 1) /\ Fd(2 * y - 1) = <<"to", k, "w">>
    BY <1>1, <2>1 DEF SameView, Good
  <2> QED
    BY <1>3, <2>2 DEF Broken
<1>7. \A w \in Workers : Made(w)' => NumbersAt(Wk(w), w)'
  BY <1>1 DEF Struct, SameView, NumbersAt
<1>8. \A v, w \in Workers : Made(v)' /\ Made(w)' /\ y \notin {v, w} /\ Wk(v)'.pid = Wk(w)'.pid => v = w
  BY <1>1, <1>2 DEF Struct, SameView
<1>9. \A f \in Fds : Fd(f)' # Closed => \E w \in Workers : Made(w)' /\ f \in {2 * w - 1, 2 * w}
  BY <1>1 DEF Struct, SameView
<1>10. rpc' = "called" => \A w \in Workers : Made(w)' => Fd(2 * w - 1)' # Closed /\ Fd(2 * w)' # Closed
  <2>1. \A w \in Workers : Made(w) => {2 * w - 1, 2 * w} \subseteq Fds
    BY NumbersFds DEF Struct
  <2> QED
    BY <1>1, <2>1 DEF Struct, SameView, SameStages
<1>11. rpc' = "sent" /\ ~snd'.ok => snd'.w = y
  BY <1>2 DEF Struct, Types, PlaceTypes
<1>12. \A w \in Workers : /\ Made(w)' /\ w # y => Good(w)' /\ Load(w)'
                          /\ Made(w)' /\ w = y => Broken(w)'
  BY <1>1, <1>5, <1>6 DEF SameView
<1>13. Made(y)' /\ rpc' # "create"
  BY <1>1, <1>2 DEF SameView
<1> HIDE DEF Calm
<1> QED
  BY <1>7, <1>8, <1>9, <1>10, <1>11, <1>12, <1>13 DEF Struct

\* In one process without a fault the structure in use is the caller's.
LEMMA GetWorks ==
    ASSUME J, NEW x \in 1..(NumWorkers + 1), Struct(x), Safe, gpc # "none" \/ pool["client"].running,
           cpc = "ready"
    PROVE  /\ faults = 0 /\ Cur = "client" /\ Types /\ EndsInv
           /\ \A w \in Workers : /\ Made(w) /\ w # x /\ Good(w) /\ Load(w) /\ Wk(w).pid \in Pids
                                 /\ Wk(w) = pool["client"].workers[w] /\ NumbersAt(Wk(w), w)
                                 /\ 2 * w \in Fds /\ fdtab["client"][2 * w] = <<"from", Wk(w).pid, "r">>
<1>1. ~forked /\ faults = 0 /\ Types /\ EndsInv
  BY DEF J, GetInv, Safe
<1>2. Cur = "client"
  BY <1>1 DEF Cur, Runner
<1>3. rpc # "create" /\ \A w \in Workers : w # x /\ (Made(w) => Good(w) /\ Load(w))
  BY <1>1, CalmGood
<1>4. \A w \in Workers : Made(w) /\ w # x /\ Good(w) /\ Load(w) /\ Wk(w).pid \in Pids
                         /\ Wk(w) = pool["client"].workers[w] /\ NumbersAt(Wk(w), w)
  <2> SUFFICES ASSUME NEW w \in Workers
               PROVE  Made(w) /\ w # x /\ Good(w) /\ Load(w) /\ Wk(w).pid \in Pids
                      /\ Wk(w) = pool["client"].workers[w] /\ NumbersAt(Wk(w), w)
    OBVIOUS
  <2>1. Made(w) /\ Good(w) /\ Load(w) /\ w # x
    BY <1>3 DEF Made
  <2>2. Wk(w).pid \in Pids
    BY <1>1, <2>1, GoodPid
  <2>3. NumbersAt(Wk(w), w)
    BY <2>1 DEF Struct
  <2>4. Wk(w) = pool["client"].workers[w]
    BY <1>2 DEF Wk
  <2> QED
    BY <2>1, <2>2, <2>3, <2>4
<1>5. \A w \in Workers : 2 * w \in Fds /\ fdtab["client"][2 * w] = <<"from", Wk(w).pid, "r">>
  BY <1>1, <1>2, <1>4, NumbersFds DEF Good, Fd
<1> QED
  BY <1>1, <1>2, <1>4, <1>5

\* select and the scan of its report touch nothing else.
LEMMA ScanStruct ==
    ASSUME Types, NEW x \in 1..(NumWorkers + 1), Struct(x), faults = 0, GetCalm',
           UNCHANGED <<pool, fdtab, forked, cpc, ci, rpc, ri, snd, forks, proc,
                       toQ, fromQ, work, faults>>,
           gpc # "mark", gpc' # "mark"
    PROVE  Struct(x)'
<1>1. SameView /\ SameStages /\ \A w \in Workers : Wk(w)' = Wk(w)
  BY ViewSame
<1>2. Calm(x) /\ \A v \in Workers : v # x /\ (Made(v) => Good(v) /\ Load(v))
  BY CalmGood
<1>3. ASSUME NEW v \in Workers, Made(v)
      PROVE  proc'[Wk(v).pid] = "up" /\ Wk(v)'.status \in {"IDLE", "BUSY"} /\ Load(v)'
  <2>1. Good(v) /\ Load(v)
    BY <1>2, <1>3
  <2>2. PICK p : p = Wk(v).pid
    OBVIOUS
  <2>3. Out(p)' = Out(p) /\ Wk(v)'.pid = p /\ Wk(v)'.status = Wk(v).status
    BY <1>1, <2>2 DEF Out
  <2>4. Reading(v)' = Reading(v) /\ (SentTo(v) => SentTo(v)')
    BY DEF Reading, SentTo
  <2>5. Load(v)'
    BY <2>1, <2>2, <2>3, <2>4, LoadKeeps
  <2> QED
    BY <2>1, <2>3, <2>5 DEF Good
<1>4. Calm(x)'
  BY <1>1, <1>2, CalmParts
<1>5. /\ \A v \in Workers : Made(v) /\ v # x /\ Good(v) =>
               proc'[Wk(v).pid] = "up" /\ Wk(v)'.status \in {"IDLE", "BUSY"} /\ Load(v)'
      /\ rpc' = "sent" /\ ~snd'.ok => snd'.w = x
      /\ \A k \in Pids : proc[k] # "up" => proc'[k] # "up"
  BY <1>3 DEF Struct
<1> HIDE DEF Calm
<1> QED
  BY <1>1, <1>4, <1>5, Keeps

LEMMA SelectStruct ==
    ASSUME J, NEW x \in 1..(NumWorkers + 1), Struct(x), Safe, GetSelect
    PROVE  Struct(x)'
<1>1. /\ cpc = "ready" /\ gpc = "none" /\ pool["client"].running
      /\ gset' = {f \in Watched : Readable(f)} /\ gpc' = "scan"
      /\ UNCHANGED <<pool, fdtab, forked, cpc, ci, rpc, ri, snd, forks, proc, hold, toQ, fromQ, work, faults>>
  BY DEF GetSelect, getRest, callVars, runVars
<1>2. /\ faults = 0 /\ Cur = "client" /\ Types /\ EndsInv
      /\ \A w \in Workers : /\ Made(w) /\ w # x /\ Good(w) /\ Load(w) /\ Wk(w).pid \in Pids
                            /\ Wk(w) = pool["client"].workers[w] /\ NumbersAt(Wk(w), w)
                            /\ 2 * w \in Fds /\ fdtab["client"][2 * w] = <<"from", Wk(w).pid, "r">>
  BY <1>1, GetWorks
<1>3. SameView /\ \A w \in Workers : Wk(w)' = Wk(w)
  BY <1>1, ViewSame
<1>4. ASSUME NEW w \in Workers, 2 * w \in gset' PROVE fromQ[Wk(w).pid] # << >>
  <2>1. Readable(2 * w)
    BY <1>1, <1>4
  <2>2. Held(<<"from", Wk(w).pid, "w">>)
    BY <1>2, GoodEnds
  <2>3. fromQ[fdtab["client"][2 * w][2]] # << >> \/ ~Held(<<"from", fdtab["client"][2 * w][2], "w">>)
    BY <2>1 DEF Readable
  <2>4. fdtab["client"][2 * w][2] = Wk(w).pid
    BY <1>2
  <2> QED
    BY <2>2, <2>3, <2>4
<1>5. GetCalm'
  <2>1. \A w \in Workers : 2 * w \in gset' => fromQ'[Wk(w)'.pid] # << >>
    BY <1>1, <1>3, <1>4
  <2> QED
    BY <1>1, <2>1 DEF GetCalm
<1> QED
  BY <1>1, <1>2, <1>5, ScanStruct

LEMMA PickStruct ==
    ASSUME J, NEW x \in 1..(NumWorkers + 1), Struct(x), Safe, GetPick
    PROVE  Struct(x)'
<1>1. /\ gpc = "scan" /\ cpc = "ready"
      /\ UNCHANGED <<pool, fdtab, forked, cpc, ci, rpc, ri, snd, forks, proc, hold, toQ, fromQ, work, faults>>
  BY DEF GetPick, getRest, callVars, runVars, J, GetInv
<1>2. /\ faults = 0 /\ Cur = "client" /\ Types /\ EndsInv
      /\ \A w \in Workers : /\ Made(w) /\ w # x /\ Good(w) /\ Load(w) /\ Wk(w).pid \in Pids
                            /\ Wk(w) = pool["client"].workers[w] /\ NumbersAt(Wk(w), w)
                            /\ 2 * w \in Fds /\ fdtab["client"][2 * w] = <<"from", Wk(w).pid, "r">>
  BY <1>1, GetWorks
<1>3. SameView /\ \A w \in Workers : Wk(w)' = Wk(w)
  BY <1>1, ViewSame
<1>4. GetCalm
  BY <1>2 DEF Struct, Calm
<1>5. GetCalm'
  <2>1. CASE Reported = {}
    BY <1>1, <2>1 DEF GetPick, GetCalm
  <2>2. CASE Reported # {}
    <3>1. gpc' = "read" /\ gi' = Min(Reported) /\ gset' = gset
      BY <2>2 DEF GetPick
    <3>2. Reported \subseteq Nat
      BY <1>2 DEF Reported, Types, PlaceTypes
    <3>3. gi' \in Reported
      BY <2>2, <3>1, <3>2, LeastMin DEF Least
    <3>4. pool["client"].workers[gi'].fromR \in gset
      BY <3>3 DEF Reported
    <3>5. gi' \in Workers
      BY <1>2, <3>3, PoolAssumption DEF Reported, Types, PlaceTypes, Workers
    <3>6. 2 * gi' \in gset
      BY <1>2, <3>4, <3>5 DEF NumbersAt
    <3>7. \A w \in Workers : 2 * w \in gset => fromQ[Wk(w).pid] # << >>
      BY <1>1, <1>2, <1>4 DEF GetCalm
    <3>8. \A w \in Workers : 2 * w \in gset' => fromQ'[Wk(w)'.pid] # << >>
      BY <1>1, <1>3, <3>1, <3>7
    <3> QED
      BY <3>1, <3>6, <3>8 DEF GetCalm
  <2> QED
    BY <2>1, <2>2
<1> QED
  BY <1>1, <1>2, <1>5, ScanStruct DEF GetPick

\* A result leaves the pipe of a process that has nothing else outstanding.
LEMMA OutGet ==
    ASSUME Types, NEW k \in Pids, fromQ[k] # << >>, fromQ' = [fromQ EXCEPT ![k] = Tail(fromQ[k])],
           UNCHANGED <<toQ, work>>, Out(k) <= 1
    PROVE  Out(k)' = 0 /\ Out(k) = 1 /\ \A j \in Pids : j # k => Out(j)' = Out(j)
<1>1. /\ fromQ[k] \in Seq(TaskIds) /\ fromQ'[k] = Tail(fromQ[k])
      /\ \A j \in Pids : j # k => fromQ'[j] = fromQ[j]
  BY DEF Types, KernelTypes
<1>2. \A j \in Pids : j # k => Out(j)' = Out(j)
  BY <1>1 DEF Out
<1>3. Len(fromQ'[k]) = Len(fromQ[k]) - 1 /\ Len(fromQ[k]) >= 1
  <2>1. Len(Tail(fromQ[k])) = Len(fromQ[k]) - 1 /\ Tail(fromQ[k]) \in Seq(TaskIds)
    BY <1>1, TailType
  <2>2. Len(Tail(fromQ[k])) \in Nat /\ Len(fromQ[k]) \in Nat
    BY <1>1, <2>1
  <2> DEFINE a == Len(Tail(fromQ[k]))
             b == Len(fromQ[k])
  <2>3. SUFFICES a = b - 1 /\ b >= 1
    BY <1>1
  <2>4. a \in Nat /\ b \in Nat /\ a = b - 1
    BY <2>1, <2>2
  <2> HIDE DEF a, b
  <2> QED
    BY <2>4
<1>4. Out(k)' = 0 /\ Out(k) = 1
  <2> DEFINE a == Len(toQ[k])
             b == Len(fromQ[k])
             c == IF work[k] = 0 THEN 0 ELSE 1
             d == Len(fromQ'[k])
             o == Out(k)
             n == Out(k)'
  <2>1. a \in Nat /\ b \in Nat /\ c \in Nat
    BY OutType
  <2>2. d = b - 1 /\ b >= 1 /\ n = a + d + c /\ o = a + b + c /\ o <= 1
    BY <1>3 DEF Out
  <2>3. SUFFICES n = 0 /\ o = 1
    OBVIOUS
  <2> HIDE DEF a, b, c, d, o, n
  <2> QED
    BY <2>1, <2>2
<1> QED
  BY <1>2, <1>4

LEMMA ReadStruct ==
    ASSUME J, NEW x \in 1..(NumWorkers + 1), Struct(x), Safe, GetRead
    PROVE  Struct(x)' /\ \A k \in Pids : Out(k) <= 1 => Out(k)' <= 1
<1>1. /\ gpc = "read" /\ cpc = "ready"
      /\ UNCHANGED <<pool, fdtab, forked, cpc, ci, rpc, ri, snd, forks, proc, hold, toQ, work, faults, gset>>
  BY DEF GetRead, getRest, callVars, runVars, J, GetInv
<1>2. /\ faults = 0 /\ Cur = "client" /\ Types /\ EndsInv
      /\ \A w \in Workers : /\ Made(w) /\ w # x /\ Good(w) /\ Load(w) /\ Wk(w).pid \in Pids
                            /\ Wk(w) = pool["client"].workers[w] /\ NumbersAt(Wk(w), w)
                            /\ 2 * w \in Fds /\ fdtab["client"][2 * w] = <<"from", Wk(w).pid, "r">>
  BY <1>1, GetWorks
<1>3. SameView /\ SameStages /\ \A w \in Workers : Wk(w)' = Wk(w)
  BY <1>1, ViewSame
<1>4. Calm(x) /\ GetCalm /\ gi \in Workers
  BY <1>1, <1>2 DEF Struct, Calm, Types, PlaceTypes
<1>5. PICK p \in Pids : p = Wk(gi).pid
  BY <1>2, <1>4
<1>6. fromQ[p] # << >>
  BY <1>1, <1>2, <1>4, <1>5 DEF GetCalm
<1>7. Entry("client", pool["client"].workers[gi].fromR) = <<"from", p, "r">>
  <2>1. pool["client"].workers[gi].fromR = 2 * gi /\ 2 * gi # None
    BY <1>2, <1>4 DEF NumbersAt, None, Workers
  <2> QED
    BY <1>2, <1>4, <1>5, <2>1 DEF Entry
<1>8. /\ gres' = Head(fromQ[p]) /\ fromQ' = [fromQ EXCEPT ![p] = Tail(fromQ[p])]
      /\ gpc' = "mark" /\ gi' = gi
  <2> DEFINE e == Entry("client", pool["client"].workers[gi].fromR)
  <2>1. e # Closed /\ e[3] = "r" /\ e[2] = p
    BY <1>7 DEF Closed
  <2> HIDE DEF e
  <2>2. fromQ[e[2]] # << >>
    BY <1>6, <2>1
  <2>3. /\ gres' = IF fromQ[e[2]] = << >> THEN 0 ELSE Head(fromQ[e[2]])
        /\ fromQ' = IF fromQ[e[2]] = << >> THEN fromQ ELSE [fromQ EXCEPT ![e[2]] = Tail(fromQ[e[2]])]
        /\ gpc' = "mark" /\ gi' = gi
    BY <2>1 DEF GetRead, e
  <2> QED
    BY <2>1, <2>2, <2>3
<1>9. gres' # 0
  <2>1. fromQ[p] \in Seq(TaskIds)
    BY <1>2 DEF Types, KernelTypes
  <2>2. gres' \in TaskIds
    BY <1>6, <1>8, <2>1, TailType
  <2> QED
    BY <2>2 DEF TaskIds
<1>10. \A v \in Workers : Reading(v) = 0 /\ (v # gi => Reading(v)' = 0)
  BY <1>1, <1>8 DEF Reading
<1>11. Out(p) <= 1 /\ (Out(p) = 1 => Wk(gi).status = "BUSY" \/ SentTo(gi))
  <2>1. Out(p) \in Nat
    BY <1>2, OutType
  <2>2. Load(gi) /\ Reading(gi) = 0
    BY <1>2, <1>4, <1>10
  <2>3. Out(p) + 0 <= 1 /\ (Out(p) + 0 = 1 => Wk(gi).status = "BUSY" \/ SentTo(gi))
    BY <1>5, <2>2 DEF Load
  <2> QED
    BY <2>1, <2>3
<1>12. Out(p)' = 0 /\ Out(p) = 1 /\ \A j \in Pids : j # p => Out(j)' = Out(j)
  BY <1>1, <1>2, <1>6, <1>8, <1>11, OutGet
<1>13. ASSUME NEW v \in Workers
       PROVE  proc'[Wk(v).pid] = "up" /\ Wk(v)'.status \in {"IDLE", "BUSY"} /\ Load(v)'
  <2>1. Good(v) /\ Load(v) /\ Wk(v)' = Wk(v) /\ Wk(v).pid \in Pids
    BY <1>2, <1>3
  <2>2. SentTo(v) => SentTo(v)'
    BY <1>1 DEF SentTo
  <2>3. CASE v = gi
    <3>1. Reading(v)' = 1
      BY <1>8, <1>9, <2>3 DEF Reading
    <3>2. Wk(v)'.pid = p /\ (Wk(v)'.status = "BUSY" \/ SentTo(v)')
      BY <1>5, <1>11, <1>12, <2>1, <2>2, <2>3
    <3>3. Load(v)'
      BY <1>12, <3>1, <3>2, LoadIs
    <3> QED
      BY <1>1, <2>1, <3>3 DEF Good
  <2>4. CASE v # gi
    <3>1. PICK q \in Pids : q = Wk(v).pid
      BY <2>1
    <3>2. q # p
      BY <1>2, <1>4, <1>5, <2>4, <3>1, GoodApart
    <3>3. Out(q)' = Out(q) /\ Wk(v)'.pid = q /\ Wk(v)'.status = Wk(v).status
      BY <1>12, <2>1, <3>1, <3>2
    <3>4. Reading(v)' = Reading(v)
      BY <1>10, <2>4
    <3>5. Load(v)'
      BY <2>1, <2>2, <3>1, <3>3, <3>4, LoadKeeps
    <3> QED
      BY <1>1, <2>1, <3>5 DEF Good
  <2> QED
    BY <2>3, <2>4
<1>14. GetCalm'
  BY <1>8, <1>9 DEF GetCalm
<1>15. \A k \in Pids : proc[k] # "up" => proc'[k] # "up"
  BY <1>1
<1>16. Calm(x)'
  BY <1>2, <1>3, <1>4, <1>14, <1>15, CalmParts
<1>17. /\ \A v \in Workers : Made(v) /\ v # x /\ Good(v) =>
               proc'[Wk(v).pid] = "up" /\ Wk(v)'.status \in {"IDLE", "BUSY"} /\ Load(v)'
       /\ rpc' = "sent" /\ ~snd'.ok => snd'.w = x
  BY <1>1, <1>13 DEF Struct
<1> HIDE DEF Calm
<1>18. Struct(x)'
  BY <1>1, <1>2, <1>3, <1>15, <1>16, <1>17, Keeps
<1>19. \A k \in Pids : Out(k) <= 1 => Out(k)' <= 1
  BY <1>12
<1> QED
  BY <1>18, <1>19

LEMMA ResultStruct ==
    ASSUME J, NEW x \in 1..(NumWorkers + 1), Struct(x), Safe, GetMark
    PROVE  Struct(x)'
<1>1. /\ gpc = "mark" /\ cpc = "ready"
      /\ UNCHANGED <<fdtab, forked, cpc, ci, rpc, ri, snd, forks, proc, hold, toQ, fromQ, work, faults>>
  BY DEF GetMark, getRest, callVars, runVars, J, GetInv
<1>2. /\ faults = 0 /\ Cur = "client" /\ Types /\ EndsInv
      /\ \A w \in Workers : /\ Made(w) /\ w # x /\ Good(w) /\ Load(w) /\ Wk(w).pid \in Pids
                            /\ Wk(w) = pool["client"].workers[w] /\ NumbersAt(Wk(w), w)
                            /\ 2 * w \in Fds /\ fdtab["client"][2 * w] = <<"from", Wk(w).pid, "r">>
  BY <1>1, GetWorks
<1>3. Calm(x) /\ gres # 0 /\ gi \in Workers
  BY <1>1, <1>2 DEF Struct, Calm, GetCalm, Types, PlaceTypes
<1>4. OnlyWorker("client", gi, [pool["client"].workers[gi] EXCEPT !.status = "IDLE"])
  BY <1>2, <1>3, GetMarkEffect
<1>5. pool["client"].workers[gi] \in WorkerRecord
  BY <1>2, <1>3, MastersAre, WorkerOf
<1>6. /\ pool'["client"].workers[gi] = [pool["client"].workers[gi] EXCEPT !.status = "IDLE"]
      /\ \A v \in Workers : v # gi => pool'["client"].workers[v] = pool["client"].workers[v]
  BY <1>4 DEF OnlyWorker
<1>7. \A w \in Workers :
              /\ pool'[Cur].workers[w].pid = pool[Cur].workers[w].pid
              /\ pool'[Cur].workers[w].toR = pool[Cur].workers[w].toR
              /\ pool'[Cur].workers[w].toW = pool[Cur].workers[w].toW
              /\ pool'[Cur].workers[w].fromR = pool[Cur].workers[w].fromR
              /\ pool'[Cur].workers[w].fromW = pool[Cur].workers[w].fromW
  BY <1>2, <1>5, <1>6 DEF WorkerRecord
<1>8. SameView /\ SameStages /\ \A w \in Workers : Wk(w)'.status = pool'[Cur].workers[w].status
  BY <1>1, <1>7, ViewStatus
<1>9. /\ pool'[Cur].workers[gi].status = "IDLE"
      /\ \A v \in Workers : v # gi => pool'[Cur].workers[v].status = Wk(v).status
  BY <1>2, <1>5, <1>6 DEF WorkerRecord
<1>10. gpc' = "none"
  BY <1>3 DEF GetMark
<1>11. \A v \in Workers : Reading(v)' = 0 /\ (v # gi => Reading(v) = 0)
  BY <1>10 DEF Reading
<1>12. ASSUME NEW v \in Workers
       PROVE  proc'[Wk(v).pid] = "up" /\ Wk(v)'.status \in {"IDLE", "BUSY"} /\ Load(v)'
  <2>1. Good(v) /\ Load(v) /\ Wk(v)'.pid = Wk(v).pid /\ Wk(v).pid \in Pids
    BY <1>2, <1>8 DEF SameView
  <2>2. SentTo(v) => SentTo(v)'
    BY <1>1 DEF SentTo
  <2>3. PICK p \in Pids : p = Wk(v).pid
    BY <2>1
  <2>4. Out(p)' = Out(p)
    BY <1>1 DEF Out
  <2>5. CASE v = gi
    <3>1. Reading(v) = 1
      BY <1>1, <1>3, <2>5 DEF Reading
    <3>2. Out(p) + 1 <= 1 /\ Out(p) \in Nat
      BY <1>2, <2>1, <2>3, <3>1, OutType DEF Load
    <3>3. Out(p)' = 0
      BY <2>4, <3>2
    <3>4. Load(v)'
      BY <1>11, <2>1, <2>3, <3>3, LoadIs
    <3>5. Wk(v)'.status = "IDLE"
      BY <1>8, <1>9, <2>5
    <3> QED
      BY <1>1, <2>1, <3>4, <3>5 DEF Good
  <2>6. CASE v # gi
    <3>1. Wk(v)'.status = Wk(v).status
      BY <1>8, <1>9, <2>6
    <3>2. Reading(v)' = Reading(v)
      BY <1>11, <2>6
    <3>3. Load(v)'
      BY <2>1, <2>2, <2>3, <2>4, <3>1, <3>2, LoadKeeps
    <3> QED
      BY <1>1, <2>1, <3>1, <3>3 DEF Good
  <2> QED
    BY <2>5, <2>6
<1>13. GetCalm'
  BY <1>10 DEF GetCalm
<1>14. \A k \in Pids : proc[k] # "up" => proc'[k] # "up"
  BY <1>1
<1>15. Calm(x)'
  BY <1>2, <1>3, <1>8, <1>13, <1>14, CalmParts
<1>16. /\ \A v \in Workers : Made(v) /\ v # x /\ Good(v) =>
               proc'[Wk(v).pid] = "up" /\ Wk(v)'.status \in {"IDLE", "BUSY"} /\ Load(v)'
       /\ rpc' = "sent" /\ ~snd'.ok => snd'.w = x
  BY <1>1, <1>12 DEF Struct
<1> HIDE DEF Calm
<1> QED
  BY <1>1, <1>2, <1>8, <1>14, <1>15, <1>16, Keeps

LEMMA Halves ==
    ASSUME NEW f \in Nat, f # 0
    PROVE  \E v \in Nat \ {0} : f = 2 * v - 1 \/ f = 2 * v
<1> DEFINE v == (f + 1) \div 2
<1>1. v \in Nat /\ v # 0 /\ (f = 2 * v - 1 \/ f = 2 * v)
  OBVIOUS
<1> QED
  BY <1>1

\* The four lowest free numbers, when those below 2 * i - 1 but 0 are taken.
LEMMA TakeNumbers ==
    ASSUME Types, NEW m \in Masters, NEW i \in Workers, NEW a \in Fds, NEW b \in Fds,
           NEW c \in Fds, NEW d \in Fds, Took(m, i, a, b, c, d),
           \A f \in Fds : f \in 1..(2 * i - 2) => fdtab[m][f] # Closed,
           \A f \in Fds : f \in {0, 2 * i - 1, 2 * i, 2 * i + 1} => fdtab[m][f] = Closed
    PROVE  a = 0 /\ b = 2 * i - 1 /\ c = 2 * i /\ d = 2 * i + 1
<1> DEFINE free == {f \in Fds : fdtab[m][f] = Closed}
<1>1. /\ Least(a, free) /\ Least(b, free \ {a})
      /\ Least(c, free \ {a, b}) /\ Least(d, free \ {a, b, c})
  BY DEF Took
<1>2. MaxFd \in Nat /\ i \in Nat /\ i >= 1 /\ Fds = 0..MaxFd
  BY PoolAssumption DEF Workers, Fds
<1>3. \A f \in free : f \in Nat /\ f <= MaxFd /\ f \in Fds /\ f \notin 1..(2 * i - 2)
  BY <1>2
<1>4. \A f \in {0, 2 * i - 1, 2 * i, 2 * i + 1} : f <= MaxFd => f \in free
  BY <1>2
<1> HIDE DEF free
<1>5. a = 0
  BY <1>1, <1>2, <1>3, <1>4 DEF Least
<1>6. b = 2 * i - 1
  <2>1. b \in free /\ b # 0
    BY <1>1, <1>5 DEF Least
  <2>2. b \in Nat /\ b >= 2 * i - 1 /\ b <= MaxFd
    BY <1>2, <1>3, <2>1
  <2>3. 2 * i - 1 \in free /\ 2 * i - 1 # 0
    BY <1>2, <1>4, <2>2
  <2>4. b <= 2 * i - 1
    BY <1>1, <1>5, <2>3 DEF Least
  <2> QED
    BY <1>2, <2>2, <2>4
<1>7. c = 2 * i
  <2>1. c \in free /\ c # 0 /\ c # 2 * i - 1
    BY <1>1, <1>5, <1>6 DEF Least
  <2>2. c \in Nat /\ c >= 2 * i /\ c <= MaxFd
    BY <1>2, <1>3, <2>1
  <2>3. 2 * i \in free /\ 2 * i # 0 /\ 2 * i # 2 * i - 1
    BY <1>2, <1>4, <2>2
  <2>4. c <= 2 * i
    BY <1>1, <1>5, <1>6, <2>3 DEF Least
  <2> QED
    BY <1>2, <2>2, <2>4
<1>8. d = 2 * i + 1
  <2>1. d \in free /\ d # 0 /\ d # 2 * i - 1 /\ d # 2 * i
    BY <1>1, <1>5, <1>6, <1>7 DEF Least
  <2>2. d \in Nat /\ d >= 2 * i + 1 /\ d <= MaxFd
    BY <1>2, <1>3, <2>1
  <2>3. 2 * i + 1 \in free /\ 2 * i + 1 # 0 /\ 2 * i + 1 # 2 * i - 1 /\ 2 * i + 1 # 2 * i
    BY <1>2, <1>4, <2>2
  <2>4. d <= 2 * i + 1
    BY <1>1, <1>5, <1>6, <1>7, <2>3 DEF Least
  <2> QED
    BY <1>2, <2>2, <2>4
<1> QED
  BY <1>5, <1>6, <1>7, <1>8

\* A worker gets a process and its numbers.
LEMMA SpawnStruct ==
    ASSUME J, NEW x \in 1..(NumWorkers + 1), Struct(x), NEW i \in Workers, i # x,
           create_worker_process(Cur, i), ~Made(i),
           \A w \in Workers : Made(w)' <=> Made(w) \/ w = i,
           gpc = "none", gpc' = "none", UNCHANGED faults, Cur' = Cur,
           rpc # "sent", rpc' \notin {"create", "sent"}, rpc' = "called" => rpc = "called",
           \A f \in Fds : f \in 1..(2 * i - 2) => Fd(f) # Closed,
           \A f \in Fds : f \in {0, 2 * i - 1, 2 * i, 2 * i + 1} => Fd(f) = Closed
    PROVE  Struct(x)'
<1>0. PICK p : p = forks + 1
  OBVIOUS
<1>1. Types /\ EndsInv /\ Cur \in Masters
  BY UseType DEF J
<1>2. /\ p \in Pids /\ forks' = p /\ forks \in Nat /\ proc'[p] = "up"
      /\ \A k \in Pids : k # p => proc'[k] = proc[k]
      /\ UNCHANGED <<toQ, fromQ, work>>
  BY <1>0, <1>1, CreateEffect DEF Types, KernelTypes
<1>3. PICK a, b, c, d \in Fds :
                /\ Took(Cur, i, a, b, c, d)
                /\ OnlyWorker(Cur, i, SpawnRecord(a, b, c, d))
  BY <1>1, CreateEffect
<1>4. a = 0 /\ b = 2 * i - 1 /\ c = 2 * i /\ d = 2 * i + 1
  BY <1>1, <1>3, TakeNumbers DEF Fd
<1>5. /\ Wk(i)' = SpawnRecord(a, b, c, d)
      /\ \A v \in Workers : v # i => Wk(v)' = Wk(v)
  BY <1>3 DEF OnlyWorker, Wk
<1>6. Wk(i)'.pid = p /\ Wk(i)'.status = "IDLE" /\ NumbersAt(Wk(i), i)'
  BY <1>0, <1>4, <1>5 DEF SpawnRecord, NumbersAt
<1>7. /\ Fd(2 * i - 1)' = <<"to", p, "w">> /\ Fd(2 * i)' = <<"from", p, "r">>
      /\ \A f \in Fds : f \notin {2 * i - 1, 2 * i} => Fd(f)' = Fd(f)
  <2>1. fdtab' = [fdtab EXCEPT ![Cur][b] = <<"to", p, "w">>, ![Cur][c] = <<"from", p, "r">>]
    BY <1>0, <1>3 DEF Took
  <2>2. b # c
    BY <1>4 DEF Workers
  <2>3. /\ fdtab'[Cur][b] = <<"to", p, "w">> /\ fdtab'[Cur][c] = <<"from", p, "r">>
        /\ \A f \in Fds : f \notin {b, c} => fdtab'[Cur][f] = fdtab[Cur][f]
    BY <1>1, <2>1, <2>2 DEF Types, PoolTypes
  <2> QED
    BY <1>4, <2>3 DEF Fd
<1>8. \A v \in Workers : v # i => {2 * v - 1, 2 * v} \cap {2 * i - 1, 2 * i} = {}
  BY DEF Workers
<1>9. \A v \in Workers : Made(v) => v # i /\ {2 * v - 1, 2 * v} \subseteq Fds
  BY <1>1, NumbersFds DEF Struct
<1>10. \A v \in Workers : Made(v) => Fd(2 * v - 1)' = Fd(2 * v - 1) /\ Fd(2 * v)' = Fd(2 * v)
  BY <1>7, <1>8, <1>9
<1>11. \A v \in Workers : Made(v) => Wk(v)' = Wk(v)
  BY <1>5, <1>9
<1>12. Out(p)' = 0
  <2>1. p > forks
    BY <1>0, <1>2
  <2>2. toQ[p] = << >> /\ fromQ[p] = << >> /\ work[p] = 0
    BY <1>1, <1>2, <2>1 DEF EndsInv
  <2>3. toQ'[p] = << >> /\ fromQ'[p] = << >> /\ work'[p] = 0
    BY <1>2, <2>2
  <2> QED
    BY <2>3 DEF Out
<1>13. \A v : Reading(v)' = 0 /\ Reading(v) = 0 /\ ~SentTo(v)
  BY DEF Reading, SentTo
<1>14. \A v \in Workers : Made(v) /\ v # x => Good(v) /\ Load(v)
  BY DEF Struct
<1>15. \A v \in Workers : Made(v) /\ v # x => Wk(v).pid # p /\ Wk(v).pid \in Pids
  BY <1>0, <1>1, <1>2, <1>14, GoodPid DEF Good
<1>16. ASSUME NEW v \in Workers, Made(v)', v # x PROVE Good(v)' /\ Load(v)'
  <2>1. CASE v = i
    <3>1. Good(v)'
      BY <1>0, <1>2, <1>6, <1>7, <2>1 DEF Good
    <3>2. Load(v)'
      BY <1>6, <1>12, <1>13, <2>1, LoadIs
    <3> QED
      BY <3>1, <3>2
  <2>2. CASE v # i
    <3>1. Made(v) /\ Good(v) /\ Load(v) /\ Wk(v)' = Wk(v) /\ Wk(v).pid \in Pids /\ Wk(v).pid # p
      BY <1>11, <1>14, <1>15, <1>16, <2>2
    <3>2. Wk(v).pid \in 1..forks' /\ proc'[Wk(v).pid] = "up"
      BY <1>0, <1>2, <3>1 DEF Good
    <3>3. Good(v)'
      BY <1>10, <3>1, <3>2 DEF Good
    <3>4. PICK q : q = Wk(v).pid
      OBVIOUS
    <3>5. Out(q)' = Out(q)
      BY <1>2 DEF Out
    <3>6. Load(v)'
      BY <1>13, <3>1, <3>4, <3>5, LoadKeeps
    <3> QED
      BY <3>3, <3>6
  <2> QED
    BY <2>1, <2>2
<1>17. ASSUME NEW v \in Workers, Made(v)', v = x PROVE Broken(v)'
  <2>1. Made(v) /\ Broken(v) /\ Fd(2 * v - 1)' = Fd(2 * v - 1) /\ 2 * v - 1 \in Fds
    BY <1>9, <1>10, <1>17 DEF Struct
  <2>2. CASE Fd(2 * v - 1) = Closed
    BY <2>1, <2>2 DEF Broken
  <2>3. ASSUME NEW k \in Pids, Fd(2 * v - 1) = <<"to", k, "w">>, proc[k] # "up" PROVE Broken(v)'
    <3>1. fdtab[Cur][2 * v - 1] = <<"to", k, "w">> /\ fdtab[Cur][2 * v - 1] # Closed
      BY <2>3 DEF Fd, Closed
    <3>2. PICK j \in 1..forks : fdtab[Cur][2 * v - 1] \in {<<"to", j, "w">>, <<"from", j, "r">>}
      BY <1>1, <2>1, <3>1 DEF EndsInv
    <3>3. k = j
      BY <3>1, <3>2
    <3>4. k # p
      BY <1>0, <1>2, <3>3
    <3>5. proc'[k] # "up"
      BY <1>2, <2>3, <3>4
    <3> QED
      BY <2>1, <2>3, <3>5 DEF Broken
  <2> QED
    BY <2>1, <2>2, <2>3 DEF Broken
<1>18. \A v, w \in Workers : Made(v)' /\ Made(w)' /\ x \notin {v, w} /\ Wk(v)'.pid = Wk(w)'.pid => v = w
  <2> SUFFICES ASSUME NEW v \in Workers, NEW w \in Workers, Made(v)', Made(w)', v # x, w # x,
                      Wk(v)'.pid = Wk(w)'.pid, v # w
               PROVE  FALSE
    OBVIOUS
  <2>1. CASE v = i
    BY <1>6, <1>11, <1>15, <2>1
  <2>2. CASE w = i
    BY <1>6, <1>11, <1>15, <2>2
  <2>3. CASE v # i /\ w # i
    <3>1. Made(v) /\ Made(w) /\ Wk(v).pid = Wk(w).pid
      BY <1>11, <2>3
    <3> QED
      BY <3>1, GoodApart
  <2> QED
    BY <2>1, <2>2, <2>3
<1>19. \A f \in Fds : Fd(f)' # Closed => \E w \in Workers : Made(w)' /\ f \in {2 * w - 1, 2 * w}
  <2>1. Made(i)'
    OBVIOUS
  <2>2. \A f \in Fds : Fd(f) # Closed => \E w \in Workers : Made(w) /\ f \in {2 * w - 1, 2 * w}
    BY DEF Struct
  <2> QED
    BY <1>7, <2>1, <2>2
<1>20. rpc' = "called" => \A w \in Workers : Made(w)' => Fd(2 * w - 1)' # Closed /\ Fd(2 * w)' # Closed
  <2> SUFFICES ASSUME rpc = "called", NEW w \in Workers, Made(w)'
               PROVE  Fd(2 * w - 1)' # Closed /\ Fd(2 * w)' # Closed
    OBVIOUS
  <2>1. CASE w = i
    BY <1>7, <2>1 DEF Closed
  <2>2. CASE w # i
    BY <1>10, <2>2 DEF Struct
  <2> QED
    BY <2>1, <2>2
<1>21. \A w \in Workers : Made(w)' => NumbersAt(Wk(w), w)'
  <2> SUFFICES ASSUME NEW w \in Workers, Made(w)' PROVE NumbersAt(Wk(w), w)'
    OBVIOUS
  <2>1. CASE w = i
    BY <1>6, <2>1
  <2>2. CASE w # i
    BY <1>11, <2>2 DEF Struct, NumbersAt
  <2> QED
    BY <2>1, <2>2
<1>22. faults' = 0 => Calm(x)'
  <2>1. SUFFICES ASSUME faults = 0 PROVE Calm(x)'
    OBVIOUS
  <2>2. Calm(x)
    BY <2>1, CalmGood
  <2>3. \A k \in Pids : proc'[k] = "up" => \E w \in Workers : Made(w)' /\ Wk(w)'.pid = k
    <3> SUFFICES ASSUME NEW k \in Pids, proc'[k] = "up"
                 PROVE  \E w \in Workers : Made(w)' /\ Wk(w)'.pid = k
      OBVIOUS
    <3>1. CASE k = p
      BY <1>6, <3>1
    <3>2. CASE k # p
      <4>1. PICK w \in Workers : Made(w) /\ Wk(w).pid = k
        BY <1>2, <2>2, <3>2 DEF Calm
      <4> QED
        BY <1>11, <4>1
    <3> QED
      BY <3>1, <3>2
  <2>4. GetCalm'
    BY DEF GetCalm
  <2> QED
    BY <2>2, <2>3, <2>4 DEF Calm
<1>23. x \in Workers => Made(x)'
  BY DEF Struct
<1>24. rpc' # "create" /\ rpc' # "sent"
  OBVIOUS
<1> HIDE DEF Calm
<1> QED
  BY <1>16, <1>17, <1>18, <1>19, <1>20, <1>21, <1>22, <1>23, <1>24 DEF Struct

\* process_pool_create makes worker ci.
LEMMA CreateStruct ==
    ASSUME J, NEW x \in 1..(NumWorkers + 1), Struct(x), Create, cpc' # "undo"
    PROVE  Struct(x)'
<1>1. /\ cpc = "create" /\ create_worker_process("client", ci) /\ UNCHANGED faults
      /\ cpc' = (IF ci = NumWorkers THEN "ready" ELSE "create")
      /\ ci' = (IF ci = NumWorkers THEN 1 ELSE ci + 1)
      /\ UNCHANGED <<forked, rpc, ri, snd, gpc, gi, gset, gres>>
  BY DEF Create, runVars, getVars
<1>2. rpc = "called" /\ Cur = "client" /\ Cur' = Cur /\ gpc = "none" /\ gpc' = "none" /\ rpc' = "called"
  BY <1>1 DEF J, StageInv, GetInv, Cur
<1>3. ci \in Workers /\ NumWorkers \in Nat
  BY <1>1, PoolAssumption DEF J, Types, PlaceTypes
<1>4. ~Made(ci) /\ ci # x
  <2>1. ~Made(ci)
    BY <1>1, <1>3 DEF Made, Workers
  <2> QED
    BY <1>3, <2>1 DEF Struct
<1>5. \A w \in Workers : Made(w)' <=> Made(w) \/ w = ci
  BY <1>1, <1>2, <1>3 DEF Made, Workers
<1>6. \A f \in Fds : f \in 1..(2 * ci - 2) => Fd(f) # Closed
  <2> SUFFICES ASSUME NEW f \in Fds, f \in 1..(2 * ci - 2) PROVE Fd(f) # Closed
    OBVIOUS
  <2>1. f \in Nat /\ f # 0 /\ f <= 2 * ci - 2 /\ ci \in Nat /\ ci <= NumWorkers
    BY <1>3 DEF Workers
  <2>2. PICK v \in Nat \ {0} : f = 2 * v - 1 \/ f = 2 * v
    BY <2>1, Halves
  <2>3. v < ci /\ v \in Workers
    BY <1>3, <2>1, <2>2 DEF Workers
  <2>4. Made(v)
    BY <1>2, <2>3 DEF Made
  <2> QED
    BY <1>2, <2>2, <2>3, <2>4 DEF Struct
<1>7. \A f \in Fds : f \in {0, 2 * ci - 1, 2 * ci, 2 * ci + 1} => Fd(f) = Closed
  <2> SUFFICES ASSUME NEW f \in Fds, f \in {0, 2 * ci - 1, 2 * ci, 2 * ci + 1}, Fd(f) # Closed
               PROVE  FALSE
    OBVIOUS
  <2>1. PICK w \in Workers : Made(w) /\ f \in {2 * w - 1, 2 * w}
    BY DEF Struct
  <2>2. w < ci /\ w \in Nat /\ w # 0 /\ ci \in Nat
    BY <1>1, <1>3, <2>1 DEF Made, Workers
  <2> QED
    BY <2>1, <2>2
<1>8. create_worker_process(Cur, ci) /\ rpc # "sent" /\ rpc' \notin {"create", "sent"}
  BY <1>1, <1>2
<1> QED
  BY <1>1, <1>2, <1>3, <1>4, <1>5, <1>6, <1>7, <1>8, SpawnStruct

\* restart_dead_worker has a new process for the broken worker; none is broken then.
LEMMA RunCreateStruct ==
    ASSUME J, NEW x \in 1..(NumWorkers + 1), Struct(x), Safe, Safe', RunCreate
    PROVE  Struct(x)'
<1>1. /\ rpc = "create" /\ rpc' \in {"dispatch", "restart"}
      /\ UNCHANGED <<forked, cpc, ci, snd, gpc, gi, gset, gres>>
  BY DEF RunCreate, NextWorker, callVars, getVars
<1>2. x = ri + 1 /\ \A f \in Fds : f = 2 * ri + 1 => Fd(f) = Closed
  BY <1>1 DEF Struct
<1>3. faults # 0 /\ forked /\ faults <= 1
  BY <1>1, CalmGood DEF Safe
<1>4. ri \in Workers /\ NumWorkers \in Nat /\ ri \in Nat /\ ri # 0 /\ ri <= NumWorkers /\ faults \in Nat
  BY PoolAssumption DEF J, Types, PlaceTypes, Workers
<1>5. Cur = Runner /\ Cur' = Cur /\ gpc = "none" /\ gpc' = "none"
  BY <1>1, <1>3 DEF Cur, Runner, J, GetInv
<1>6. create_worker_process(Cur, ri) /\ UNCHANGED faults
  <2>1. ASSUME CreateWorkerFails(Runner, ri) PROVE FALSE
    BY <1>1, <1>3, <1>4, <2>1 DEF CreateWorkerFails, Safe
  <2> QED
    BY <1>5, <2>1 DEF RunCreate
<1>7. cpc # "create"
  BY <1>1 DEF J, StageInv
<1>8. ~Made(ri) /\ ri # x
  BY <1>1, <1>2, <1>4 DEF Made
<1>9. \A w \in Workers : Made(w)' <=> Made(w) \/ w = ri
  BY <1>1, <1>4, <1>7 DEF Made
<1>10. \A v \in Workers : v < ri => Made(v) /\ v # x
  BY <1>2, <1>4, <1>7 DEF Made, Workers
<1>11. \A f \in Fds : f \in 1..(2 * ri - 2) => Fd(f) # Closed
  <2> SUFFICES ASSUME NEW f \in Fds, f \in 1..(2 * ri - 2) PROVE Fd(f) # Closed
    OBVIOUS
  <2>1. f \in Nat /\ f # 0 /\ f <= 2 * ri - 2
    BY <1>4
  <2>2. PICK v \in Nat \ {0} : f = 2 * v - 1 \/ f = 2 * v
    BY <2>1, Halves
  <2>3. v < ri /\ v \in Workers
    BY <1>4, <2>1, <2>2 DEF Workers
  <2>4. Good(v)
    BY <1>10, <2>3 DEF Struct
  <2> QED
    BY <2>2, <2>4 DEF Good, Closed
<1>12. \A f \in Fds : f \in {0, 2 * ri - 1, 2 * ri, 2 * ri + 1} => Fd(f) = Closed
  <2> SUFFICES ASSUME NEW f \in Fds, f \in {0, 2 * ri - 1, 2 * ri}, Fd(f) # Closed
               PROVE  FALSE
    BY <1>2
  <2>1. PICK w \in Workers : Made(w) /\ f \in {2 * w - 1, 2 * w}
    BY DEF Struct
  <2>2. w # ri /\ w \in Nat /\ w # 0
    BY <1>1, <2>1 DEF Made, Workers
  <2> QED
    BY <1>4, <2>1, <2>2
<1>13. rpc # "sent" /\ rpc' \notin {"create", "sent"} /\ rpc' # "called"
  BY <1>1
<1> QED
  BY <1>4, <1>5, <1>6, <1>8, <1>9, <1>11, <1>12, <1>13, SpawnStruct

\* restart_dead_worker closes what it remembers of the broken worker, the task
\* pipe of the next one with it: that one is broken then.
LEMMA CloseStruct ==
    ASSUME J, NEW x \in 1..(NumWorkers + 1), Struct(x), RunClose
    PROVE  \E y \in 1..(NumWorkers + 1) : Struct(y)'
<1>1. /\ rpc = "restart" /\ rpc' = "create" /\ Types
      /\ UNCHANGED <<forked, cpc, ci, ri, snd, forks, proc, toQ, fromQ, work, gpc, gi, gset, gres, faults>>
  BY DEF RunClose, kernelVars, callVars, getVars, J
<1>2. Cur = Runner /\ Cur' = Cur /\ Cur \in Masters /\ cpc # "create"
  BY <1>1, MastersAre DEF Cur, Runner, J, StageInv
<1>3. ri \in Workers /\ NumWorkers \in Nat /\ ri \in Nat /\ ri # 0 /\ ri <= NumWorkers
  BY PoolAssumption DEF J, Types, PlaceTypes, Workers
<1>4. \A w \in Workers : Made(w) /\ (Made(w)' <=> w # ri)
  BY <1>1, <1>2 DEF Made
<1>5. ri = x
  <2>1. Wk(ri).status = "DEAD"
    BY <1>2 DEF RunClose, Wk
  <2>2. ~Good(ri)
    BY <2>1 DEF Good
  <2> QED
    BY <1>3, <1>4, <2>2 DEF Struct
<1>6. faults # 0
  BY <1>3, <1>5, CalmGood
<1>7. \A w \in Workers : w # x => Wk(w)' = Wk(w)
  BY <1>1, <1>2, <1>5, CloseEffect DEF OnlyWorker, Wk
<1>8. \A f \in Fds : Fd(f)' = IF f \in {0, 2 * x - 1, 2 * x, 2 * x + 1} THEN Closed ELSE Fd(f)
  <2>1. NumbersAt(Wk(x), x)
    BY <1>3, <1>4, <1>5 DEF Struct
  <2>2. Remembered(Runner, ri) = {0, 2 * x - 1, 2 * x, 2 * x + 1}
    BY <1>2, <1>3, <1>5, <2>1 DEF Remembered, NumbersAt, Wk, None
  <2>3. \A f \in Fds : fdtab'[Cur][f] = ClosedPairs(Runner, ri)[f]
    BY <1>1, <1>2, CloseEffect DEF Types, PoolTypes
  <2> QED
    BY <1>2, <2>2, <2>3 DEF ClosedPairs, Fd
<1>9. x \in Nat /\ x # 0 /\ x + 1 \in 1..(NumWorkers + 1)
  BY <1>3, <1>5
<1>10. PICK y \in 1..(NumWorkers + 1) : y = x + 1
  BY <1>9
<1>11. \A w \in Workers : Made(w) /\ w # x => Good(w) /\ Load(w) /\ {2 * w - 1, 2 * w} \subseteq Fds
  BY <1>1, NumbersFds DEF Struct
<1>12. ASSUME NEW w \in Workers, w # x, w # y PROVE Good(w)' /\ Load(w)'
  <2>1. Good(w) /\ Load(w) /\ {2 * w - 1, 2 * w} \subseteq Fds /\ Wk(w)' = Wk(w)
    BY <1>4, <1>7, <1>11, <1>12
  <2>2. {2 * w - 1, 2 * w} \cap {0, 2 * x - 1, 2 * x, 2 * x + 1} = {}
    BY <1>9, <1>10, <1>12 DEF Workers
  <2>3. Fd(2 * w - 1)' = Fd(2 * w - 1) /\ Fd(2 * w)' = Fd(2 * w)
    BY <1>8, <2>1, <2>2
  <2>4. Good(w)'
    BY <1>1, <2>1, <2>3 DEF Good
  <2>5. PICK p : p = Wk(w).pid
    OBVIOUS
  <2>6. Out(p)' = Out(p)
    BY <1>1 DEF Out
  <2>7. Reading(w)' = Reading(w) /\ ~SentTo(w)
    BY <1>1 DEF Reading, SentTo
  <2>8. Load(w)'
    BY <2>1, <2>5, <2>6, <2>7, LoadKeeps
  <2> QED
    BY <2>4, <2>8
<1>13. ASSUME NEW w \in Workers, w = y PROVE Broken(w)'
  <2>1. 2 * w - 1 = 2 * x + 1
    BY <1>9, <1>10, <1>13
  <2>2. 2 * w - 1 \in Fds
    BY <1>4, <1>9, <1>10, <1>11, <1>13
  <2>3. Fd(2 * w - 1)' = Closed
    BY <1>8, <2>1, <2>2
  <2> QED
    BY <2>3 DEF Broken
<1>14. \A v, w \in Workers : v # x /\ w # x /\ Wk(v)'.pid = Wk(w)'.pid => v = w
  BY <1>4, <1>7, GoodApart
<1>15. \A f \in Fds : Fd(f)' # Closed => \E w \in Workers : w # x /\ f \in {2 * w - 1, 2 * w}
  <2> SUFFICES ASSUME NEW f \in Fds, Fd(f)' # Closed
               PROVE  \E w \in Workers : w # x /\ f \in {2 * w - 1, 2 * w}
    OBVIOUS
  <2>1. Fd(f) # Closed /\ f \notin {2 * x - 1, 2 * x}
    BY <1>8
  <2>2. PICK w \in Workers : f \in {2 * w - 1, 2 * w}
    BY <2>1 DEF Struct
  <2> QED
    BY <2>1, <2>2
<1>16. \A w \in Workers : w # x => NumbersAt(Wk(w), w)'
  BY <1>4, <1>7 DEF Struct, NumbersAt
<1>17. \A f \in Fds : f = 2 * ri' + 1 => Fd(f)' = Closed
  BY <1>1, <1>5, <1>8
<1>18. y \in Workers => y # x
  BY <1>9, <1>10
<1>19. y = ri' + 1
  BY <1>1, <1>5, <1>10
<1>20. Struct(y)'
  BY <1>1, <1>4, <1>5, <1>6, <1>12, <1>13, <1>14, <1>15, <1>16, <1>17, <1>18, <1>19 DEF Struct
<1> QED
  BY <1>20

\* What is over does not come back, and faults come one at a time.
Onward ==
    /\ UNCHANGED forked
    /\ faults' \in {faults, faults + 1}
    /\ InUse' => InUse
    /\ cpc' \in {"create", "ready"} => cpc \in {"create", "ready"}

LEMMA UseStep == StageInv /\ [Next]_vars => Onward
<1> SUFFICES ASSUME StageInv, [Next]_vars PROVE Onward
  OBVIOUS
<1> USE DEF InUse, StageInv, Onward
<1>0. CASE UNCHANGED vars
  BY <1>0 DEF vars, kernelVars, callVars, runVars, getVars, getRest
<1>1. CASE Create
  BY <1>1 DEF Create, CreateWorkerFails, kernelVars, callVars, runVars, getVars, getRest
<1>2. CASE process_pool_submit_task
  BY <1>2 DEF process_pool_submit_task, kernelVars, callVars, runVars, getVars, getRest, workerRest
<1>3. CASE RunBegin
  BY <1>3 DEF RunBegin, kernelVars, callVars, runVars, getVars, getRest, workerRest
<1>4. CASE RunTest
  BY <1>4 DEF RunTest, kernelVars, callVars, runVars, getVars, getRest, workerRest
<1>5. CASE RunReap
  BY <1>5 DEF RunReap, reap_dead_children, kernelVars, callVars, runVars, getVars, getRest, workerRest
<1>6. CASE RunSkip
  BY <1>6 DEF RunSkip, NextWorker, kernelVars, callVars, runVars, getVars, getRest, workerRest
<1>7. CASE RunClose
  BY <1>7 DEF RunClose, kernelVars, callVars, runVars, getVars, getRest, workerRest
<1>8. CASE RunCreate
  BY <1>8 DEF RunCreate, NextWorker, CreateWorkerFails, kernelVars, callVars, runVars, getVars, getRest
<1>9. CASE DispatchSend
  BY <1>9 DEF DispatchSend, kernelVars, callVars, runVars, getVars, getRest, workerRest
<1>10. CASE DispatchMark
  BY <1>10 DEF DispatchMark, kernelVars, callVars, runVars, getVars, getRest, workerRest
<1>11. CASE DispatchDone
  BY <1>11 DEF DispatchDone, kernelVars, callVars, runVars, getVars, getRest, workerRest
<1>12. CASE RunEnd
  BY <1>12 DEF RunEnd, kernelVars, callVars, runVars, getVars, getRest, workerRest
<1>13. CASE GetSelect
  BY <1>13 DEF GetSelect, kernelVars, callVars, runVars, getVars, getRest, workerRest
<1>14. CASE GetPick
  BY <1>14 DEF GetPick, kernelVars, callVars, runVars, getVars, getRest, workerRest
<1>15. CASE GetRead
  BY <1>15 DEF GetRead, kernelVars, callVars, runVars, getVars, getRest, workerRest
<1>16. CASE GetMark
  BY <1>16 DEF GetMark, kernelVars, callVars, runVars, getVars, getRest, workerRest
<1>17. CASE process_pool_stop
  BY <1>17 DEF process_pool_stop, kernelVars, callVars, runVars, getVars, getRest, workerRest
<1>18. CASE DestroyBegin
  BY <1>18 DEF DestroyBegin, kernelVars, callVars, runVars, getVars, getRest, workerRest
<1>19. CASE TerminateWorker
  BY <1>19 DEF TerminateWorker, kernelVars, callVars, runVars, getVars, getRest, workerRest
<1>20. CASE FreePool
  BY <1>20 DEF FreePool, reap_dead_children, kernelVars, callVars, runVars, getVars, getRest, workerRest
<1>21. ASSUME NEW k \in Pids, WorkerRead(k) PROVE Onward
  BY <1>21 DEF WorkerRead, workerRest, kernelVars, callVars, runVars, getVars, getRest, workerRest
<1>22. ASSUME NEW k \in Pids, WorkerEof(k) PROVE Onward
  BY <1>22 DEF WorkerEof, workerRest, kernelVars, callVars, runVars, getVars, getRest, workerRest
<1>23. ASSUME NEW k \in Pids, WorkerReply(k) PROVE Onward
  BY <1>23 DEF WorkerReply, workerRest, kernelVars, callVars, runVars, getVars, getRest, workerRest
<1>24. ASSUME NEW k \in Pids, WorkerCrash(k) PROVE Onward
  BY <1>24 DEF WorkerCrash, workerRest, kernelVars, callVars, runVars, getVars, getRest, workerRest
<1> QED
  BY <1>0, <1>1, <1>2, <1>3, <1>4, <1>5, <1>6, <1>7, <1>8, <1>9, <1>10, <1>11, <1>12,
     <1>13, <1>14, <1>15, <1>16, <1>17, <1>18, <1>19, <1>20, <1>21, <1>22, <1>23, <1>24
     DEF Next, RunStep, WorkerStep, GetStep, DestroyStep

LEMMA SafeStep ==
    ASSUME Types, UNCHANGED forked, faults' \in {faults, faults + 1}, Safe'
    PROVE  Safe /\ (faults' # faults => faults = 0 /\ faults' = 1)
<1>1. faults \in Nat
  BY DEF Types, PlaceTypes
<1> QED
  BY <1>1 DEF Safe

\* Steps that leave the worker structures alone.
LEMMA PoolStruct ==
    ASSUME Types, NEW x \in 1..(NumWorkers + 1), Struct(x),
           \A m \in Masters : pool'[m].workers = pool[m].workers,
           UNCHANGED <<fdtab, forked, cpc, ci, forks, toQ, fromQ, work, gpc, gi, gset, gres, faults>>,
           rpc' = "called" <=> rpc = "called",
           (rpc' # "create" /\ rpc # "create") \/ (rpc' = rpc /\ ri' = ri),
           \A k \in Pids : proc'[k] = "up" <=> proc[k] = "up",
           rpc' = "sent" <=> rpc = "sent", rpc = "sent" => snd' = snd
    PROVE  Struct(x)'
<1>1. \A w : pool'[Cur].workers[w] = pool[Cur].workers[w]
  BY UseType
<1>2. SameView /\ SameStages /\ \A w \in Workers : Wk(w)'.status = pool'[Cur].workers[w].status
  BY <1>1, ViewStatus
<1>3. \A w \in Workers : Wk(w)'.status = Wk(w).status
  BY <1>1, <1>2 DEF Wk
<1> QED
  BY <1>2, <1>3, QuietStruct

\* Nobody's worker: its pipes have no other end.
LEMMA EndStruct ==
    ASSUME J, NEW x \in 1..(NumWorkers + 1), Struct(x), NEW k \in Pids, Exit(k),
           ~Held(<<"to", k, "w">>) \/ ~Held(<<"from", k, "r">>),
           UNCHANGED <<pool, fdtab, forked, cpc, ci, rpc, ri, snd, forks, fromQ,
                       gpc, gi, gset, gres, faults>>
    PROVE  Struct(x)'
<1>1. \A w \in Workers : Made(w) /\ w # x => Wk(w).pid # k
  <2> SUFFICES ASSUME NEW w \in Workers, Made(w), w # x, Wk(w).pid = k PROVE FALSE
    OBVIOUS
  <2>1. Good(w) /\ NumbersAt(Wk(w), w)
    BY DEF Struct
  <2> QED
    BY <2>1, GoodEnds DEF J
<1> QED
  BY <1>1, ExitStruct DEF J

LEMMA StructStep == J /\ StructInv /\ [Next]_vars => StructInv'
<1> SUFFICES ASSUME J, StructInv, [Next]_vars, Safe', InUse'
             PROVE  \E y \in 1..(NumWorkers + 1) : Struct(y)'
  BY DEF StructInv
<1> DEFINE Goal == \E y \in 1..(NumWorkers + 1) : Struct(y)'
<1>f. UNCHANGED forked /\ faults' \in {faults, faults + 1} /\ (InUse' => InUse)
  BY UseStep DEF J, Onward
<1>t. Types /\ J /\ Safe /\ InUse /\ Safe' /\ InUse'
  BY <1>f, SafeStep DEF J
<1>s. PICK x \in 1..(NumWorkers + 1) : Struct(x)
  BY <1>t DEF StructInv
<1>0. CASE UNCHANGED vars
  <2>1. Struct(x)'
    BY <1>0, <1>t, <1>s, PoolStruct DEF vars, kernelVars, callVars, runVars, getVars
  <2> QED
    BY <2>1
<1>1. CASE Create
  <2>1. cpc' # "undo"
    BY <1>1, <1>t DEF Create, InUse, J, StageInv, runVars
  <2>2. Struct(x)'
    BY <1>1, <1>t, <1>s, <2>1, CreateStruct
  <2> QED
    BY <2>2
<1>2. CASE process_pool_submit_task
  <2>1. \A m \in Masters : pool'[m].workers = pool[m].workers
    BY <1>2, <1>t DEF process_pool_submit_task, Types, PoolTypes, PoolRecord
  <2>2. Struct(x)'
    BY <1>2, <1>t, <1>s, <2>1, PoolStruct DEF process_pool_submit_task, kernelVars, callVars, runVars, getVars
  <2> QED
    BY <2>2
<1>3. CASE RunBegin
  <2>1. SameView /\ SameStages /\ \A w \in Workers : Wk(w)'.status = Wk(w).status
    BY <1>3, <1>t, BeginView
  <2>2. Struct(x)'
    BY <1>3, <1>t, <1>s, <2>1, QuietStruct DEF RunBegin, kernelVars, callVars, getVars
  <2> QED
    BY <2>2
<1>4. CASE RunTest
  <2>1. Struct(x)'
    BY <1>4, <1>t, <1>s, PoolStruct DEF RunTest, kernelVars, callVars, getVars
  <2> QED
    BY <2>1
<1>5. CASE RunReap
  <2>1. /\ rpc = "reap" /\ rpc' = "restart" /\ Cur = Runner /\ reap_dead_children(Runner)
        /\ UNCHANGED <<forked, fdtab, cpc, ci, snd, forks, toQ, fromQ, work, gpc, gi, gset, gres, faults>>
    BY <1>5 DEF RunReap, Cur, callVars, getVars
  <2>2. pool'[Cur].workers = MarkReaped(pool[Cur].workers, Zombies(Cur))
    BY <1>t, <2>1, MastersAre, ReapEffect
  <2>3. SameView /\ SameStages /\ \A w \in Workers : Good(w) => Wk(w)'.status = Wk(w).status
    BY <1>t, <2>1, <2>2, MarkedView
  <2>4. \A k \in Pids : proc'[k] = "up" <=> proc[k] = "up"
    BY <2>1 DEF reap_dead_children, Zombies
  <2>5. Struct(x)'
    BY <1>t, <1>s, <2>1, <2>3, <2>4, QuietStruct
  <2> QED
    BY <2>5
<1>6. CASE RunSkip
  <2>1. Struct(x)'
    BY <1>6, <1>t, <1>s, PoolStruct DEF RunSkip, NextWorker, kernelVars, callVars, getVars
  <2> QED
    BY <2>1
<1>7. CASE RunClose
  BY <1>7, <1>t, <1>s, CloseStruct
<1>8. CASE RunCreate
  <2>1. Struct(x)'
    BY <1>8, <1>t, <1>s, RunCreateStruct
  <2> QED
    BY <2>1
<1>9. CASE DispatchSend
  <2>1. Struct(x)'
    BY <1>9, <1>t, <1>s, SendStruct
  <2> QED
    BY <2>1
<1>10. CASE DispatchMark
  <2>1. Struct(x)'
    BY <1>10, <1>t, <1>s, MarkStruct
  <2> QED
    BY <2>1
<1>11. CASE DispatchDone
  <2>1. /\ rpc = "dispatch" /\ rpc' = "test" /\ Cur = Runner
        /\ UNCHANGED <<forked, fdtab, cpc, ci, snd, forks, proc, toQ, fromQ, work, gpc, gi, gset, gres, faults>>
    BY <1>11 DEF DispatchDone, Cur, kernelVars, callVars, getVars
  <2>2. CASE pool'[Runner].workers = pool[Runner].workers
    <3>1. \A m \in Masters : pool'[m].workers = pool[m].workers
      BY <1>11, <1>t, <2>2, DoneEffect
    <3>2. Struct(x)'
      BY <1>t, <1>s, <2>1, <3>1, PoolStruct
    <3> QED
      BY <3>2
  <2>3. CASE pool'[Runner].workers = MarkGone(Runner, pool[Runner].workers)
    <3>1. SameView /\ SameStages /\ \A w \in Workers : Good(w) => Wk(w)'.status = Wk(w).status
      BY <1>t, <2>1, <2>3, MarkedView
    <3>2. Struct(x)'
      BY <1>t, <1>s, <2>1, <3>1, QuietStruct
    <3> QED
      BY <3>2
  <2> QED
    BY <1>11, <1>t, <2>2, <2>3, DoneEffect
<1>12. CASE RunEnd
  <2>1. /\ rpc = "test" /\ rpc' = "ended" /\ ~forked
        /\ UNCHANGED <<forked, fdtab, cpc, ci, snd, forks, toQ, fromQ, work, gpc, gi, gset, gres, faults>>
    BY <1>12, <1>t DEF RunEnd, InUse, callVars, getVars
  <2>2. \A k \in Pids : proc'[k] = "up" <=> proc[k] = "up"
    BY <1>12 DEF RunEnd, Zombies
  <2>3. \A m \in Masters : pool'[m].workers = pool[m].workers
    BY <1>12, <1>t, MastersAre DEF RunEnd, Types, PoolTypes, PoolRecord
  <2>4. Struct(x)'
    BY <1>t, <1>s, <2>1, <2>2, <2>3, PoolStruct
  <2> QED
    BY <2>4
<1>13. CASE GetSelect
  <2>1. Struct(x)'
    BY <1>13, <1>t, <1>s, SelectStruct
  <2> QED
    BY <2>1
<1>14. CASE GetPick
  <2>1. Struct(x)'
    BY <1>14, <1>t, <1>s, PickStruct
  <2> QED
    BY <2>1
<1>15. CASE GetRead
  <2>1. Struct(x)'
    BY <1>15, <1>t, <1>s, ReadStruct
  <2> QED
    BY <2>1
<1>16. CASE GetMark
  <2>1. Struct(x)'
    BY <1>16, <1>t, <1>s, ResultStruct
  <2> QED
    BY <2>1
<1>17. CASE process_pool_stop
  <2>1. \A m \in Masters : pool'[m].workers = pool[m].workers
    BY <1>17, <1>t DEF process_pool_stop, Types, PoolTypes, PoolRecord
  <2>2. Struct(x)'
    BY <1>17, <1>t, <1>s, <2>1, PoolStruct DEF process_pool_stop, kernelVars, callVars, runVars, getVars
  <2> QED
    BY <2>2
<1>18. CASE DestroyBegin
  BY <1>18, <1>t DEF DestroyBegin, InUse, runVars
<1>19. CASE TerminateWorker
  BY <1>19, <1>t DEF TerminateWorker, InUse, J, StageInv, runVars
<1>20. CASE FreePool
  BY <1>20, <1>t DEF FreePool, InUse, J, StageInv, runVars
<1>21. ASSUME NEW k \in Pids, WorkerRead(k) PROVE Goal
  <2>1. \A j \in Pids : Out(j)' = Out(j)
    BY <1>21, <1>t, OutRead
  <2>2. Struct(x)'
    BY <1>21, <1>t, <1>s, <2>1, PipesStruct DEF WorkerRead, workerRest, callVars, runVars, getVars
  <2> QED
    BY <2>2
<1>22. ASSUME NEW k \in Pids, WorkerEof(k) PROVE Goal
  <2>1. Struct(x)'
    BY <1>22, <1>t, <1>s, EndStruct DEF WorkerEof, workerRest, callVars, runVars, getVars
  <2> QED
    BY <2>1
<1>23. ASSUME NEW k \in Pids, WorkerReply(k) PROVE Goal
  <2>1. CASE Held(<<"from", k, "r">>)
    <3>1. /\ \A j \in Pids : Out(j)' = Out(j)
          /\ \A j \in Pids : fromQ[j] # << >> => fromQ'[j] # << >>
      BY <1>23, <1>t, <2>1, OutReply
    <3>2. Struct(x)'
      BY <1>23, <1>t, <1>s, <2>1, <3>1, PipesStruct DEF WorkerReply, workerRest, callVars, runVars, getVars
    <3> QED
      BY <3>2
  <2>2. CASE ~Held(<<"from", k, "r">>)
    <3>1. Struct(x)'
      BY <1>23, <1>t, <1>s, <2>2, EndStruct DEF WorkerReply, workerRest, callVars, runVars, getVars
    <3> QED
      BY <3>1
  <2> QED
    BY <2>1, <2>2
<1>24. ASSUME NEW k \in Pids, WorkerCrash(k) PROVE Goal
  <2>1. /\ Exit(k) /\ UNCHANGED <<pool, fdtab, forked, cpc, ci, rpc, ri, snd, forks, fromQ,
                                   gpc, gi, gset, gres>>
        /\ faults' = faults + 1
    BY <1>24 DEF WorkerCrash, workerRest, callVars, runVars, getVars
  <2>2. faults = 0 /\ faults' # 0
    <3>1. faults' # faults
      BY <1>t, <2>1 DEF Types, PlaceTypes
    <3> QED
      BY <1>t, <1>f, <3>1, SafeStep
  <2>3. ASSUME NEW y \in Workers, Made(y), y # x, Wk(y).pid = k PROVE Goal
    <3>1. Struct(y)'
      BY <1>t, <1>s, <2>1, <2>2, <2>3, CrashStruct
    <3>2. y \in 1..(NumWorkers + 1)
      BY PoolAssumption DEF Workers
    <3> QED
      BY <3>1, <3>2
  <2>4. CASE \A w \in Workers : Made(w) /\ w # x => Wk(w).pid # k
    <3>1. Struct(x)'
      BY <1>t, <1>s, <2>1, <2>2, <2>4, ExitStruct
    <3> QED
      BY <3>1
  <2> QED
    BY <2>3, <2>4
<1> QED
  BY <1>0, <1>1, <1>2, <1>3, <1>4, <1>5, <1>6, <1>7, <1>8, <1>9, <1>10, <1>11, <1>12,
     <1>13, <1>14, <1>15, <1>16, <1>17, <1>18, <1>19, <1>20, <1>21, <1>22, <1>23, <1>24
     DEF Next, RunStep, WorkerStep, GetStep, DestroyStep

LEMMA StructInit == Init => StructInv /\ CountInv
<1> SUFFICES ASSUME Init PROVE StructInv /\ CountInv
  OBVIOUS
<1>1. /\ cpc = "create" /\ ci = 1 /\ rpc = "called" /\ gpc = "none" /\ faults = 0 /\ Cur = "client"
      /\ \A f \in Fds : Fd(f) = Closed
      /\ \A k \in Pids : proc[k] = "none" /\ toQ[k] = << >> /\ fromQ[k] = << >> /\ work[k] = 0
  BY DEF Init, Cur, Fd, Masters
<1>2. \A w : ~Made(w)
  BY <1>1 DEF Made, Workers
<1>3. NumWorkers \in Nat
  BY PoolAssumption
<1>4. PICK x \in 1..(NumWorkers + 1) : x = NumWorkers + 1
  BY <1>3
<1>5. x \notin Workers
  BY <1>3, <1>4 DEF Workers
<1>6. Calm(x)
  BY <1>1, <1>4 DEF Calm, GetCalm
<1>7. Struct(x)
  BY <1>1, <1>2, <1>5, <1>6 DEF Struct
<1>8. ASSUME NEW k \in Pids PROVE Out(k) <= 1
  <2>1. Len(toQ[k]) = 0 /\ Len(fromQ[k]) = 0 /\ work[k] = 0
    BY <1>1
  <2>2. Out(k) = 0 + 0 + 0
    BY <2>1 DEF Out
  <2> QED
    BY <2>2
<1> QED
  BY <1>7, <1>8 DEF StructInv, CountInv

\* While process_pool_get_result runs, and while no task may be lost, the
\* structure is in use.
LEMMA ReadyUse ==
    ASSUME StageInv, ~forked, cpc \in {"create", "ready"}
    PROVE  InUse
  BY DEF StageInv, InUse

LEMMA FewerOut ==
    ASSUME Types, Types', NEW p \in Pids, NEW j \in Pids, Out(p)' <= Out(p),
           \A i \in Pids : i # p => Out(i)' = Out(i), Out(j) <= 1
    PROVE  Out(j)' <= 1
<1>1. CASE j = p
  <2> DEFINE a == Out(p)
             b == Out(p)'
  <2>1. a \in Nat
    BY OutType
  <2>2. b \in Nat
    <3>1. toQ'[p] \in Seq(TaskIds) /\ fromQ'[p] \in Seq(TaskIds)
      BY DEF Types, KernelTypes
    <3>2. Len(toQ'[p]) \in Nat /\ Len(fromQ'[p]) \in Nat /\ (IF work'[p] = 0 THEN 0 ELSE 1) \in Nat
      BY <3>1
    <3>3. b = Len(toQ'[p]) + Len(fromQ'[p]) + (IF work'[p] = 0 THEN 0 ELSE 1)
      BY DEF Out
    <3> HIDE DEF b
    <3> QED
      BY <3>2, <3>3, SumType
  <2>3. b <= a /\ a <= 1
    BY <1>1
  <2> HIDE DEF a, b
  <2>4. b <= 1
    BY <2>1, <2>2, <2>3
  <2> QED
    BY <1>1, <2>4 DEF b
<1> QED
  BY <1>1

LEMMA CountStep == J /\ StructInv /\ CountInv /\ [Next]_vars => CountInv'
<1> SUFFICES ASSUME J, StructInv, CountInv, [Next]_vars, Safe', NEW j \in Pids
             PROVE  Out(j)' <= 1
  BY DEF CountInv
<1>t. Types /\ J /\ Safe /\ StructInv /\ Types' /\ StageInv
  BY UseStep, SafeStep, TypesStep DEF J, Onward
<1>j. Out(j) <= 1
  BY <1>t DEF CountInv
<1>0. CASE UNCHANGED vars
  <2>1. UNCHANGED <<toQ, fromQ, work>>
    BY <1>0 DEF vars, kernelVars
  <2> QED
    BY <1>j, <2>1, OutSame
<1>1. CASE Create
  <2>1. UNCHANGED <<toQ, fromQ, work>>
    BY <1>1 DEF Create, create_worker_process, SpawnKeeping, CreateWorkerFails, kernelVars, callVars, runVars, getVars, getRest, workerRest
  <2> QED
    BY <1>j, <2>1, OutSame
<1>2. CASE process_pool_submit_task
  <2>1. UNCHANGED <<toQ, fromQ, work>>
    BY <1>2 DEF process_pool_submit_task, kernelVars, callVars, runVars, getVars, getRest, workerRest
  <2> QED
    BY <1>j, <2>1, OutSame
<1>3. CASE RunBegin
  <2>1. UNCHANGED <<toQ, fromQ, work>>
    BY <1>3 DEF RunBegin, kernelVars, callVars, runVars, getVars, getRest, workerRest
  <2> QED
    BY <1>j, <2>1, OutSame
<1>4. CASE RunTest
  <2>1. UNCHANGED <<toQ, fromQ, work>>
    BY <1>4 DEF RunTest, kernelVars, callVars, runVars, getVars, getRest, workerRest
  <2> QED
    BY <1>j, <2>1, OutSame
<1>5. CASE RunReap
  <2>1. UNCHANGED <<toQ, fromQ, work>>
    BY <1>5 DEF RunReap, reap_dead_children, kernelVars, callVars, runVars, getVars, getRest, workerRest
  <2> QED
    BY <1>j, <2>1, OutSame
<1>6. CASE RunSkip
  <2>1. UNCHANGED <<toQ, fromQ, work>>
    BY <1>6 DEF RunSkip, NextWorker, kernelVars, callVars, runVars, getVars, getRest, workerRest
  <2> QED
    BY <1>j, <2>1, OutSame
<1>7. CASE RunClose
  <2>1. UNCHANGED <<toQ, fromQ, work>>
    BY <1>7 DEF RunClose, kernelVars, callVars, runVars, getVars, getRest, workerRest
  <2> QED
    BY <1>j, <2>1, OutSame
<1>8. CASE RunCreate
  <2>1. UNCHANGED <<toQ, fromQ, work>>
    BY <1>8 DEF RunCreate, NextWorker, create_worker_process, SpawnKeeping, CreateWorkerFails, kernelVars, callVars, runVars, getVars, getRest, workerRest
  <2> QED
    BY <1>j, <2>1, OutSame
<1>9. CASE DispatchSend
  <2>1. InUse
    BY <1>9 DEF DispatchSend, InUse
  <2>2. PICK x \in 1..(NumWorkers + 1) : Struct(x)
    BY <1>t, <2>1 DEF StructInv
  <2> QED
    BY <1>9, <1>t, <1>j, <2>2, SendStruct
<1>10. CASE DispatchMark
  <2>1. UNCHANGED <<toQ, fromQ, work>>
    BY <1>10 DEF DispatchMark, kernelVars, callVars, runVars, getVars, getRest, workerRest
  <2> QED
    BY <1>j, <2>1, OutSame
<1>11. CASE DispatchDone
  <2>1. UNCHANGED <<toQ, fromQ, work>>
    BY <1>11 DEF DispatchDone, kernelVars, callVars, runVars, getVars, getRest, workerRest
  <2> QED
    BY <1>j, <2>1, OutSame
<1>12. CASE RunEnd
  <2>1. UNCHANGED <<toQ, fromQ, work>>
    BY <1>12 DEF RunEnd, kernelVars, callVars, runVars, getVars, getRest, workerRest
  <2> QED
    BY <1>j, <2>1, OutSame
<1>13. CASE GetSelect
  <2>1. UNCHANGED <<toQ, fromQ, work>>
    BY <1>13 DEF GetSelect, kernelVars, callVars, runVars, getVars, getRest, workerRest
  <2> QED
    BY <1>j, <2>1, OutSame
<1>14. CASE GetPick
  <2>1. UNCHANGED <<toQ, fromQ, work>>
    BY <1>14 DEF GetPick, kernelVars, callVars, runVars, getVars, getRest, workerRest
  <2> QED
    BY <1>j, <2>1, OutSame
<1>15. CASE GetRead
  <2>1. InUse
    BY <1>15, <1>t, ReadyUse DEF GetRead, J, GetInv
  <2>2. PICK x \in 1..(NumWorkers + 1) : Struct(x)
    BY <1>t, <2>1 DEF StructInv
  <2> QED
    BY <1>15, <1>t, <1>j, <2>2, ReadStruct
<1>16. CASE GetMark
  <2>1. UNCHANGED <<toQ, fromQ, work>>
    BY <1>16 DEF GetMark, kernelVars, callVars, runVars, getVars, getRest, workerRest
  <2> QED
    BY <1>j, <2>1, OutSame
<1>17. CASE process_pool_stop
  <2>1. UNCHANGED <<toQ, fromQ, work>>
    BY <1>17 DEF process_pool_stop, kernelVars, callVars, runVars, getVars, getRest, workerRest
  <2> QED
    BY <1>j, <2>1, OutSame
<1>18. CASE DestroyBegin
  <2>1. UNCHANGED <<toQ, fromQ, work>>
    BY <1>18 DEF DestroyBegin, kernelVars, callVars, runVars, getVars, getRest, workerRest
  <2> QED
    BY <1>j, <2>1, OutSame
<1>19. CASE TerminateWorker
  <2>1. fromQ' = fromQ
    BY <1>19 DEF TerminateWorker
  <2>2. pool["client"].workers[ci].pid \in Pids \cup {None}
    <3>1. pool["client"].workers[ci] \in WorkerRecord
      BY <1>19, <1>t, MastersAre, WorkerOf, TerminateEffect
    <3> QED
      BY <3>1 DEF WorkerRecord
  <2>3. CASE pool["client"].workers[ci].pid = None
    <3>1. UNCHANGED <<toQ, fromQ, work>>
      BY <1>19, <2>3 DEF TerminateWorker
    <3> QED
      BY <1>j, <3>1, OutSame
  <2>4. ASSUME NEW p \in Pids, p = pool["client"].workers[ci].pid, p # None PROVE Out(j)' <= 1
    <3>1. toQ' = [toQ EXCEPT ![p] = << >>] /\ work' = [work EXCEPT ![p] = 0]
      BY <1>19, <2>4 DEF TerminateWorker
    <3>2. Out(p)' <= Out(p) /\ \A i \in Pids : i # p => Out(i)' = Out(i)
      BY <1>t, <2>1, <3>1, OutEmptied
    <3> QED
      BY <1>t, <3>2, <1>j, FewerOut
  <2> QED
    BY <2>2, <2>3, <2>4
<1>20. CASE FreePool
  <2>1. UNCHANGED <<toQ, fromQ, work>>
    BY <1>20 DEF FreePool, reap_dead_children, kernelVars, callVars, runVars, getVars, getRest, workerRest
  <2> QED
    BY <1>j, <2>1, OutSame
<1>21. ASSUME NEW k \in Pids, WorkerRead(k) PROVE Out(j)' <= 1
  BY <1>21, <1>t, <1>j, OutRead
<1>22. ASSUME NEW k \in Pids, WorkerEof(k) PROVE Out(j)' <= 1
  <2>1. Exit(k) /\ UNCHANGED fromQ
    BY <1>22 DEF WorkerEof
  <2>2. Out(k)' <= Out(k) /\ \A i \in Pids : i # k => Out(i)' = Out(i)
    BY <1>t, <2>1, OutExit
  <2> QED
    BY <1>t, <2>2, <1>j, FewerOut
<1>23. ASSUME NEW k \in Pids, WorkerReply(k) PROVE Out(j)' <= 1
  <2>1. CASE Held(<<"from", k, "r">>)
    BY <1>23, <1>t, <1>j, <2>1, OutReply
  <2>2. CASE ~Held(<<"from", k, "r">>)
    <3>1. Exit(k) /\ UNCHANGED fromQ
      BY <1>23, <2>2 DEF WorkerReply
    <3>2. Out(k)' <= Out(k) /\ \A i \in Pids : i # k => Out(i)' = Out(i)
      BY <1>t, <3>1, OutExit
    <3> QED
      BY <1>t, <3>2, <1>j, FewerOut
  <2> QED
    BY <2>1, <2>2
<1>24. ASSUME NEW k \in Pids, WorkerCrash(k) PROVE Out(j)' <= 1
  <2>1. Exit(k) /\ UNCHANGED fromQ
    BY <1>24 DEF WorkerCrash
  <2>2. Out(k)' <= Out(k) /\ \A i \in Pids : i # k => Out(i)' = Out(i)
    BY <1>t, <2>1, OutExit
  <2> QED
    BY <1>t, <2>2, <1>j, FewerOut
<1> QED
  BY <1>0, <1>1, <1>2, <1>3, <1>4, <1>5, <1>6, <1>7, <1>8, <1>9, <1>10, <1>11, <1>12,
     <1>13, <1>14, <1>15, <1>16, <1>17, <1>18, <1>19, <1>20, <1>21, <1>22, <1>23, <1>24
     DEF Next, RunStep, WorkerStep, GetStep, DestroyStep

\* A step that could lose a task is not one of a pool in use without a fault:
\* every living process is a sound worker's.
LEMMA NoLoss ==
    ASSUME J, StructInv, faults' = 0, faults = 0, ~forked, cpc \in {"create", "ready"}
    PROVE  ~Lossy
<1>1. Types /\ EndsInv /\ InUse /\ Safe
  BY ReadyUse DEF J, Safe
<1>2. PICK x \in 1..(NumWorkers + 1) : Struct(x)
  BY <1>1 DEF StructInv
<1>3. Calm(x) /\ \A w \in Workers : w # x /\ (Made(w) => Good(w))
  BY <1>2, CalmGood
<1>4. ASSUME NEW k \in Pids, proc[k] = "up" PROVE Held(<<"from", k, "r">>)
  <2>1. PICK w \in Workers : Made(w) /\ Wk(w).pid = k
    BY <1>3, <1>4 DEF Calm
  <2>2. Good(w) /\ NumbersAt(Wk(w), w)
    BY <1>2, <1>3, <2>1 DEF Struct
  <2> QED
    BY <1>1, <2>1, <2>2, GoodEnds
<1> QED
  BY <1>4 DEF Lossy

LEMMA FullStep ==
    J /\ ApartInv /\ StructInv /\ FullInv /\ [Next]_vars => FullInv'
<1> SUFFICES ASSUME J, ApartInv, StructInv, FullInv, [Next]_vars,
                    faults' = 0, cpc' \in {"create", "ready"}, ~forked'
             PROVE  Full(Contents', next_task_id')
  BY DEF FullInv, Full, Has
<1>1. Types /\ HandsInv /\ Types' /\ Shift /\ Onward
  BY TypesStep, ShiftStep, UseStep DEF J
<1>2. faults = 0 /\ ~forked /\ cpc \in {"create", "ready"}
  <2>1. faults \in Nat
    BY <1>1 DEF Types, PlaceTypes
  <2> QED
    BY <1>1, <2>1 DEF Onward
<1>3. ~Lossy
  BY <1>2, NoLoss
<1>4. Contents \in Tables /\ Contents' \in Tables
  BY <1>1, ContentsType, ContentsTypeNext
<1>5. Full(Contents, next_task_id) /\ Below(Contents, next_task_id) /\ next_task_id \in Nat
  BY <1>1, <1>2 DEF FullInv, ApartInv, Types, PoolTypes
<1> DEFINE C == Contents
           D == Contents'
           n == next_task_id
<1> HIDE DEF C, D, n
<1>6. Full(D, next_task_id')
  <2>1. CASE /\ next_task_id' = n + 1 /\ n \in TaskIds
             /\ Added(C, D, <<"queue", 0>>, n)
    BY <1>4, <1>5, <2>1, LocsAre, AddedKeeps DEF C, D, n
  <2>2. CASE next_task_id' = n /\ Moves(C, D)
    <3>1. CASE D = C
      BY <1>5, <2>2, <3>1 DEF C, D, n
    <3>2. ASSUME NEW a \in Locs, NEW b \in Locs, Move(C, D, a, b)
          PROVE  Full(D, next_task_id')
      <4>1. \A t \in TaskIds : Has(C, t) => Has(D, t)
        BY <1>4, <3>2, MoveKeeps DEF C, D
      <4>2. \A t \in 1..(n - 1) : t \in TaskIds
        BY <1>1, PoolAssumption DEF n, Types, PoolTypes, TaskIds
      <4> QED
        BY <1>5, <2>2, <4>1, <4>2 DEF C, n, Full
    <3> QED
      BY <2>2, <3>1, <3>2 DEF Moves
  <2> QED
    BY <1>1, <1>2, <1>3, <2>1, <2>2 DEF Shift, C, D, n
<1> QED
  BY <1>6 DEF D

LEMMA FullInit == Init => FullInv
  BY DEF Init, FullInv, Full

\* The converse of PlaceInTable, in one process.
LEMMA InTableHasPlace ==
    ASSUME Types, ~forked, NEW t \in TaskIds, Has(Contents, t)
    PROVE  Places(t) # {}
<1>1. PICK l \in Locs : \E i \in 1..Len(Contents[l]) : Contents[l][i] = t
  BY DEF Has
<1>2. PICK i \in 1..Len(Contents[l]) : Contents[l][i] = t
  BY <1>1
<1> DEFINE A == {"queue"} \X Positions(pool[Runner].queue, t)
           B == {<<"sending", 1>> : x \in {y \in {snd} : y.task = t /\ ~y.ok}}
           C == UNION {{<<"to", k>>} \X Positions(toQ[k], t) : k \in Pids}
           D == {<<"work", k>> : k \in {j \in Pids : work[j] = t}}
           E == UNION {{<<"from", k>>} \X Positions(fromQ[k], t) : k \in Pids}
           F == {<<"got", 1>> : x \in {y \in {gres} : y = t}}
           G == {"delivered"} \X Positions(delivered, t)
<1>3. Places(t) = A \cup B \cup C \cup D \cup E \cup F \cup G
  BY DEF Places
<1>4. \A u : \A n \in 1..Len(One(u)) : One(u)[n] = t => u = t
  BY DEF One
<1>5. CASE l = <<"queue", 0>>
  <2>1. Contents[l] = pool[Runner].queue
    BY <1>5, ContentsAt DEF Queue, Runner
  <2>2. pool[Runner].queue \in Seq(TaskIds)
    BY MastersAre DEF Types, PoolTypes, PoolRecord
  <2>3. i \in Positions(pool[Runner].queue, t)
    BY <1>2, <2>1, <2>2, PositionsAre
  <2>4. <<"queue", i>> \in A
    BY <2>3
  <2> HIDE DEF A, B, C, D, E, F, G
  <2> QED
    BY <1>3, <2>4
<1>6. CASE l = <<"sending", 0>>
  <2>1. Contents[l] = Sending
    BY <1>6, ContentsAt
  <2>2. ~snd.ok /\ Sending = One(snd.task)
    BY <1>2, <2>1 DEF Sending
  <2>3. snd.task = t
    BY <1>2, <1>4, <2>1, <2>2
  <2>4. <<"sending", 1>> \in B
    BY <2>2, <2>3
  <2> HIDE DEF A, B, C, D, E, F, G
  <2> QED
    BY <1>3, <2>4
<1>7. ASSUME NEW k \in Pids, l = <<"to", k>> PROVE Places(t) # {}
  <2>1. Contents[l] = toQ[k] /\ toQ[k] \in Seq(TaskIds)
    BY <1>7, ContentsAt DEF Types, KernelTypes
  <2>2. i \in Positions(toQ[k], t)
    BY <1>2, <2>1, PositionsAre
  <2>3. << <<"to", k>>, i>> \in C
    BY <2>2
  <2> HIDE DEF A, B, C, D, E, F, G
  <2> QED
    BY <1>3, <2>3
<1>8. ASSUME NEW k \in Pids, l = <<"work", k>> PROVE Places(t) # {}
  <2>1. Contents[l] = One(work[k])
    BY <1>8, ContentsAt
  <2>2. work[k] = t
    BY <1>2, <1>4, <2>1
  <2>3. <<"work", k>> \in D
    BY <2>2
  <2> HIDE DEF A, B, C, D, E, F, G
  <2> QED
    BY <1>3, <2>3
<1>9. ASSUME NEW k \in Pids, l = <<"from", k>> PROVE Places(t) # {}
  <2>1. Contents[l] = fromQ[k] /\ fromQ[k] \in Seq(TaskIds)
    BY <1>9, ContentsAt DEF Types, KernelTypes
  <2>2. i \in Positions(fromQ[k], t)
    BY <1>2, <2>1, PositionsAre
  <2>3. << <<"from", k>>, i>> \in E
    BY <2>2
  <2> HIDE DEF A, B, C, D, E, F, G
  <2> QED
    BY <1>3, <2>3
<1>10. CASE l = <<"got", 0>>
  <2>1. Contents[l] = One(gres)
    BY <1>10, ContentsAt
  <2>2. gres = t
    BY <1>2, <1>4, <2>1
  <2>3. <<"got", 1>> \in F
    BY <2>2
  <2> HIDE DEF A, B, C, D, E, F, G
  <2> QED
    BY <1>3, <2>3
<1>11. CASE l = <<"delivered", 0>>
  <2>1. Contents[l] = delivered /\ delivered \in Seq(TaskIds)
    BY <1>11, ContentsAt DEF Types, PlaceTypes
  <2>2. i \in Positions(delivered, t)
    BY <1>2, <2>1, PositionsAre
  <2>3. <<"delivered", i>> \in G
    BY <2>2
  <2> HIDE DEF A, B, C, D, E, F, G
  <2> QED
    BY <1>3, <2>3
<1> QED
  BY <1>5, <1>6, <1>7, <1>8, <1>9, <1>10, <1>11, LocKinds

-----------------------------------------------------------------------------
(* The invariant, and what it gives.                                        *)
IInv == J /\ ApartInv /\ StructInv /\ CountInv /\ FullInv

LEMMA InvInit == Init => IInv
  BY TypesInit, FdInit, ApartInit, EndsInit, GetInvInit, StructInit, FullInit DEF IInv, J, ApartInv

LEMMA InvStep == IInv /\ [Next]_vars => IInv'
<1> SUFFICES ASSUME IInv, [Next]_vars PROVE IInv'
  OBVIOUS
<1>1. J /\ ApartInv /\ StructInv /\ CountInv /\ FullInv
  BY DEF IInv
<1>2. Types /\ StageInv /\ HandsInv /\ EndsInv /\ GetInv
  BY <1>1 DEF J
<1>3. J'
  BY <1>2, TypesStep, StageStep, HandsStep, EndsStep, GetInvStep DEF J
<1>4. ApartInv'
  BY <1>1, <1>2, ApartStep
<1>5. StructInv' /\ CountInv' /\ FullInv'
  BY <1>1, StructStep, CountStep, FullStep
<1> QED
  BY <1>3, <1>4, <1>5 DEF IInv

LEMMA InvThm == Spec => []IInv
  BY InvInit, InvStep, PTL DEF Spec

(* A task is never in two places, whatever workers crash, and without a     *)
(* fault in one process a submitted task is somewhere: dispatch_tasks puts  *)
(* a task back only if it was not written, and what a worker reads, writes  *)
(* or the caller collects leaves one place for another.                     *)
THEOREM NoTaskTwiceNoneLost == Spec => []OnePlace
<1>1. IInv => OnePlace
  <2> SUFFICES ASSUME IInv, NEW t \in TaskIds
               PROVE  /\ Cardinality(Places(t)) <= 1
                      /\ (faults = 0 /\ cpc = "ready" /\ ~forked /\ t < next_task_id)
                            => Places(t) # {}
    BY DEF OnePlace
  <2>1. Types /\ ApartInv /\ FullInv
    BY DEF IInv, J
  <2>2. Cardinality(Places(t)) <= 1
    BY <2>1, OneAtMost
  <2>3. ASSUME faults = 0, cpc = "ready", ~forked, t < next_task_id PROVE Places(t) # {}
    <3>1. t \in 1..(next_task_id - 1)
      BY <2>1, <2>3 DEF Types, PoolTypes, TaskIds
    <3>2. Has(Contents, t)
      BY <2>1, <2>3, <3>1 DEF FullInv, Full
    <3> QED
      BY <2>1, <2>3, <3>2, InTableHasPlace
  <2> QED
    BY <2>2, <2>3
<1> QED
  BY <1>1, InvThm, PTL

(* dispatch_tasks never has two tasks in one process, without a fault and,  *)
(* with a loop in a process of its own, through the restart that one fault  *)
(* brings: at most one worker is broken at any time, and it is sent nothing.*)
THEOREM OneTaskPerWorker == Spec => []OneTaskEach
<1>1. IInv => OneTaskEach
  BY DEF IInv, CountInv, OneTaskEach, Safe, Out
<1> QED
  BY <1>1, InvThm, PTL

=============================================================================

------------------------- MODULE TaskQueuePoolProofs ------------------------
(***************************************************************************)
(* Proofs about TaskQueuePool, for every number of workers, producers and  *)
(* tasks and every capacity: Inv is inductive, one lemma per part of it,   *)
(* and what the queue and stop promise follows from it.                    *)
(***************************************************************************)
EXTENDS TaskQueuePool, FiniteSetTheorems, SequenceTheorems, TLAPS

-----------------------------------------------------------------------------
(* The inductive invariant *)

Popping == {w \in Workers : wpc[w] = "pop"}
Pushing == {p \in Producers : ppc[p] = "push"}

\* A producer has finished when it has nothing left to add.
ProducerInv == \A p \in Producers : (ppc[p] = "finished") = (left[p] = 0)

\* What a worker runs or has run was pushed and is no longer queued.
RunningInv ==
    /\ Len(m_que) <= pushed
    /\ done \subseteq 1..(pushed - Len(m_que))
    /\ \A w \in Workers : wpc[w] = "running" => cur[w] \in 1..(pushed - Len(m_que))

\* The mutex is kept across steps by the worker that is about to sleep, and the
\* queue it saw empty stays empty.
MutexInv ==
    /\ \A w \in Workers : (wpc[w] = "blocking") = (mutex = w)
    /\ \A w \in Workers : wpc[w] = "blocking" => m_que = << >>

\* start creates the threads one after the other, stop joins them in that order.
ThreadInv ==
    /\ mpc = "start" => \A w \in Workers : w >= at => wpc[w] = "unborn"
    /\ mpc \in {"started", "drain", "exit", "wakeup", "notify"} => at = 1
    /\ mpc = "join" => \A w \in Workers : w < at => wpc[w] = "exited"
    /\ mpc = "stopped" => \A w \in Workers : wpc[w] = "exited"

\* The queue that a quiet stop has seen empty stays empty.
QuietInv ==
    quiet => /\ \A p \in Producers : ppc[p] = "finished"
             /\ mpc \in {"exit", "wakeup", "notify", "join", "stopped"} => m_que = << >>

\* While a worker sleeps and the flag is up, every queued task has a worker on its
\* way to the queue.
WorkersAwake == m_flag /\ NotEmptyWaiters # {} => Len(m_que) <= Cardinality(Popping)

\* While a producer sleeps, every free place has a producer on its way to the queue.
ProducersAwake == NotFullWaiters # {} => QueSize - Len(m_que) <= Cardinality(Pushing)

NoLostWakeup == WorkersAwake /\ ProducersAwake

Inv ==
    /\ TypeOK /\ ProducerInv /\ RunningInv /\ MutexInv /\ ThreadInv /\ QuietInv
    /\ TaskInOnePlace /\ NoLostWakeup

-----------------------------------------------------------------------------
(* The constants, and sequences at both ends *)

\* The constants as the provers need them.
LEMMA Sizes ==
    /\ NumThreads \in Nat /\ NumThreads >= 1 /\ QueSize \in Nat /\ QueSize >= 1
    /\ TasksEach \in Nat /\ TasksEach >= 1
    /\ \A w \in Workers : w \in Nat /\ 1 <= w /\ w <= NumThreads
    /\ None \notin Workers
BY PoolAssumption DEF Workers

\* The queue behind a push.
LEMMA Pushed ==
    ASSUME TypeOK, NEW e \in Nat
    PROVE  /\ Append(m_que, e) \in Seq(Nat)
           /\ Len(Append(m_que, e)) = Len(m_que) + 1
           /\ \A i \in DOMAIN m_que : Append(m_que, e)[i] = m_que[i]
           /\ Append(m_que, e)[Len(m_que) + 1] = e
           /\ DOMAIN Append(m_que, e) = DOMAIN m_que \cup {Len(m_que) + 1}
BY AppendProperties DEF TypeOK

\* The queue behind a pop.
LEMMA Popped ==
    ASSUME TypeOK, m_que # << >>
    PROVE  /\ Tail(m_que) \in Seq(Nat)
           /\ Len(m_que) >= 1 /\ Len(Tail(m_que)) = Len(m_que) - 1
           /\ Head(m_que) = m_que[1] /\ 1 \in DOMAIN m_que
           /\ DOMAIN Tail(m_que) = 1..(Len(m_que) - 1)
           /\ \A i \in DOMAIN Tail(m_que) :
                 i + 1 \in DOMAIN m_que /\ Tail(m_que)[i] = m_que[i + 1]
<1>1. m_que \in Seq(Nat) /\ Len(m_que) \in Nat /\ Len(m_que) >= 1
      /\ DOMAIN m_que = 1..Len(m_que)
  BY DEF TypeOK
<1>2. Tail(m_que) \in Seq(Nat) /\ Len(Tail(m_que)) = Len(m_que) - 1
  BY <1>1, HeadTailProperties
<1>3. \A i \in 1..(Len(m_que) - 1) : Tail(m_que)[i] = m_que[i + 1]
  BY <1>1
<1> QED BY <1>1, <1>2, <1>3

-----------------------------------------------------------------------------
(* Everything but the tasks' places and the wake-ups *)

Control == TypeOK /\ ProducerInv /\ RunningInv /\ MutexInv /\ ThreadInv /\ QuietInv

\* In the beginning there is nothing to say.
LEMMA InitInv == Init => Inv
<1> SUFFICES ASSUME Init PROVE Inv
  OBVIOUS
<1> USE Sizes
<1>1. m_que = << >> /\ m_que \in Seq(Nat) /\ Len(m_que) = 0 /\ DOMAIN m_que = {}
  BY DEF Init
<1>2. 1 \in Workers
  BY DEF Workers
<1>3. TypeOK
  <2>1. m_que \in Seq(Nat) /\ Len(m_que) <= QueSize
    BY <1>1
  <2>2. left \in [Producers -> 0..TasksEach] /\ pushed \in Nat /\ done \in SUBSET (1..pushed)
    BY DEF Init
  <2> QED BY <1>2, <2>1, <2>2 DEF Init, TypeOK
<1>4. ProducerInv
  BY DEF Init, ProducerInv
<1>5. RunningInv /\ MutexInv /\ QuietInv
  BY DEF Init, RunningInv, MutexInv, QuietInv
<1>6. ThreadInv
  BY DEF Init, ThreadInv
<1>7. TaskInOnePlace
  <2>1. \A k \in 1..(pushed - Len(m_que)) : FALSE
    BY <1>1 DEF Init
  <2>2. \A w \in Workers : wpc[w] # "running"
    BY DEF Init
  <2> QED BY <1>1, <2>1, <2>2 DEF TaskInOnePlace
<1>8. NoLostWakeup
  BY DEF Init, NoLostWakeup, WorkersAwake, ProducersAwake, NotEmptyWaiters,
         NotFullWaiters
<1> QED BY <1>3, <1>4, <1>5, <1>6, <1>7, <1>8 DEF Inv

\* A notify of one worker changes nothing but a sleeper.
LEMMA NotifyWorker ==
    ASSUME TypeOK, NotifyNotEmpty
    PROVE  /\ wpc' \in [Workers -> {"unborn", "loop", "pop", "blocking", "waiting",
                                    "running", "exited"}]
           /\ \A w \in Workers : wpc'[w] = wpc[w] \/ (wpc[w] = "waiting" /\ wpc'[w] = "pop")
BY DEF TypeOK, NotifyNotEmpty, NotEmptyWaiters

LEMMA NotifyProducer ==
    ASSUME TypeOK, NotifyNotFull
    PROVE  /\ ppc' \in [Producers -> {"push", "waiting", "finished"}]
           /\ \A p \in Producers : ppc'[p] = ppc[p] \/ (ppc[p] = "waiting" /\ ppc'[p] = "push")
BY DEF TypeOK, NotifyNotFull, NotFullWaiters

\* addTask.
LEMMA PushControl ==
    ASSUME Inv, NEW p \in Producers, Push(p)
    PROVE  Control'
<1> USE Sizes
<1>0. /\ TypeOK /\ ProducerInv /\ RunningInv /\ MutexInv /\ ThreadInv /\ QuietInv
      /\ m_que \in Seq(Nat) /\ Len(m_que) \in Nat /\ pushed \in Nat
  BY DEF Inv, TypeOK
<1>1. CASE PushWait(p)
  <2>1. TypeOK' /\ ProducerInv'
    BY <1>0, <1>1 DEF Push, PushWait, TypeOK, ProducerInv, mainVars, queueVars
  <2>2. RunningInv' /\ MutexInv' /\ ThreadInv'
    BY <1>0, <1>1 DEF Push, PushWait, RunningInv, MutexInv, ThreadInv, mainVars, queueVars
  <2>3. QuietInv'
    BY <1>0, <1>1 DEF Push, PushWait, QuietInv, mainVars, queueVars
  <2> QED BY <2>1, <2>2, <2>3 DEF Control
<1>2. CASE PushDone(p)
  <2>0. /\ m_que' = Append(m_que, pushed + 1) /\ pushed' = pushed + 1
        /\ Len(m_que) < QueSize
    BY <1>0, <1>2 DEF PushDone, TypeOK
  <2>1. m_que' \in Seq(Nat) /\ Len(m_que') = Len(m_que) + 1
    BY <1>0, <2>0, Pushed
  <2>2. /\ wpc' \in [Workers -> {"unborn", "loop", "pop", "blocking", "waiting",
                                 "running", "exited"}]
        /\ \A w \in Workers : wpc'[w] = wpc[w] \/ (wpc[w] = "waiting" /\ wpc'[w] = "pop")
    BY <1>0, <1>2, NotifyWorker DEF PushDone
  <2>3. left[p] \in 1..TasksEach
    <3>1. left[p] \in 0..TasksEach /\ left[p] # 0
      BY <1>0 DEF Push, TypeOK, ProducerInv
    <3> QED BY <3>1
  <2>4. ppc' \in [Producers -> {"push", "waiting", "finished"}]
        /\ left' \in [Producers -> 0..TasksEach]
    BY <1>0, <1>2, <2>3 DEF PushDone, TypeOK
  <2>5. /\ UNCHANGED <<m_flag, m_isExit, mpc, at, quiet, mutex, cur, done>>
        /\ mutex = None
    BY DEF Push, mainVars
  <2>6. done' \in SUBSET (1..pushed')
    BY <1>0, <2>0, <2>5 DEF TypeOK
  <2>7. TypeOK'
    BY <1>0, <2>0, <2>1, <2>2, <2>4, <2>5, <2>6 DEF TypeOK
  <2>8. ProducerInv'
    BY <1>0, <1>2, <2>3 DEF PushDone, TypeOK, ProducerInv
  <2>9. RunningInv'
    BY <1>0, <2>0, <2>1, <2>2, <2>5 DEF RunningInv
  <2>10. MutexInv'
    BY <1>0, <2>2, <2>5 DEF MutexInv
  <2>11. ThreadInv'
    BY <1>0, <2>2, <2>5 DEF ThreadInv
  <2>12. ~quiet
    BY <1>0 DEF QuietInv, Push
  <2>13. QuietInv'
    BY <2>5, <2>12 DEF QuietInv
  <2> QED BY <2>7, <2>8, <2>9, <2>10, <2>11, <2>13 DEF Control
<1> QED BY <1>1, <1>2 DEF Push

\* A producer that wakes up without a notification.
LEMMA SpuriousProducerControl ==
    ASSUME Inv, NEW p \in Producers, SpuriousProducer(p)
    PROVE  Control'
<1>1. TypeOK' /\ ProducerInv'
  BY DEF Inv, SpuriousProducer, TypeOK, ProducerInv, mainVars, queueVars
<1>2. RunningInv' /\ MutexInv' /\ ThreadInv'
  BY DEF Inv, SpuriousProducer, RunningInv, MutexInv, ThreadInv, mainVars, queueVars
<1>3. QuietInv'
  BY DEF Inv, SpuriousProducer, QuietInv, mainVars, queueVars
<1> QED BY <1>1, <1>2, <1>3 DEF Control

\* A worker that takes the oldest task.
LEMMA PopTaskControl ==
    ASSUME Inv, NEW w \in Workers, Pop(w), PopTask(w)
    PROVE  Control'
<1> USE Sizes
<1>0. /\ TypeOK /\ ProducerInv /\ RunningInv /\ MutexInv /\ ThreadInv /\ QuietInv
      /\ m_que \in Seq(Nat) /\ Len(m_que) \in Nat /\ pushed \in Nat
      /\ \A i \in DOMAIN m_que : m_que[i] = pushed - Len(m_que) + i
  BY DEF Inv, TypeOK, TaskInOnePlace
<1>1. /\ m_que' = Tail(m_que) /\ cur' = [cur EXCEPT ![w] = Head(m_que)]
      /\ wpc' = [wpc EXCEPT ![w] = "running"] /\ m_que # << >>
      /\ UNCHANGED <<m_flag, m_isExit, mpc, at, quiet, mutex, pushed, left, done>>
      /\ wpc[w] = "pop" /\ mutex = None
  BY DEF Pop, PopTask, mainVars
<1>2. /\ m_que' \in Seq(Nat) /\ Len(m_que') = Len(m_que) - 1 /\ Len(m_que) >= 1
      /\ Head(m_que) = pushed - Len(m_que) + 1 /\ Head(m_que) \in Nat
  <2>1. Head(m_que) = m_que[1] /\ 1 \in DOMAIN m_que
    BY <1>0, <1>1, Popped
  <2>2. m_que[1] = pushed - Len(m_que) + 1 /\ m_que[1] \in Nat
    BY <1>0, <2>1
  <2> QED BY <1>0, <1>1, <2>1, <2>2, Popped
<1>3. /\ ppc' \in [Producers -> {"push", "waiting", "finished"}]
      /\ \A p \in Producers : ppc'[p] = ppc[p] \/ (ppc[p] = "waiting" /\ ppc'[p] = "push")
  BY <1>0, NotifyProducer DEF PopTask
<1>4. Head(m_que) \in 1..(pushed' - Len(m_que'))
  BY <1>0, <1>1, <1>2 DEF RunningInv
<1>5. TypeOK'
  <2>1. /\ cur' \in [Workers -> Nat]
        /\ wpc' \in [Workers -> {"unborn", "loop", "pop", "blocking", "waiting",
                                 "running", "exited"}]
    BY <1>0, <1>1, <1>2 DEF TypeOK
  <2> QED BY <1>0, <1>1, <1>2, <1>3, <2>1 DEF TypeOK
<1>6. ProducerInv'
  BY <1>0, <1>1, <1>3 DEF ProducerInv
<1>7. RunningInv'
  <2> SUFFICES ASSUME NEW v \in Workers, wpc'[v] = "running"
               PROVE  cur'[v] \in 1..(pushed' - Len(m_que'))
    BY <1>0, <1>1, <1>2 DEF RunningInv
  <2>1. CASE v = w
    BY <1>0, <1>1, <1>4, <2>1 DEF TypeOK
  <2>2. CASE v # w
    <3>1. cur'[v] = cur[v] /\ cur[v] \in 1..(pushed - Len(m_que))
      BY <1>0, <1>1, <2>2 DEF TypeOK, RunningInv
    <3> QED BY <1>0, <1>1, <1>2, <3>1
  <2> QED BY <2>1, <2>2
<1>8. MutexInv'
  BY <1>0, <1>1 DEF MutexInv, TypeOK
<1>9. ThreadInv'
  BY <1>0, <1>1 DEF ThreadInv, TypeOK
<1>10. QuietInv'
  BY <1>0, <1>1, <1>3 DEF QuietInv
<1> QED BY <1>5, <1>6, <1>7, <1>8, <1>9, <1>10 DEF Control

\* The other steps of a worker.
LEMMA WorkerControl ==
    ASSUME Inv, NEW w \in Workers,
           \/ LoopTest(w) \/ PopSleep(w) \/ RunTask(w) \/ SpuriousWorker(w)
           \/ Pop(w) /\ (PopBlock(w) \/ PopNull(w))
    PROVE  Control'
<1> USE Sizes
<1>0. TypeOK /\ ProducerInv /\ RunningInv /\ MutexInv /\ ThreadInv /\ QuietInv
  BY DEF Inv
<1>1. /\ UNCHANGED <<m_que, pushed, m_flag, m_isExit, mpc, at, quiet, ppc, left>>
      /\ wpc[w] \notin {"unborn", "exited"}
      /\ \E x \in {"loop", "exited", "pop", "blocking", "waiting"} :
            wpc' = [wpc EXCEPT ![w] = x]
  BY DEF LoopTest, PopSleep, RunTask, SpuriousWorker, Pop, PopBlock, PopNull, mainVars,
         queueVars
<1>2. /\ wpc' \in [Workers -> {"unborn", "loop", "pop", "blocking", "waiting",
                               "running", "exited"}]
      /\ \A v \in Workers : v # w => wpc'[v] = wpc[v]
      /\ wpc'[w] # "running"
  BY <1>0, <1>1 DEF TypeOK
<1>3. /\ cur' \in [Workers -> Nat]
      /\ \A v \in Workers : v # w => cur'[v] = cur[v]
  BY <1>0 DEF TypeOK, LoopTest, PopSleep, RunTask, SpuriousWorker, Pop, PopBlock, PopNull
<1>4. mutex' \in Workers \cup {None}
  BY <1>0 DEF TypeOK, LoopTest, PopSleep, RunTask, SpuriousWorker, Pop, PopBlock, PopNull
<1>5. done' \in SUBSET (1..pushed')
  <2>1. CASE RunTask(w)
    <3>1. cur[w] \in 1..(pushed - Len(m_que)) /\ pushed \in Nat /\ Len(m_que) \in Nat
      BY <1>0, <2>1 DEF RunTask, RunningInv, TypeOK
    <3>2. cur[w] \in 1..pushed
      BY <3>1
    <3> QED BY <1>0, <1>1, <2>1, <3>2 DEF RunTask, TypeOK
  <2>2. CASE ~RunTask(w)
    BY <1>0, <1>1, <2>2 DEF TypeOK, LoopTest, PopSleep, SpuriousWorker, Pop
  <2> QED BY <2>1, <2>2
<1>6. TypeOK'
  BY <1>0, <1>1, <1>2, <1>3, <1>4, <1>5 DEF TypeOK
<1>7. ProducerInv' /\ QuietInv'
  BY <1>0, <1>1 DEF ProducerInv, QuietInv
<1>8. RunningInv'
  <2>1. done' \subseteq 1..(pushed - Len(m_que))
    BY <1>0 DEF RunningInv, RunTask, LoopTest, PopSleep, SpuriousWorker, Pop
  <2> QED BY <1>0, <1>1, <1>2, <1>3, <2>1 DEF RunningInv
<1>9. MutexInv'
  <2>0. /\ mutex \in Workers \cup {None}
        /\ wpc \in [Workers -> {"unborn", "loop", "pop", "blocking", "waiting",
                                "running", "exited"}]
        /\ \A v \in Workers : (wpc[v] = "blocking") = (mutex = v)
        /\ \A v \in Workers : wpc[v] = "blocking" => m_que = << >>
    BY <1>0 DEF TypeOK, MutexInv
  <2>1. CASE LoopTest(w) \/ RunTask(w) \/ SpuriousWorker(w) \/ (Pop(w) /\ PopNull(w))
    <3>1. mutex' = mutex /\ wpc[w] # "blocking" /\ wpc'[w] # "blocking"
      BY <2>0, <2>1 DEF LoopTest, RunTask, SpuriousWorker, Pop, PopNull
    <3> QED BY <2>0, <3>1, <1>1, <1>2 DEF MutexInv
  <2>2. CASE PopSleep(w)
    <3>1. mutex = w /\ mutex' = None /\ wpc'[w] # "blocking"
      BY <2>0, <2>2 DEF PopSleep
    <3> QED BY <2>0, <3>1, <1>1, <1>2 DEF MutexInv
  <2>3. CASE Pop(w) /\ PopBlock(w)
    <3>1. mutex = None /\ mutex' = w /\ wpc'[w] = "blocking" /\ m_que = << >>
      BY <2>0, <2>3 DEF Pop, PopBlock
    <3> QED BY <2>0, <3>1, <1>1, <1>2 DEF MutexInv
  <2> QED BY <2>1, <2>2, <2>3
<1>10. ThreadInv'
  BY <1>0, <1>1, <1>2 DEF ThreadInv
<1> QED BY <1>6, <1>7, <1>8, <1>9, <1>10 DEF Control

\* start creates a thread.
LEMMA StartControl == ASSUME Inv, Start PROVE Control'
<1> USE Sizes
<1>0. /\ TypeOK /\ ProducerInv /\ RunningInv /\ MutexInv /\ ThreadInv /\ QuietInv
      /\ at \in Workers /\ wpc[at] = "unborn"
  BY DEF Inv, Start, ThreadInv, TypeOK
<1>1. /\ wpc' = [wpc EXCEPT ![at] = "loop"]
      /\ mpc' = IF at = NumThreads THEN "started" ELSE "start"
      /\ at' = IF at = NumThreads THEN 1 ELSE at + 1
      /\ mpc = "start"
      /\ UNCHANGED <<m_que, pushed, m_flag, m_isExit, quiet, mutex, cur, ppc, left, done>>
  BY DEF Start, queueVars
<1>2. at' \in Workers
  BY <1>0, <1>1 DEF Workers
<1>3. TypeOK'
  BY <1>0, <1>1, <1>2 DEF TypeOK
<1>4. ProducerInv' /\ RunningInv' /\ QuietInv'
  BY <1>0, <1>1 DEF ProducerInv, RunningInv, QuietInv, TypeOK
<1>5. MutexInv'
  BY <1>0, <1>1 DEF MutexInv, TypeOK
<1>6. ThreadInv'
  BY <1>0, <1>1 DEF ThreadInv, TypeOK
<1> QED BY <1>3, <1>4, <1>5, <1>6 DEF Control

\* The steps of stop.
LEMMA StopControl == ASSUME Inv, StopCall \/ StopStep PROVE Control'
<1> USE Sizes
<1>0. TypeOK /\ ProducerInv /\ RunningInv /\ MutexInv /\ ThreadInv /\ QuietInv
  BY DEF Inv
<1>1. UNCHANGED <<m_que, pushed, mutex, cur, ppc, left, done>>
  BY DEF StopCall, StopStep, StopDrained, StopSetExit, StopClearFlag, StopNotifyAll,
         StopJoin, queueVars
<1>2. /\ wpc' \in [Workers -> {"unborn", "loop", "pop", "blocking", "waiting",
                               "running", "exited"}]
      /\ \A w \in Workers : wpc'[w] = wpc[w] \/ (wpc[w] = "waiting" /\ wpc'[w] = "pop")
  BY <1>0 DEF TypeOK, StopCall, StopStep, StopDrained, StopSetExit, StopClearFlag,
              StopNotifyAll, StopJoin
<1>3. at' \in Workers
  <2>1. at \in Workers /\ (at' = at \/ (at # NumThreads /\ at' = at + 1))
    BY <1>0 DEF TypeOK, StopCall, StopStep, StopDrained, StopSetExit, StopClearFlag,
                StopNotifyAll, StopJoin
  <2> QED BY <2>1 DEF Workers
<1>4. /\ m_flag' \in BOOLEAN /\ m_isExit' \in BOOLEAN /\ quiet' \in BOOLEAN
      /\ mpc' \in {"drain", "exit", "wakeup", "notify", "join", "stopped"}
  BY <1>0 DEF TypeOK, StopCall, StopStep, StopDrained, StopSetExit, StopClearFlag,
              StopNotifyAll, StopJoin
<1>5. TypeOK'
  BY <1>0, <1>1, <1>2, <1>3, <1>4 DEF TypeOK
<1>6. ProducerInv' /\ RunningInv' /\ MutexInv'
  BY <1>0, <1>1, <1>2 DEF ProducerInv, RunningInv, MutexInv
<1>7. QuietInv'
  BY <1>0, <1>1, <1>4 DEF QuietInv, StopCall, StopStep, StopDrained, StopSetExit,
              StopClearFlag, StopNotifyAll, StopJoin
<1>8. ThreadInv'
  <2>1. CASE StopJoin
    <3>1. /\ mpc = "join" /\ wpc[at] = "exited" /\ wpc' = wpc
          /\ mpc' = IF at = NumThreads THEN "stopped" ELSE "join"
          /\ at' = IF at = NumThreads THEN at ELSE at + 1
      BY <2>1 DEF StopJoin
    <3>2. \A w \in Workers : w < at => wpc[w] = "exited"
      BY <1>0, <3>1 DEF ThreadInv
    <3>3. at \in Workers /\ \A w \in Workers : w < at \/ w = at \/ w > at
      BY <1>0 DEF TypeOK
    <3>4. CASE at = NumThreads
      <4>1. \A w \in Workers : wpc[w] = "exited"
        BY <3>1, <3>2, <3>3, <3>4
      <4> QED BY <3>1, <3>4, <4>1 DEF ThreadInv
    <3>5. CASE at # NumThreads
      <4>1. \A w \in Workers : w < at + 1 => wpc[w] = "exited"
        BY <3>1, <3>2, <3>3
      <4> QED BY <3>1, <3>5, <4>1 DEF ThreadInv
    <3> QED BY <3>4, <3>5
  <2>2. CASE ~StopJoin
    <3>1. /\ mpc \in {"started", "drain", "exit", "wakeup", "notify"} /\ at' = at
          /\ mpc' \in {"drain", "exit", "wakeup", "notify", "join"}
      BY <2>2 DEF StopCall, StopStep, StopDrained, StopSetExit, StopClearFlag,
                  StopNotifyAll
    <3>2. at' = 1 /\ \A w \in Workers : ~(w < at')
      BY <1>0, <3>1 DEF ThreadInv
    <3> QED BY <3>1, <3>2 DEF ThreadInv
  <2> QED BY <2>1, <2>2
<1> QED BY <1>5, <1>6, <1>7, <1>8 DEF Control

\* Every step.
LEMMA NextControl == ASSUME Inv, [Next]_vars PROVE Control'
<1>1. CASE UNCHANGED vars
  BY <1>1 DEF vars, Inv, Control, TypeOK, ProducerInv, RunningInv, MutexInv, ThreadInv,
              QuietInv
<1>2. CASE Next
  BY <1>2, PushControl, SpuriousProducerControl, PopTaskControl, WorkerControl,
     StartControl, StopControl DEF Next, WorkerStep, Pop
<1> QED BY <1>1, <1>2

-----------------------------------------------------------------------------
(* Where the tasks are *)

\* Steps that leave the queue and the running workers alone.
LEMMA PlacesStay ==
    ASSUME Inv, UNCHANGED <<m_que, pushed, done>>,
           \A w \in Workers : (wpc'[w] = "running") <=> (wpc[w] = "running"),
           \A w \in Workers : wpc[w] = "running" => cur'[w] = cur[w]
    PROVE  TaskInOnePlace'
<1>1. TaskInOnePlace
  BY DEF Inv
<1> QED BY <1>1 DEF TaskInOnePlace

\* A push puts one more task behind the others.
LEMMA PushPlaces ==
    ASSUME Inv, NEW p \in Producers, Push(p), PushDone(p)
    PROVE  TaskInOnePlace'
<1> DEFINE n == Len(m_que)
<1>0. /\ TypeOK /\ m_que \in Seq(Nat) /\ n \in Nat /\ pushed \in Nat /\ pushed + 1 \in Nat
      /\ DOMAIN m_que = 1..n
  BY DEF Inv, TypeOK
<1>1. /\ \A i \in DOMAIN m_que : m_que[i] = pushed - n + i
      /\ \A k \in 1..(pushed - n) :
            k \in done \/ \E w \in Workers : wpc[w] = "running" /\ cur[w] = k
      /\ \A w \in Workers : wpc[w] = "running" =>
            /\ cur[w] \notin done
            /\ cur[w] \in 1..(pushed - n)
            /\ \A v \in Workers \ {w} : wpc[v] = "running" => cur[v] # cur[w]
  BY DEF Inv, TaskInOnePlace, RunningInv
<1>2. /\ m_que' = Append(m_que, pushed + 1) /\ pushed' = pushed + 1
      /\ cur' = cur /\ done' = done
  BY DEF Push, PushDone
<1>3. \A w \in Workers : (wpc'[w] = "running") <=> (wpc[w] = "running")
  BY <1>0, NotifyWorker DEF PushDone
<1>4. /\ Len(m_que') = n + 1 /\ DOMAIN m_que' = DOMAIN m_que \cup {n + 1}
      /\ \A i \in DOMAIN m_que : m_que'[i] = m_que[i]
      /\ m_que'[n + 1] = pushed + 1
  BY <1>0, <1>2, Pushed
<1>5. pushed' - Len(m_que') = pushed - n
  BY <1>0, <1>2, <1>4
<1>6. \A i \in DOMAIN m_que' : m_que'[i] = pushed - n + i
  <2> SUFFICES ASSUME NEW i \in DOMAIN m_que' PROVE m_que'[i] = pushed - n + i
    OBVIOUS
  <2>1. CASE i \in DOMAIN m_que
    BY <1>1, <1>4, <2>1
  <2>2. CASE i = n + 1
    BY <1>0, <1>4, <2>2
  <2> QED BY <1>4, <2>1, <2>2
<1>7. \A i \in DOMAIN m_que' : m_que'[i] \notin 1..(pushed - n)
  BY <1>0, <1>4, <1>6
<1> HIDE DEF n
<1> QED BY <1>1, <1>2, <1>3, <1>5, <1>6, <1>7 DEF TaskInOnePlace

\* A pop moves the oldest task to the hands of one worker.
LEMMA PopPlaces ==
    ASSUME Inv, NEW w \in Workers, Pop(w), PopTask(w)
    PROVE  TaskInOnePlace'
<1> DEFINE n == Len(m_que)
           k0 == pushed - n + 1
<1>0. /\ TypeOK /\ m_que \in Seq(Nat) /\ n \in Nat /\ pushed \in Nat
      /\ DOMAIN m_que = 1..n /\ n <= pushed /\ done \subseteq 1..pushed
      /\ cur \in [Workers -> Nat]
      /\ wpc \in [Workers -> {"unborn", "loop", "pop", "blocking", "waiting",
                              "running", "exited"}]
  BY DEF Inv, TypeOK, RunningInv
<1>1. /\ \A i \in DOMAIN m_que : m_que[i] = pushed - n + i
      /\ \A k \in 1..(pushed - n) :
            k \in done \/ \E v \in Workers : wpc[v] = "running" /\ cur[v] = k
      /\ \A v \in Workers : wpc[v] = "running" =>
            /\ cur[v] \notin done
            /\ cur[v] \in 1..(pushed - n)
            /\ \A u \in Workers \ {v} : wpc[u] = "running" => cur[u] # cur[v]
      /\ done \subseteq 1..(pushed - n)
  BY DEF Inv, TaskInOnePlace, RunningInv
<1>2. /\ m_que' = Tail(m_que) /\ cur' = [cur EXCEPT ![w] = Head(m_que)]
      /\ wpc' = [wpc EXCEPT ![w] = "running"] /\ m_que # << >>
      /\ UNCHANGED <<pushed, done>> /\ wpc[w] = "pop"
  BY DEF Pop, PopTask
<1>3. /\ Len(m_que') = n - 1 /\ n >= 1 /\ DOMAIN m_que' = 1..(n - 1)
      /\ Head(m_que) = m_que[1] /\ 1 \in DOMAIN m_que
      /\ \A i \in DOMAIN m_que' : i + 1 \in DOMAIN m_que /\ m_que'[i] = m_que[i + 1]
  BY <1>0, <1>2, Popped
<1>4. Head(m_que) = k0 /\ k0 \in Nat /\ k0 >= 1
  BY <1>0, <1>1, <1>3
<1>5. pushed' - Len(m_que') = k0
  BY <1>0, <1>2, <1>3
<1>6. \A i \in DOMAIN m_que' : m_que'[i] = k0 + i /\ m_que'[i] \notin 1..k0
  <2> SUFFICES ASSUME NEW i \in DOMAIN m_que' PROVE m_que'[i] = k0 + i /\ k0 + i \notin 1..k0
    OBVIOUS
  <2>1. i \in 1..(n - 1) /\ i + 1 \in DOMAIN m_que /\ m_que'[i] = m_que[i + 1]
    BY <1>3
  <2>2. m_que[i + 1] = pushed - n + (i + 1) /\ i \in Nat /\ i >= 1
    BY <1>0, <1>1, <1>3, <2>1
  <2>3. pushed - n + (i + 1) = k0 + i /\ k0 + i > k0
    BY <1>0, <2>2
  <2> QED BY <1>4, <2>1, <2>2, <2>3
<1>7. 1..k0 = 1..(pushed - n) \cup {k0} /\ k0 \notin 1..(pushed - n)
  BY <1>0, <1>4
<1>8. /\ \A v \in Workers : v # w => cur'[v] = cur[v] /\ wpc'[v] = wpc[v]
      /\ cur'[w] = k0 /\ wpc'[w] = "running"
  BY <1>0, <1>2, <1>4
<1> HIDE DEF k0, n
<1>9. \A k \in 1..k0 : k \in done' \/ \E v \in Workers : wpc'[v] = "running" /\ cur'[v] = k
  <2> SUFFICES ASSUME NEW k \in 1..k0, k \notin done
               PROVE  \E v \in Workers : wpc'[v] = "running" /\ cur'[v] = k
    BY <1>2
  <2>1. CASE k = k0
    BY <1>8, <2>1
  <2>2. CASE k \in 1..(pushed - n)
    BY <1>1, <1>2, <1>8, <2>2
  <2> QED BY <1>7, <2>1, <2>2
<1>10. ASSUME NEW v \in Workers, wpc'[v] = "running"
       PROVE  /\ cur'[v] \notin done' /\ cur'[v] \in 1..k0
              /\ \A u \in Workers \ {v} : wpc'[u] = "running" => cur'[u] # cur'[v]
  <2>1. CASE v = w
    BY <1>1, <1>2, <1>7, <1>8, <2>1
  <2>2. CASE v # w
    <3>1. cur'[v] = cur[v] /\ wpc[v] = "running"
      BY <1>8, <1>10, <2>2
    <3>2. cur[v] \notin done /\ cur[v] \in 1..(pushed - n)
      BY <1>1, <3>1
    <3>3. ASSUME NEW u \in Workers \ {v}, wpc'[u] = "running" PROVE cur'[u] # cur'[v]
      <4>1. CASE u = w
        BY <1>7, <1>8, <3>1, <3>2, <4>1
      <4>2. CASE u # w
        BY <1>1, <1>8, <3>1, <3>3, <4>2
      <4> QED BY <4>1, <4>2
    <3> QED BY <1>2, <1>7, <3>1, <3>2, <3>3
  <2> QED BY <2>1, <2>2
<1> QED BY <1>5, <1>6, <1>9, <1>10 DEF TaskInOnePlace

\* A task that was run is done.
LEMMA RunPlaces ==
    ASSUME Inv, NEW w \in Workers, RunTask(w)
    PROVE  TaskInOnePlace'
<1>0. /\ cur \in [Workers -> Nat] /\ TaskInOnePlace
      /\ wpc \in [Workers -> {"unborn", "loop", "pop", "blocking", "waiting",
                              "running", "exited"}]
  BY DEF Inv, TypeOK
<1>1. /\ wpc[w] = "running" /\ done' = done \cup {cur[w]}
      /\ cur' = [cur EXCEPT ![w] = 0] /\ wpc' = [wpc EXCEPT ![w] = "loop"]
      /\ m_que' = m_que /\ pushed' = pushed
  BY DEF RunTask, queueVars
<1>2. /\ \A v \in Workers : v # w => cur'[v] = cur[v] /\ wpc'[v] = wpc[v]
      /\ wpc'[w] # "running"
  BY <1>0, <1>1
<1>3. \A k \in 1..(pushed' - Len(m_que')) :
         k \in done' \/ \E v \in Workers : wpc'[v] = "running" /\ cur'[v] = k
  BY <1>0, <1>1, <1>2 DEF TaskInOnePlace
<1>4. \A v \in Workers : wpc'[v] = "running" =>
         /\ cur'[v] \notin done'
         /\ \A i \in DOMAIN m_que' : m_que'[i] # cur'[v]
         /\ \A u \in Workers \ {v} : wpc'[u] = "running" => cur'[u] # cur'[v]
  BY <1>0, <1>1, <1>2 DEF TaskInOnePlace
<1> QED BY <1>0, <1>1, <1>3, <1>4 DEF TaskInOnePlace

\* Every step.
LEMMA NextPlaces == ASSUME Inv, [Next]_vars PROVE TaskInOnePlace'
<1>0. /\ TypeOK
      /\ wpc \in [Workers -> {"unborn", "loop", "pop", "blocking", "waiting",
                              "running", "exited"}]
  BY DEF Inv, TypeOK
<1>1. CASE UNCHANGED vars
  BY <1>1, PlacesStay DEF vars
<1>2. ASSUME NEW p \in Producers, Push(p) \/ SpuriousProducer(p) PROVE TaskInOnePlace'
  <2>1. CASE Push(p) /\ PushDone(p)
    BY <2>1, PushPlaces
  <2>2. CASE (Push(p) /\ PushWait(p)) \/ SpuriousProducer(p)
    BY <2>2, PlacesStay DEF Push, PushWait, SpuriousProducer, mainVars, queueVars
  <2> QED BY <1>2, <2>1, <2>2 DEF Push
<1>3. ASSUME NEW w \in Workers, WorkerStep(w) \/ SpuriousWorker(w) PROVE TaskInOnePlace'
  <2>1. CASE Pop(w) /\ PopTask(w)
    BY <2>1, PopPlaces
  <2>2. CASE RunTask(w)
    BY <2>2, RunPlaces
  <2>3. CASE LoopTest(w) \/ PopSleep(w) \/ SpuriousWorker(w)
             \/ (Pop(w) /\ (PopBlock(w) \/ PopNull(w)))
    <3>1. UNCHANGED <<m_que, pushed, done, cur>>
      BY <2>3 DEF LoopTest, PopSleep, SpuriousWorker, Pop, PopBlock, PopNull, queueVars
    <3>2. /\ wpc[w] # "running"
          /\ \E x \in {"loop", "exited", "pop", "blocking", "waiting"} :
                wpc' = [wpc EXCEPT ![w] = x]
      BY <2>3 DEF LoopTest, PopSleep, SpuriousWorker, Pop, PopBlock, PopNull
    <3>3. \A v \in Workers : (wpc'[v] = "running") <=> (wpc[v] = "running")
      BY <1>0, <3>2
    <3> QED BY <3>1, <3>3, PlacesStay
  <2> QED BY <1>3, <2>1, <2>2, <2>3 DEF WorkerStep, Pop
<1>4. CASE Start
  <2>1. at \in Workers /\ wpc[at] = "unborn"
    BY <1>4, Sizes DEF Start, Inv, ThreadInv, TypeOK
  <2>2. UNCHANGED <<m_que, pushed, done, cur>> /\ wpc' = [wpc EXCEPT ![at] = "loop"]
    BY <1>4 DEF Start, queueVars
  <2>3. \A v \in Workers : (wpc'[v] = "running") <=> (wpc[v] = "running")
    BY <1>0, <2>1, <2>2
  <2> QED BY <2>2, <2>3, PlacesStay
<1>5. CASE StopCall \/ StopStep
  <2>1. /\ UNCHANGED <<m_que, pushed, done, cur>>
        /\ \A v \in Workers : (wpc'[v] = "running") <=> (wpc[v] = "running")
    BY <1>0, <1>5 DEF StopCall, StopStep, StopDrained, StopSetExit, StopClearFlag,
                      StopNotifyAll, StopJoin, queueVars
  <2> QED BY <2>1, PlacesStay
<1> QED BY <1>1, <1>2, <1>3, <1>4, <1>5 DEF Next

-----------------------------------------------------------------------------
(* Wake-ups *)

\* A finite set with an element more, and with an element less.
LEMMA OneMore ==
    ASSUME NEW S, IsFiniteSet(S), NEW x, x \notin S
    PROVE  Cardinality(S \cup {x}) = Cardinality(S) + 1
BY FS_AddElement

LEMMA OneLess ==
    ASSUME NEW S, IsFiniteSet(S), NEW x \in S
    PROVE  Cardinality(S \ {x}) = Cardinality(S) - 1
BY FS_RemoveElement

\* The sets the invariant counts, and how a bigger set counts for more.
LEMMA CountedSets ==
    /\ \A S \in SUBSET Workers : IsFiniteSet(S) /\ Cardinality(S) \in Nat
    /\ \A S \in SUBSET Producers : IsFiniteSet(S) /\ Cardinality(S) \in Nat
    /\ \A S, T \in SUBSET Workers : S \subseteq T => Cardinality(S) <= Cardinality(T)
    /\ \A S, T \in SUBSET Producers : S \subseteq T => Cardinality(S) <= Cardinality(T)
<1>1. IsFiniteSet(Workers) /\ IsFiniteSet(Producers)
  BY FS_Interval, PoolAssumption DEF Workers
<1> QED BY <1>1, FS_Subset, FS_CardinalityType

\* Steps that add no task and take no worker off its way to the queue.
LEMMA WorkersStayAwake ==
    ASSUME Inv, m_que' = m_que, m_flag' => m_flag,
           NotEmptyWaiters' \subseteq NotEmptyWaiters, Popping \subseteq Popping',
           Popping' \subseteq Workers
    PROVE  WorkersAwake'
<1>1. Popping \subseteq Workers /\ Len(m_que) \in Nat
  BY DEF Popping, Inv, TypeOK
<1>2. /\ Cardinality(Popping) \in Nat /\ Cardinality(Popping') \in Nat
      /\ Cardinality(Popping) <= Cardinality(Popping')
  BY <1>1, CountedSets
<1> QED BY <1>1, <1>2 DEF Inv, NoLostWakeup, WorkersAwake

\* Steps that free no place and take no producer off its way to the queue.
LEMMA ProducersStayAwake ==
    ASSUME Inv, m_que' = m_que,
           NotFullWaiters' \subseteq NotFullWaiters, Pushing \subseteq Pushing',
           Pushing' \subseteq Producers
    PROVE  ProducersAwake'
<1>1. Pushing \subseteq Producers /\ Len(m_que) \in Nat /\ QueSize \in Nat
  BY Sizes DEF Pushing, Inv, TypeOK
<1>2. /\ Cardinality(Pushing) \in Nat /\ Cardinality(Pushing') \in Nat
      /\ Cardinality(Pushing) <= Cardinality(Pushing')
  BY <1>1, CountedSets
<1> QED BY <1>1, <1>2 DEF Inv, NoLostWakeup, ProducersAwake

\* addTask: the place it takes and the worker it wakes.
LEMMA PushWakes ==
    ASSUME Inv, NEW p \in Producers, Push(p)
    PROVE  WorkersAwake' /\ ProducersAwake'
<1> USE Sizes
<1>0. /\ TypeOK /\ m_que \in Seq(Nat) /\ Len(m_que) \in Nat /\ pushed + 1 \in Nat
      /\ m_flag' = m_flag /\ ppc[p] = "push" /\ WorkersAwake /\ ProducersAwake
      /\ wpc \in [Workers -> {"unborn", "loop", "pop", "blocking", "waiting",
                              "running", "exited"}]
      /\ ppc \in [Producers -> {"push", "waiting", "finished"}]
  BY DEF Inv, TypeOK, NoLostWakeup, Push, mainVars
<1>c. /\ Popping \in SUBSET Workers /\ Pushing \in SUBSET Producers
      /\ Pushing' \in SUBSET Producers
      /\ Cardinality(Popping) \in Nat /\ Cardinality(Pushing) \in Nat
      /\ Cardinality(Pushing') \in Nat
      /\ IsFiniteSet(Popping) /\ IsFiniteSet(Pushing)
  BY CountedSets DEF Popping, Pushing
<1>1. CASE PushWait(p)
  <2>1. m_que' = m_que /\ wpc' = wpc /\ Len(m_que) = QueSize
    BY <1>1 DEF PushWait, queueVars
  <2>2. WorkersAwake'
    BY <1>0, <2>1 DEF WorkersAwake, NotEmptyWaiters, Popping
  <2>3. ProducersAwake'
    BY <1>0, <1>c, <2>1 DEF ProducersAwake
  <2> QED BY <2>2, <2>3
<1>2. CASE PushDone(p)
  <2>1. Len(m_que') = Len(m_que) + 1
    BY <1>0, <1>2, Pushed DEF PushDone
  <2>2. WorkersAwake'
    <3>1. CASE NotEmptyWaiters = {} /\ UNCHANGED wpc
      <4>1. NotEmptyWaiters' = {}
        BY <3>1 DEF NotEmptyWaiters
      <4> QED BY <4>1 DEF WorkersAwake
    <3>2. ASSUME NEW w \in NotEmptyWaiters, wpc' = [wpc EXCEPT ![w] = "pop"]
          PROVE  WorkersAwake'
      <4>1. w \in Workers /\ wpc[w] = "waiting"
        BY DEF NotEmptyWaiters
      <4>2. Popping' = Popping \cup {w} /\ w \notin Popping
        BY <1>0, <3>2, <4>1 DEF Popping
      <4>3. Cardinality(Popping') = Cardinality(Popping) + 1
        BY <1>c, <4>2, OneMore
      <4> QED BY <1>0, <1>c, <2>1, <4>3 DEF WorkersAwake
    <3> QED BY <1>2, <3>1, <3>2 DEF PushDone, NotifyNotEmpty
  <2>3. ProducersAwake'
    <3>1. NotFullWaiters' = NotFullWaiters
      BY <1>0, <1>2 DEF PushDone, NotFullWaiters
    <3>2. Pushing' = Pushing \/ (Pushing' = Pushing \ {p} /\ p \in Pushing)
      BY <1>0, <1>2 DEF PushDone, Pushing
    <3>3. Cardinality(Pushing') >= Cardinality(Pushing) - 1
      <4>1. CASE Pushing' = Pushing
        BY <1>c, <4>1
      <4>2. CASE Pushing' = Pushing \ {p} /\ p \in Pushing
        <5>1. Cardinality(Pushing') = Cardinality(Pushing) - 1
          BY <1>c, <4>2, OneLess
        <5> QED BY <1>c, <5>1
      <4> QED BY <3>2, <4>1, <4>2
    <3> QED BY <1>0, <1>c, <2>1, <3>1, <3>3 DEF ProducersAwake
  <2> QED BY <2>2, <2>3
<1> QED BY <1>1, <1>2 DEF Push

\* A pop: the place it frees and the producer it wakes.
LEMMA PopWakes ==
    ASSUME Inv, NEW w \in Workers, Pop(w), PopTask(w)
    PROVE  WorkersAwake' /\ ProducersAwake'
<1> USE Sizes
<1>0. /\ TypeOK /\ Len(m_que) \in Nat /\ WorkersAwake /\ ProducersAwake
      /\ m_flag' = m_flag /\ wpc[w] = "pop" /\ wpc' = [wpc EXCEPT ![w] = "running"]
      /\ wpc \in [Workers -> {"unborn", "loop", "pop", "blocking", "waiting",
                              "running", "exited"}]
      /\ ppc \in [Producers -> {"push", "waiting", "finished"}]
  BY DEF Inv, TypeOK, NoLostWakeup, Pop, PopTask, mainVars
<1>c. /\ Popping \in SUBSET Workers /\ Pushing \in SUBSET Producers
      /\ Cardinality(Popping) \in Nat /\ Cardinality(Pushing) \in Nat
      /\ IsFiniteSet(Popping) /\ IsFiniteSet(Pushing)
  BY CountedSets DEF Popping, Pushing
<1>1. Len(m_que') = Len(m_que) - 1
  BY <1>0, Popped DEF PopTask
<1>2. WorkersAwake'
  <2>1. NotEmptyWaiters' = NotEmptyWaiters /\ Popping' = Popping \ {w} /\ w \in Popping
    BY <1>0 DEF NotEmptyWaiters, Popping
  <2>2. Cardinality(Popping') = Cardinality(Popping) - 1
    BY <1>c, <2>1, OneLess
  <2> QED BY <1>0, <1>c, <1>1, <2>1, <2>2 DEF WorkersAwake
<1>3. ProducersAwake'
  <2>1. CASE NotFullWaiters = {} /\ UNCHANGED ppc
    <3>1. NotFullWaiters' = {}
      BY <2>1 DEF NotFullWaiters
    <3> QED BY <3>1 DEF ProducersAwake
  <2>2. ASSUME NEW p \in NotFullWaiters, ppc' = [ppc EXCEPT ![p] = "push"]
        PROVE  ProducersAwake'
    <3>1. p \in Producers /\ ppc[p] = "waiting"
      BY DEF NotFullWaiters
    <3>2. Pushing' = Pushing \cup {p} /\ p \notin Pushing
      BY <1>0, <2>2, <3>1 DEF Pushing
    <3>3. Cardinality(Pushing') = Cardinality(Pushing) + 1
      BY <1>c, <3>2, OneMore
    <3> QED BY <1>0, <1>c, <1>1, <3>3 DEF ProducersAwake
  <2> QED BY <2>1, <2>2 DEF PopTask, NotifyNotFull
<1> QED BY <1>2, <1>3

\* Every step.
LEMMA NextWakes == ASSUME Inv, [Next]_vars PROVE NoLostWakeup'
<1>0. /\ Len(m_que) \in Nat /\ at \in Workers
      /\ wpc \in [Workers -> {"unborn", "loop", "pop", "blocking", "waiting",
                              "running", "exited"}]
      /\ ppc \in [Producers -> {"push", "waiting", "finished"}]
  BY DEF Inv, TypeOK
<1>c. Popping' \in SUBSET Workers /\ Pushing' \in SUBSET Producers
      /\ Cardinality(Popping') \in Nat
  BY CountedSets DEF Popping, Pushing
<1>1. ASSUME m_que' = m_que, ppc' = ppc PROVE ProducersAwake'
  BY <1>1 DEF Inv, NoLostWakeup, ProducersAwake, NotFullWaiters, Pushing
<1>2. ASSUME m_que' = m_que, wpc' = wpc, m_flag' => m_flag PROVE WorkersAwake'
  BY <1>2 DEF Inv, NoLostWakeup, WorkersAwake, NotEmptyWaiters, Popping
<1>3. CASE UNCHANGED vars
  BY <1>1, <1>2, <1>3 DEF vars, NoLostWakeup
<1>4. ASSUME NEW p \in Producers, SpuriousProducer(p) PROVE NoLostWakeup'
  <2>1. NotFullWaiters' \subseteq NotFullWaiters /\ Pushing \subseteq Pushing'
    BY <1>0, <1>4 DEF SpuriousProducer, NotFullWaiters, Pushing
  <2>2. m_que' = m_que /\ wpc' = wpc /\ m_flag' = m_flag
    BY <1>4 DEF SpuriousProducer, queueVars, mainVars
  <2> QED BY <1>2, <1>c, <2>1, <2>2, ProducersStayAwake DEF NoLostWakeup
<1>5. ASSUME NEW w \in Workers, Pop(w) /\ (PopBlock(w) \/ PopNull(w)) PROVE NoLostWakeup'
  <2>1. m_que' = m_que /\ ppc' = ppc /\ m_flag' = m_flag /\ (m_que = << >> \/ ~m_flag)
    BY <1>5 DEF Pop, PopBlock, PopNull, mainVars
  <2>2. WorkersAwake'
    <3>1. CASE m_que = << >>
      <4>1. Len(m_que') = 0
        BY <2>1, <3>1
      <4> QED BY <1>c, <4>1 DEF WorkersAwake
    <3> QED BY <2>1, <3>1 DEF WorkersAwake
  <2> QED BY <1>1, <2>1, <2>2 DEF NoLostWakeup
<1>6. ASSUME NEW w \in Workers, PopSleep(w) PROVE NoLostWakeup'
  <2>1. m_que' = m_que /\ ppc' = ppc
    BY <1>6 DEF PopSleep, queueVars
  <2>2. Len(m_que') = 0
    BY <1>6, <2>1 DEF Inv, MutexInv, PopSleep
  <2>3. WorkersAwake'
    BY <1>c, <2>2 DEF WorkersAwake
  <2> QED BY <1>1, <2>1, <2>3 DEF NoLostWakeup
<1>7. ASSUME NEW w \in Workers, LoopTest(w) \/ RunTask(w) \/ SpuriousWorker(w)
      PROVE  NoLostWakeup'
  <2>1. m_que' = m_que /\ ppc' = ppc /\ m_flag' = m_flag
    BY <1>7 DEF LoopTest, RunTask, SpuriousWorker, queueVars, mainVars
  <2>2. NotEmptyWaiters' \subseteq NotEmptyWaiters /\ Popping \subseteq Popping'
    BY <1>0, <1>7 DEF LoopTest, RunTask, SpuriousWorker, NotEmptyWaiters, Popping
  <2> QED BY <1>1, <1>c, <2>1, <2>2, WorkersStayAwake DEF NoLostWakeup
<1>8. CASE Start
  <2>1. m_que' = m_que /\ ppc' = ppc /\ m_flag' = m_flag /\ wpc[at] = "unborn"
        /\ wpc' = [wpc EXCEPT ![at] = "loop"]
    BY <1>0, <1>8, Sizes DEF Start, queueVars, Inv, ThreadInv
  <2>2. NotEmptyWaiters' \subseteq NotEmptyWaiters /\ Popping \subseteq Popping'
    BY <1>0, <2>1 DEF NotEmptyWaiters, Popping
  <2> QED BY <1>1, <1>c, <2>1, <2>2, WorkersStayAwake DEF NoLostWakeup
<1>9. CASE StopCall \/ StopStep
  <2>1. m_que' = m_que /\ ppc' = ppc /\ (m_flag' = m_flag \/ m_flag' = FALSE)
    BY <1>9 DEF StopCall, StopStep, StopDrained, StopSetExit, StopClearFlag,
                StopNotifyAll, StopJoin, queueVars
  <2>2. NotEmptyWaiters' \subseteq NotEmptyWaiters /\ Popping \subseteq Popping'
    BY <1>0, <1>9 DEF StopCall, StopStep, StopDrained, StopSetExit, StopClearFlag,
                StopNotifyAll, StopJoin, NotEmptyWaiters, Popping
  <2> QED BY <1>1, <1>c, <2>1, <2>2, WorkersStayAwake DEF NoLostWakeup
<1> QED BY <1>3, <1>4, <1>5, <1>6, <1>7, <1>8, <1>9, PushWakes, PopWakes
        DEF Next, WorkerStep, Pop, NoLostWakeup

-----------------------------------------------------------------------------
(* What the pool promises *)

LEMMA NextInv == ASSUME Inv, [Next]_vars PROVE Inv'
BY NextControl, NextPlaces, NextWakes DEF Inv, Control

\* Everything above holds whatever the threads of the pool and its callers do, in
\* whatever order.
THEOREM Invariance == Spec => []Inv
<1>1. Init => Inv
  BY InitInv
<1>2. Inv /\ [Next]_vars => Inv'
  BY NextInv
<1> QED BY <1>1, <1>2, PTL DEF Spec

\* Types, and push never puts more than m_queSize tasks in the queue.
THEOREM TypeCorrect == Spec => []TypeOK
<1>1. Inv => TypeOK
  BY DEF Inv
<1> QED BY <1>1, Invariance, PTL

\* push and pop lose no task, copy none and hand none to two workers, and the
\* queue is in the order of the pushes.
THEOREM EveryTaskInOnePlace == Spec => []TaskInOnePlace
<1>1. Inv => TaskInOnePlace
  BY DEF Inv
<1> QED BY <1>1, Invariance, PTL

\* One notify_one for each push and each pop is enough: nobody sleeps over a task,
\* or over a free place, that no other thread is on its way to.
THEOREM WakeupsSuffice == Spec => []NoLostWakeup
<1>1. Inv => NoLostWakeup
  BY DEF Inv
<1> QED BY <1>1, Invariance, PTL

\* stop, called after the last addTask has returned, returns when every task was
\* run to its end: it waits for the queue to run empty, and joins the workers that
\* have the last tasks in their hands.
THEOREM StopRunsAll == Spec => []StopDrains
<1>1. ASSUME Inv PROVE StopDrains
  <2> SUFFICES ASSUME mpc = "stopped", quiet PROVE done = 1..pushed
    BY DEF StopDrains
  <2> USE <1>1
  <2>1. m_que = << >> /\ \A w \in Workers : wpc[w] = "exited"
    BY DEF Inv, QuietInv, ThreadInv
  <2>2. Len(m_que) = 0 /\ pushed \in Nat /\ pushed - 0 = pushed
    BY <2>1 DEF Inv, TypeOK
  <2>3. \A k \in 1..pushed : k \in done
    BY <2>1, <2>2 DEF Inv, TaskInOnePlace
  <2>4. done \subseteq 1..pushed
    BY DEF Inv, TypeOK
  <2> QED BY <2>3, <2>4
<1> QED BY <1>1, Invariance, PTL
=============================================================================

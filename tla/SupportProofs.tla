--------------------------- MODULE SupportProofs ---------------------------
(***************************************************************************)
(* Proofs about four components of new_ProcessPool.                        *)
(*                                                                         *)
(* EventfdSync, for any number of threads, any counter limit and any       *)
(* number of queries: the blocking mode of a mutex is restored however     *)
(* validations overlap, a mutex has at most one owner although queries     *)
(* take its unit out of the descriptor and put it back, and every unit     *)
(* that was put in is accounted for.                                       *)
(*                                                                         *)
(* PoolManager, for any number of callers, slots, children and event loop  *)
(* threads: active_workers counts the live workers of a running pool, and  *)
(* pool_stop leaves nothing running but the children that were lost, with  *)
(* the worker functions run step by step on slots that the event loop      *)
(* works on without the mutex.                                             *)
(*                                                                         *)
(* EventLoop, for every number of workers and of threads that stop the     *)
(* loop, and every queue capacity: Inv is inductive, and from it follow    *)
(* the exact count of announced tasks and the order of a restart.          *)
(*                                                                         *)
(* Metrics, for any number of threads, trackers, values and boundaries:    *)
(* trackers are exact and the histogram's total is never ahead of its      *)
(* buckets, unless a reset overlapped a recording.                         *)
(***************************************************************************)
EXTENDS EventLoop, EventfdSync, PoolManager, Metrics, FiniteSetTheorems,
        WellFoundedInduction, TLAPS

-----------------------------------------------------------------------------
(* EventfdSync                                                             *)

PcStates == {"idle", "locking", "acquired", "write", "received", "drain",
             "drained", "probing", "vset", "vread", "vasleep", "vwrite",
             "vrestore"}

(* t is in eventfd_validate and has found the descriptor blocking. *)
InValidation == {"vread", "vasleep", "vwrite", "vrestore"}
Validating(t) == was[t] /\ tpc[t] \in InValidation

ModeInv ==
    /\ nonblock \in BOOLEAN
    /\ tpc \in [Threads -> PcStates]
    /\ was \in [Threads -> BOOLEAN]
    /\ \A t \in Threads : was[t] => kind = "mutex"
    /\ \A t \in Threads : tpc[t] = "vset" => was[t]
    /\ ModeRestored

(* A step that leaves the mode and was_blocking alone leaves the other     *)
(* threads' validations alone, and its own up to its end.                  *)
LEMMA QuietStep ==
    ASSUME ModeInv, NEW t \in Threads, NEW p \in PcStates,
           tpc' = [tpc EXCEPT ![t] = p],
           tpc[t] \in InValidation => p \in InValidation,
           p # "vset",
           UNCHANGED <<kind, nonblock, was>>
    PROVE  ModeInv'
<1>1. \A u \in Threads : Validating(u) => Validating(u)'
  BY DEF Validating, ModeInv
<1>2. ModeRestored'
  BY <1>1 DEF ModeInv, ModeRestored, Validating, InValidation
<1> QED
  BY <1>2 DEF ModeInv

(* A read of the descriptor is such a step if its three ways on are. *)
LEMMA QuietRead ==
    ASSUME ModeInv, NEW t \in Threads,
           NEW asleep \in PcStates, NEW got \in PcStates, NEW again \in PcStates,
           Read(t, asleep, got, again),
           tpc[t] \in InValidation => {asleep, got, again} \subseteq InValidation,
           "vset" \notin {asleep, got, again},
           UNCHANGED <<kind, nonblock, was>>
    PROVE  ModeInv'
<1>1. PICK p \in {asleep, got, again} : tpc' = [tpc EXCEPT ![t] = p]
  BY DEF Read
<1> QED
  BY <1>1, QuietStep

LEMMA ModeInit == EventfdInit => ModeInv
  BY DEF EventfdInit, ModeInv, ModeRestored, PcStates

LEMMA ModeNext == ModeInv /\ [EventfdNext]_eventfdVars => ModeInv'
<1> SUFFICES ASSUME ModeInv, [EventfdNext]_eventfdVars PROVE ModeInv'
  OBVIOUS
<1> USE DEF InValidation, PcStates
<1>1. CASE UNCHANGED eventfdVars
  BY <1>1 DEF ModeInv, ModeRestored, eventfdVars
<1>2. CASE ResetCounter
  BY <1>2 DEF ModeInv, ModeRestored, ResetCounter
<1>3. ASSUME NEW t \in Threads, Step(t) PROVE ModeInv'
  <2>1. CASE Acquire(t)
    BY <2>1, QuietRead DEF Acquire
  <2>2. CASE Acquired(t)
    BY <2>2, QuietStep DEF Acquired
  <2>3. CASE Release(t)
    BY <2>3, QuietStep DEF Release
  <2>4. CASE Notify(t)
    BY <2>4, QuietStep DEF Notify
  <2>5. CASE WriteStep(t)
    BY <2>5, QuietStep DEF WriteStep, Write
  <2>6. CASE NotifierWait(t)
    <3>1. PICK l \in {"received", "drained"} : Read(t, "idle", l, "idle")
      BY <2>6 DEF NotifierWait
    <3>2. tpc[t] \in {"idle", "drain"} /\ UNCHANGED <<kind, nonblock, was>>
      BY <2>6 DEF NotifierWait
    <3> QED
      BY <3>1, <3>2, QuietRead
  <2>7. CASE Received(t)
    <3>1. PICK p \in {"drain", "idle"} : tpc' = [tpc EXCEPT ![t] = p]
      BY <2>7 DEF Received
    <3>2. tpc[t] \in {"received", "drained"} /\ UNCHANGED <<kind, nonblock, was>>
      BY <2>7 DEF Received
    <3> QED
      BY <3>1, <3>2, QuietStep
  <2>8. CASE Probe(t)
    BY <2>8, QuietRead DEF Probe
  <2>9. CASE Validate(t)
    <3>1. tpc[t] = "idle" /\ UNCHANGED <<kind, nonblock>>
      BY <2>9 DEF Validate
    <3>2. was' = [was EXCEPT ![t] = ~nonblock]
      BY <2>9 DEF Validate
    <3>3. PICK p \in {"vread", "vset"} : tpc' = [tpc EXCEPT ![t] = p]
      BY <2>9 DEF Validate
    <3>4. \A u \in Threads : Validating(u) => Validating(u)'
      BY <3>1, <3>2, <3>3 DEF Validating, ModeInv
    <3>5. was' \in [Threads -> BOOLEAN] /\ tpc' \in [Threads -> PcStates]
      BY <3>2, <3>3 DEF ModeInv
    <3>6. \A u \in Threads : was'[u] => kind' = "mutex"
      BY <3>1, <3>2 DEF ModeInv, ModeRestored
    <3>7. \A u \in Threads : tpc'[u] = "vset" => was'[u]
      BY <2>9, <3>2 DEF ModeInv, Validate
    <3>8. ModeRestored'
      BY <3>1, <3>4 DEF ModeInv, ModeRestored, Validating
    <3> QED
      BY <3>1, <3>5, <3>6, <3>7, <3>8 DEF ModeInv
  <2>10. CASE ValidateSet(t)
    <3>1. tpc[t] = "vset" /\ nonblock' = TRUE /\ UNCHANGED <<kind, was>>
      BY <2>10 DEF ValidateSet
    <3>2. tpc' = [tpc EXCEPT ![t] = "vread"]
      BY <2>10 DEF ValidateSet
    <3>3. was[t]
      BY <3>1 DEF ModeInv
    <3>4. tpc' \in [Threads -> PcStates] /\ tpc'[t] = "vread" /\ was'[t]
      BY <3>1, <3>2, <3>3 DEF ModeInv
    <3>5. \A u \in Threads : tpc'[u] = "vset" => was'[u]
      BY <3>1, <3>2, <3>3 DEF ModeInv
    <3>6. ModeRestored'
      BY <3>1, <3>4 DEF ModeInv, ModeRestored
    <3> QED
      BY <3>1, <3>4, <3>5, <3>6 DEF ModeInv
  <2>11. CASE ValidateRead(t)
    BY <2>11, QuietRead DEF ValidateRead
  <2>12. CASE ValidateWrite(t)
    BY <2>12, QuietStep DEF ValidateWrite, Write
  <2>13. CASE ValidateRestore(t)
    <3>1. /\ tpc' = [tpc EXCEPT ![t] = "idle"]
          /\ was' = [was EXCEPT ![t] = FALSE]
          /\ nonblock' = IF was[t] THEN FALSE ELSE nonblock
          /\ kind' = kind
      BY <2>13 DEF ValidateRestore
    <3>2. \A u \in Threads \ {t} : Validating(u) => Validating(u)'
      BY <3>1 DEF Validating, ModeInv
    <3>3. tpc' \in [Threads -> PcStates] /\ was' \in [Threads -> BOOLEAN]
      BY <3>1 DEF ModeInv
    <3>4. /\ \A u \in Threads : was'[u] => kind' = "mutex"
          /\ \A u \in Threads : tpc'[u] = "vset" => was'[u]
      BY <3>1 DEF ModeInv
    <3>5. CASE was[t]
      BY <3>1, <3>3, <3>4, <3>5 DEF ModeInv, ModeRestored
    <3>6. CASE ~was[t]
      <4>1. nonblock' = nonblock /\ kind' = kind
        BY <3>1, <3>6
      <4>2. \A u \in Threads : Validating(u) => Validating(u)'
        BY <3>2, <3>6 DEF Validating
      <4>3. ModeRestored'
        BY <4>1, <4>2 DEF ModeInv, ModeRestored, Validating
      <4> QED
        BY <3>3, <3>4, <4>1, <4>3 DEF ModeInv
    <3> QED
      BY <3>5, <3>6
  <2> QED
    BY <1>3, <2>1, <2>2, <2>3, <2>4, <2>5, <2>6, <2>7, <2>8, <2>9, <2>10, <2>11,
       <2>12, <2>13 DEF Step
<1> QED
  BY <1>1, <1>2, <1>3 DEF EventfdNext

(* eventfd_validate leaves the mode as it found it: the descriptor of a    *)
(* mutex is non-blocking only while a validation that saw it blocking runs. *)
THEOREM ModeRestoredThm == EventfdSpec => []ModeRestored
<1>1. ModeInv => ModeRestored
  BY DEF ModeInv
<1> QED
  BY <1>1, ModeInit, ModeNext, PTL DEF EventfdSpec

-----------------------------------------------------------------------------
(* Where the one unit of a mutex is: in the descriptor, or with one thread *)
(* that owns the mutex or is in the middle of a query.                     *)
Free(t) == held[t] = 0 /\ val[t] = 0
UnitIn(t) == held[t] + val[t] = 1 /\ \A u \in Threads \ {t} : Free(u)
OneUnit ==
    \/ counter = 1 /\ \A t \in Threads : Free(t)
    \/ counter = 0 /\ \E t \in Threads : UnitIn(t)

UnitTypes ==
    /\ counter \in Nat /\ lost \in Nat /\ added \in Nat
    /\ tpc \in [Threads -> PcStates]
    /\ val \in [Threads -> Nat] /\ held \in [Threads -> Nat]

MutexInv ==
    /\ lost = 0
    /\ \A t \in Threads : tpc[t] = "acquired" => val[t] = 1
    /\ \A t \in Threads : tpc[t] \notin {"received", "drained", "drain"}
    /\ OneUnit

UnitInv == UnitTypes /\ (kind = "mutex" => MutexInv)

LEMMA UnitInit == EventfdInit => UnitInv
<1> SUFFICES ASSUME EventfdInit PROVE UnitInv
  OBVIOUS
<1>1. UnitTypes
  BY EventfdAssumption DEF EventfdInit, UnitTypes, PcStates
<1>2. kind = "mutex" => MutexInv
  BY DEF EventfdInit, MutexInv, OneUnit, Free
<1> QED
  BY <1>1, <1>2 DEF UnitInv

(* A step of t that changes neither the counter nor what any thread has.   *)
LEMMA UnitStay ==
    ASSUME UnitInv, NEW t \in Threads, NEW p \in PcStates,
           tpc' = [tpc EXCEPT ![t] = p],
           kind = "mutex" => p \notin {"acquired", "received", "drained", "drain"},
           UNCHANGED <<kind, counter, val, held, lost, added>>
    PROVE  UnitInv'
<1>1. UnitTypes'
  BY DEF UnitInv, UnitTypes
<1>2. ASSUME kind = "mutex" PROVE MutexInv'
  <2>1. OneUnit'
    BY <1>2 DEF UnitInv, MutexInv, OneUnit, UnitIn, Free
  <2>2. \A u \in Threads : tpc'[u] = "acquired" => val'[u] = 1
    BY <1>2 DEF UnitInv, UnitTypes, MutexInv
  <2>3. \A u \in Threads : tpc'[u] \notin {"received", "drained", "drain"}
    BY <1>2 DEF UnitInv, UnitTypes, MutexInv
  <2> QED
    BY <1>2, <2>1, <2>2, <2>3 DEF UnitInv, MutexInv
<1> QED
  BY <1>1, <1>2 DEF UnitInv

(* eventfd_read_value takes the unit of a mutex out of the descriptor. *)
LEMMA UnitRead ==
    ASSUME UnitInv, NEW t \in Threads,
           NEW asleep \in PcStates, NEW got \in PcStates, NEW again \in PcStates,
           Read(t, asleep, got, again),
           kind = "mutex" =>
               /\ got \notin {"received", "drained", "drain"}
               /\ {asleep, again} \cap {"acquired", "received", "drained", "drain"} = {},
           UNCHANGED <<kind, held, lost, added>>
    PROVE  UnitInv'
<1>1. CASE counter = 0
  <2>1. PICK p \in {asleep, again} : tpc' = [tpc EXCEPT ![t] = p]
    BY <1>1 DEF Read, UnitInv, UnitTypes
  <2>2. UNCHANGED <<counter, val>>
    BY <1>1 DEF Read, UnitInv, UnitTypes
  <2> QED
    BY <2>1, <2>2, UnitStay
<1>2. CASE counter > 0
  <2>1. /\ counter' = counter - ReadAmount
        /\ val' = [val EXCEPT ![t] = ReadAmount]
        /\ tpc' = [tpc EXCEPT ![t] = got]
    BY <1>2 DEF Read, UnitInv, UnitTypes
  <2>2. ReadAmount \in Nat /\ counter - ReadAmount \in Nat
    BY <1>2 DEF ReadAmount, UnitInv, UnitTypes
  <2>3. UnitTypes'
    BY <2>1, <2>2 DEF UnitInv, UnitTypes
  <2>4. ASSUME kind = "mutex" PROVE MutexInv'
    <3>1. counter = 1 /\ \A u \in Threads : Free(u)
      BY <1>2, <2>4 DEF UnitInv, UnitTypes, MutexInv, OneUnit
    <3>2. counter' = 0 /\ val' = [val EXCEPT ![t] = 1]
      BY <2>1, <2>4, <3>1 DEF ReadAmount
    <3>3. UnitIn(t)'
      BY <3>1, <3>2 DEF UnitIn, Free, UnitInv, UnitTypes
    <3>4. \A u \in Threads : tpc'[u] = "acquired" => val'[u] = 1
      BY <2>1, <2>4, <3>2 DEF UnitInv, UnitTypes, MutexInv
    <3>5. \A u \in Threads : tpc'[u] \notin {"received", "drained", "drain"}
      BY <2>1, <2>4 DEF UnitInv, UnitTypes, MutexInv
    <3> QED
      BY <2>4, <3>2, <3>3, <3>4, <3>5 DEF UnitInv, MutexInv, OneUnit
  <2> QED
    BY <2>3, <2>4 DEF UnitInv
<1> QED
  BY <1>1, <1>2 DEF UnitInv, UnitTypes

(* eventfd_write_value puts it back; a mutex never refuses it. *)
LEMMA UnitWrite ==
    ASSUME UnitInv, NEW t \in Threads, NEW p \in PcStates, Write(t, p),
           p \notin {"acquired", "received", "drained", "drain"},
           UNCHANGED <<kind, held, added>>
    PROVE  UnitInv'
<1>1. tpc' = [tpc EXCEPT ![t] = p] /\ val' = [val EXCEPT ![t] = 0]
  BY DEF Write
<1>2. counter' \in Nat /\ lost' \in Nat
  BY DEF Write, UnitInv, UnitTypes
<1>3. UnitTypes'
  BY <1>1, <1>2 DEF UnitInv, UnitTypes
<1>4. ASSUME kind = "mutex" PROVE MutexInv'
  <2>1. val[t] \in Nat /\ held[t] \in Nat /\ counter \in Nat
    BY DEF UnitInv, UnitTypes
  <2>2. counter + val[t] <= 1
    BY <1>4, <2>1 DEF UnitInv, UnitTypes, MutexInv, OneUnit, UnitIn, Free
  <2>3. counter' = counter + val[t] /\ lost' = lost
    BY <2>1, <2>2, EventfdAssumption DEF Write
  <2>4. OneUnit'
    <3>1. CASE val[t] = 0
      <4>1. val' = val
        BY <1>1, <3>1 DEF UnitInv, UnitTypes
      <4> QED
        BY <1>4, <2>1, <2>3, <3>1, <4>1 DEF UnitInv, MutexInv, OneUnit, UnitIn, Free
    <3>2. CASE val[t] # 0
      <4>1. val[t] = 1 /\ counter = 0
        BY <2>1, <2>2, <3>2
      <4>2. PICK u \in Threads : UnitIn(u)
        BY <1>4, <4>1 DEF UnitInv, MutexInv, OneUnit
      <4>3. u = t
        BY <4>1, <4>2 DEF UnitIn, Free
      <4>4. held[t] = 0
        BY <2>1, <4>1, <4>2, <4>3 DEF UnitIn
      <4>5. \A v \in Threads : Free(v)'
        BY <1>1, <4>2, <4>3, <4>4 DEF UnitIn, Free, UnitInv, UnitTypes
      <4> QED
        BY <2>3, <4>1, <4>5 DEF OneUnit
    <3> QED
      BY <3>1, <3>2
  <2>5. \A u \in Threads : tpc'[u] = "acquired" => val'[u] = 1
    BY <1>1, <1>4 DEF UnitInv, UnitTypes, MutexInv
  <2>6. \A u \in Threads : tpc'[u] \notin {"received", "drained", "drain"}
    BY <1>1, <1>4 DEF UnitInv, UnitTypes, MutexInv
  <2> QED
    BY <1>4, <2>3, <2>4, <2>5, <2>6 DEF UnitInv, MutexInv
<1> QED
  BY <1>3, <1>4 DEF UnitInv

(* Within t, the unit moves between held and val: eventfd_mutex_lock       *)
(* returns with it, eventfd_mutex_unlock is about to write it.             *)
LEMMA UnitMove ==
    ASSUME UnitInv, NEW t \in Threads, NEW p \in PcStates,
           NEW h \in Nat, NEW v \in Nat,
           tpc' = [tpc EXCEPT ![t] = p],
           p \notin {"acquired", "received", "drained", "drain"},
           held' = [held EXCEPT ![t] = h], val' = [val EXCEPT ![t] = v],
           kind = "mutex" => h + v = 1 /\ held[t] + val[t] >= 1,
           UNCHANGED <<kind, counter, lost, added>>
    PROVE  UnitInv'
<1>1. UnitTypes'
  BY DEF UnitInv, UnitTypes
<1>2. ASSUME kind = "mutex" PROVE MutexInv'
  <2>1. counter = 0
    BY <1>2 DEF UnitInv, UnitTypes, MutexInv, OneUnit, Free
  <2>2. PICK u \in Threads : UnitIn(u)
    BY <1>2, <2>1 DEF UnitInv, MutexInv, OneUnit
  <2>3. u = t
    BY <1>2, <2>2 DEF UnitIn, Free
  <2>4. UnitIn(t)'
    BY <1>2, <2>2, <2>3 DEF UnitIn, Free, UnitInv, UnitTypes
  <2>5. \A s \in Threads : tpc'[s] = "acquired" => val'[s] = 1
    BY <1>2 DEF UnitInv, UnitTypes, MutexInv
  <2>6. \A s \in Threads : tpc'[s] \notin {"received", "drained", "drain"}
    BY <1>2 DEF UnitInv, UnitTypes, MutexInv
  <2> QED
    BY <1>2, <2>1, <2>4, <2>5, <2>6 DEF UnitInv, MutexInv, OneUnit
<1> QED
  BY <1>1, <1>2 DEF UnitInv

LEMMA UnitNext == UnitInv /\ [EventfdNext]_eventfdVars => UnitInv'
<1> SUFFICES ASSUME UnitInv, [EventfdNext]_eventfdVars PROVE UnitInv'
  OBVIOUS
<1> USE DEF PcStates
<1>1. CASE UNCHANGED eventfdVars
  BY <1>1 DEF UnitInv, UnitTypes, MutexInv, OneUnit, UnitIn, Free, eventfdVars
<1>2. CASE ResetCounter
  BY <1>2 DEF UnitInv, UnitTypes, MutexInv, OneUnit, UnitIn, Free, ResetCounter
<1>3. ASSUME NEW t \in Threads, Step(t) PROVE UnitInv'
  <2>0. val[t] \in Nat /\ held[t] \in Nat
    BY DEF UnitInv, UnitTypes
  <2>1. CASE Acquire(t)
    BY <2>1, UnitRead DEF Acquire, books
  <2>2. CASE Acquired(t)
    <3>1. /\ tpc' = [tpc EXCEPT ![t] = "idle"]
          /\ held' = [held EXCEPT ![t] = held[t] + 1]
          /\ val' = [val EXCEPT ![t] = 0]
          /\ UNCHANGED <<kind, counter, lost, added>>
      BY <2>2 DEF Acquired
    <3>2. kind = "mutex" => val[t] = 1
      BY <2>2 DEF Acquired, UnitInv, MutexInv
    <3>3. kind = "mutex" => held[t] = 0
      BY <2>0, <3>2 DEF UnitInv, UnitTypes, MutexInv, OneUnit, UnitIn, Free
    <3>4. kind = "mutex" => (held[t] + 1) + 0 = 1 /\ held[t] + val[t] >= 1
      BY <2>0, <3>2, <3>3
    <3>5. held[t] + 1 \in Nat /\ 0 \in Nat
      BY <2>0
    <3> QED
      BY <3>1, <3>4, <3>5, UnitMove
  <2>3. CASE Release(t)
    <3>1. /\ tpc' = [tpc EXCEPT ![t] = "write"]
          /\ held' = [held EXCEPT ![t] = held[t] - 1]
          /\ val' = [val EXCEPT ![t] = 1]
          /\ UNCHANGED <<kind, counter, lost, added>>
      BY <2>3 DEF Release
    <3>2. held[t] > 0 /\ held[t] - 1 \in Nat
      BY <2>0, <2>3 DEF Release
    <3>3. kind = "mutex" => held[t] = 1
      BY <2>0, <3>2 DEF UnitInv, UnitTypes, MutexInv, OneUnit, UnitIn, Free
    <3>4. kind = "mutex" => (held[t] - 1) + 1 = 1 /\ held[t] + val[t] >= 1
      BY <2>0, <3>2, <3>3
    <3>5. 1 \in Nat
      OBVIOUS
    <3> QED
      BY <3>1, <3>2, <3>4, <3>5, UnitMove
  <2>4. CASE Notify(t)
    <3>1. kind # "mutex" /\ kind' = kind
      BY <2>4 DEF Notify
    <3>2. UnitTypes'
      BY <2>4, EventfdAssumption DEF Notify, UnitInv, UnitTypes
    <3> QED
      BY <3>1, <3>2 DEF UnitInv
  <2>5. CASE WriteStep(t)
    BY <2>5, UnitWrite DEF WriteStep
  <2>6. CASE NotifierWait(t)
    <3>1. PICK l \in {"received", "drained"} : Read(t, "idle", l, "idle")
      BY <2>6 DEF NotifierWait
    <3>2. kind # "mutex" /\ UNCHANGED <<kind, held, lost, added>>
      BY <2>6 DEF NotifierWait, books
    <3> QED
      BY <3>1, <3>2, UnitRead
  <2>7. CASE Received(t)
    <3>1. kind # "mutex" /\ kind' = kind
      BY <2>7 DEF Received, UnitInv, MutexInv
    <3>2. UnitTypes'
      BY <2>7 DEF Received, UnitInv, UnitTypes
    <3> QED
      BY <3>1, <3>2 DEF UnitInv
  <2>8. CASE Probe(t)
    BY <2>8, UnitRead DEF Probe, books
  <2>9. CASE Validate(t)
    <3>1. PICK p \in {"vread", "vset"} : tpc' = [tpc EXCEPT ![t] = p]
      BY <2>9 DEF Validate
    <3> QED
      BY <2>9, <3>1, UnitStay DEF Validate, books
  <2>10. CASE ValidateSet(t)
    BY <2>10, UnitStay DEF ValidateSet, books
  <2>11. CASE ValidateRead(t)
    BY <2>11, UnitRead DEF ValidateRead, books
  <2>12. CASE ValidateWrite(t)
    BY <2>12, UnitWrite DEF ValidateWrite
  <2>13. CASE ValidateRestore(t)
    BY <2>13, UnitStay DEF ValidateRestore, books
  <2> QED
    BY <1>3, <2>1, <2>2, <2>3, <2>4, <2>5, <2>6, <2>7, <2>8, <2>9, <2>10, <2>11,
       <2>12, <2>13 DEF Step
<1> QED
  BY <1>1, <1>2, <1>3 DEF EventfdNext

(* Mutual exclusion of the eventfd mutex, with queries and validations     *)
(* going on beside lock and unlock.                                        *)
THEOREM OneOwnerThm == EventfdSpec => []OneOwner
<1>1. UnitInv => OneOwner
  BY DEF UnitInv, UnitTypes, MutexInv, OneUnit, UnitIn, Free, OneOwner
<1> QED
  BY <1>1, UnitInit, UnitNext, PTL DEF EventfdSpec

-----------------------------------------------------------------------------
(* Sums.  An additive function gives every subset of S the sum of f over    *)
(* it; the fold that defines Sum is such a function.                        *)
Additive(g, f, S) ==
    /\ g \in [SUBSET S -> Int] /\ g[{}] = 0
    /\ \A X \in SUBSET S : \A x \in X : g[X] = f[x] + g[X \ {x}]
Folding(h, f, S) ==
    h = [X \in SUBSET S |->
           IF X = {} THEN 0 ELSE LET x == CHOOSE y \in X : TRUE IN f[x] + h[X \ {x}]]
TheFold(f, S) == CHOOSE h : Folding(h, f, S)

LEMMA SumIsFold == ASSUME NEW f PROVE Sum(f) = TheFold(f, DOMAIN f)[DOMAIN f]
  BY DEF Sum, FoldFunction, FoldFunctionOnSet, MapThenFoldSet, TheFold, Folding

LEMMA MapThenSumIsSum ==
    ASSUME NEW f PROVE MapThenSumSet(LAMBDA b : f[b], DOMAIN f) = Sum(f)
<1>1. MapThenSumSet(LAMBDA b : f[b], DOMAIN f) = TheFold(f, DOMAIN f)[DOMAIN f]
  BY DEF MapThenSumSet, MapThenFoldSet, TheFold, Folding
<1> QED
  BY <1>1, SumIsFold

(* A least element, of which the inductions below make use. *)
LEMMA LeastOf ==
    ASSUME NEW S \in SUBSET Nat, S # {}
    PROVE  \E x \in S : \A y \in S : x <= y
<1> DEFINE R == OpToRel(<, Nat)
<1>1. IsWellFoundedOn(R, Nat)
  BY NatLessThanWellFounded
<1>2. \A x, y \in Nat : <<y, x>> \in R <=> y < x
  BY DEF OpToRel
<1> HIDE DEF R
<1>3. PICK x \in S : \A y \in S : ~(<<y, x>> \in R)
  BY <1>1, WFMin
<1>4. \A y \in S : ~(y < x)
  BY <1>2, <1>3, Zenon
<1>5. \A y \in S : y \in Int /\ x \in Int
  OBVIOUS
<1> QED
  BY <1>4, <1>5

(* Of a set of subsets of a finite set, one that has no smaller one in it.  *)
LEMMA SmallestOf ==
    ASSUME NEW S, IsFiniteSet(S), NEW B \in SUBSET SUBSET S, B # {}
    PROVE  \E X \in B : \A x \in X : X \ {x} \notin B
<1> DEFINE Numbers == {Cardinality(X) : X \in B}
<1>1. \A X \in SUBSET S : IsFiniteSet(X) /\ Cardinality(X) \in Nat
  BY FS_Subset, FS_CardinalityType
<1>2. Numbers \in SUBSET Nat /\ Numbers # {}
  BY <1>1
<1>3. PICK k \in Numbers : \A j \in Numbers : k <= j
  <2> HIDE DEF Numbers
  <2> QED
    BY <1>2, LeastOf
<1>4. PICK X \in B : k = Cardinality(X)
  BY <1>3
<1>5. ASSUME NEW x \in X, X \ {x} \in B PROVE FALSE
  <2>1. Cardinality(X \ {x}) = Cardinality(X) - 1
    BY <1>1, FS_RemoveElement
  <2>2. k <= Cardinality(X \ {x})
    BY <1>3, <1>5
  <2> QED
    BY <1>1, <1>4, <2>1, <2>2
<1> QED
  BY <1>5

LEMMA AdditiveFolds ==
    ASSUME NEW S, NEW f, NEW g, Additive(g, f, S)
    PROVE  Folding(g, f, S)
<1>1. \A X \in SUBSET S :
         g[X] = IF X = {} THEN 0 ELSE LET x == CHOOSE y \in X : TRUE IN f[x] + g[X \ {x}]
  BY Zenon DEF Additive
<1> QED
  BY <1>1 DEF Folding, Additive

LEMMA FoldUnique ==
    ASSUME NEW S, IsFiniteSet(S), NEW f, NEW g, Additive(g, f, S), NEW h, Folding(h, f, S)
    PROVE  h[S] = g[S]
<1> DEFINE B == {X \in SUBSET S : h[X] # g[X]}
<1> SUFFICES ASSUME B # {} PROVE FALSE
  OBVIOUS
<1>1. PICK X \in B : \A x \in X : X \ {x} \notin B
  BY SmallestOf
<1>2. X # {}
  BY <1>1 DEF Folding, Additive
<1>3. PICK x \in X : h[X] = f[x] + h[X \ {x}]
  <2>1. h[X] = LET x == CHOOSE y \in X : TRUE IN f[x] + h[X \ {x}]
    BY <1>2 DEF Folding
  <2> QED
    BY <2>1, <1>2
<1>4. g[X] = f[x] + g[X \ {x}]
  BY DEF Additive
<1>5. h[X \ {x}] = g[X \ {x}]
  BY <1>1
<1> QED
  BY <1>3, <1>4, <1>5

LEMMA SumIs ==
    ASSUME NEW S, IsFiniteSet(S), NEW f, DOMAIN f = S, NEW g, Additive(g, f, S)
    PROVE  Sum(f) = g[S]
<1>1. Folding(TheFold(f, S), f, S)
  BY AdditiveFolds DEF TheFold
<1> QED
  BY <1>1, FoldUnique, SumIsFold

LEMMA AdditiveExists ==
    ASSUME NEW S, IsFiniteSet(S), NEW f \in [S -> Int]
    PROVE  \E g : Additive(g, f, S)
<1> DEFINE B == {X \in SUBSET S : ~\E g : Additive(g, f, X)}
<1> SUFFICES ASSUME B # {} PROVE FALSE
  OBVIOUS
<1>1. PICK X \in B : \A x \in X : X \ {x} \notin B
  BY SmallestOf
<1>2. CASE X = {}
  <2>1. Additive([Y \in SUBSET X |-> 0], f, X)
    BY <1>2 DEF Additive
  <2> QED
    BY <2>1
<1>3. CASE X # {}
  <2>1. PICK x \in X : TRUE
    BY <1>3
  <2>2. PICK g : Additive(g, f, X \ {x})
    BY <1>1
  <2> DEFINE h == [Y \in SUBSET X |-> IF x \in Y THEN f[x] + g[Y \ {x}] ELSE g[Y]]
  <2>3. \A Y \in SUBSET X : Y \ {x} \in SUBSET (X \ {x}) /\ (x \notin Y => Y \in SUBSET (X \ {x}))
    OBVIOUS
  <2>4. h \in [SUBSET X -> Int]
    BY <2>2, <2>3 DEF Additive
  <2>5. h[{}] = 0
    BY <2>2 DEF Additive
  <2>6. ASSUME NEW Y \in SUBSET X, NEW y \in Y PROVE h[Y] = f[y] + h[Y \ {y}]
    <3>1. CASE y = x
      BY <2>3, <3>1
    <3>2. CASE y # x /\ x \notin Y
      <4>1. x \notin Y \ {y} /\ Y \ {y} \in SUBSET X
        BY <3>2
      <4>2. h[Y] = g[Y] /\ h[Y \ {y}] = g[Y \ {y}]
        BY <3>2, <4>1
      <4> QED
        BY <2>2, <2>3, <3>2, <4>2 DEF Additive
    <3>3. CASE y # x /\ x \in Y
      <4>1. x \in Y \ {y} /\ Y \ {y} \in SUBSET X
        BY <3>3
      <4>2. h[Y] = f[x] + g[Y \ {x}] /\ h[Y \ {y}] = f[x] + g[(Y \ {y}) \ {x}]
        BY <3>3, <4>1
      <4>3. (Y \ {y}) \ {x} = (Y \ {x}) \ {y} /\ y \in Y \ {x}
        BY <3>3
      <4>4. g[Y \ {x}] = f[y] + g[(Y \ {x}) \ {y}]
        BY <2>2, <2>3, <4>3 DEF Additive
      <4>5. f[x] \in Int /\ f[y] \in Int /\ g[(Y \ {x}) \ {y}] \in Int
        BY <2>2, <2>3, <4>3 DEF Additive
      <4> HIDE DEF h
      <4>6. h[Y \ {y}] = f[x] + g[(Y \ {x}) \ {y}]
        BY <4>2, <4>3
      <4>7. h[Y] = f[x] + (f[y] + g[(Y \ {x}) \ {y}])
        BY <4>2, <4>4
      <4> QED
        BY <4>5, <4>6, <4>7
    <3> QED
      BY <3>1, <3>2, <3>3
  <2> HIDE DEF h
  <2>7. Additive(h, f, X)
    BY <2>4, <2>5, <2>6 DEF Additive
  <2> QED
    BY <2>7
<1> QED
  BY <1>2, <1>3

(* What the proofs use: sums of nothing but 0, and of a function changed at *)
(* one place.                                                               *)
LEMMA SumOfZeros ==
    ASSUME NEW S, IsFiniteSet(S), NEW f, DOMAIN f = S, \A x \in S : f[x] = 0
    PROVE  Sum(f) = 0
<1>1. Additive([X \in SUBSET S |-> 0], f, S)
  BY DEF Additive
<1> QED
  BY <1>1, SumIs

LEMMA SumChanged ==
    ASSUME NEW S, IsFiniteSet(S), NEW f \in [S -> Int], NEW h \in [S -> Int], NEW x \in S,
           \A y \in S \ {x} : h[y] = f[y]
    PROVE  Sum(f) \in Int /\ Sum(h) = Sum(f) - f[x] + h[x]
<1>1. PICK g : Additive(g, f, S)
  BY AdditiveExists
<1> DEFINE k == [X \in SUBSET S |-> IF x \in X THEN g[X] - f[x] + h[x] ELSE g[X]]
<1>2. k \in [SUBSET S -> Int] /\ k[{}] = 0
  BY <1>1 DEF Additive
<1>3. ASSUME NEW X \in SUBSET S, NEW y \in X PROVE k[X] = h[y] + k[X \ {y}]
  <2>1. /\ g[X] = f[y] + g[X \ {y}] /\ g[X] \in Int /\ g[X \ {y}] \in Int
        /\ f[y] \in Int /\ h[y] \in Int /\ f[x] \in Int /\ h[x] \in Int
    BY <1>1 DEF Additive
  <2>2. CASE y = x
    <3>1. k[X] = g[X] - f[x] + h[x] /\ k[X \ {y}] = g[X \ {y}]
      BY <2>2
    <3> QED
      BY <2>1, <2>2, <3>1
  <2>3. CASE y # x
    <3>1. h[y] = f[y] /\ (x \in X <=> x \in X \ {y})
      BY <2>3
    <3>2. k[X] = (IF x \in X THEN g[X] - f[x] + h[x] ELSE g[X])
      OBVIOUS
    <3>3. k[X \ {y}] = (IF x \in X THEN g[X \ {y}] - f[x] + h[x] ELSE g[X \ {y}])
      BY <3>1
    <3> QED
      BY <2>1, <3>1, <3>2, <3>3
  <2> QED
    BY <2>2, <2>3
<1>4. k[S] = g[S] - f[x] + h[x]
  OBVIOUS
<1> HIDE DEF k
<1>5. Additive(k, h, S)
  BY <1>2, <1>3 DEF Additive
<1>6. Sum(f) = g[S] /\ Sum(h) = k[S] /\ g[S] \in Int
  <2>1. Sum(f) = g[S]
    BY <1>1, SumIs
  <2>2. Sum(h) = k[S]
    BY <1>5, SumIs
  <2> QED
    BY <1>1, <2>1, <2>2 DEF Additive
<1> QED
  BY <1>4, <1>6

LEMMA SumInt ==
    ASSUME NEW S, IsFiniteSet(S), NEW f \in [S -> Int]
    PROVE  Sum(f) \in Int
<1>1. PICK g : Additive(g, f, S)
  BY AdditiveExists
<1>2. Sum(f) = g[S]
  BY <1>1, SumIs
<1> QED
  BY <1>1, <1>2 DEF Additive

-----------------------------------------------------------------------------
(* The books of an eventfd.  Between calls, and asleep, a thread has        *)
(* nothing of the counter in its hands; a wait that succeeded has one unit. *)
Idle == {"idle", "locking", "drain", "probing", "vset", "vread", "vasleep", "vrestore"}
Hands == /\ \A t \in Threads : tpc[t] \in Idle => val[t] = 0
         /\ \A t \in Threads : tpc[t] = "acquired" => val[t] = 1
FirstUnits == CASE kind = "mutex" -> 1 [] kind = "semaphore" -> Permits [] kind = "notifier" -> 0
BooksInv ==
    /\ EventfdTypeOK /\ added \in Nat /\ eventCount <= added
    /\ Hands
    /\ counter + Sum(val) + Sum(held) + received + lost = added + FirstUnits

LEMMA BooksInit == EventfdInit => BooksInv
<1> SUFFICES ASSUME EventfdInit PROVE BooksInv
  OBVIOUS
<1>1. Sum(val) = 0 /\ Sum(held) = 0
  <2>1. DOMAIN val = Threads /\ DOMAIN held = Threads /\ \A t \in Threads : val[t] = 0 /\ held[t] = 0
    BY DEF EventfdInit
  <2> QED
    BY <2>1, SumOfZeros, EventfdAssumption
<1>2. EventfdTypeOK /\ added \in Nat /\ eventCount <= added
  <2>1. kind \in {"mutex", "semaphore", "notifier"} /\ counter \in 0 .. MaxValue
    BY EventfdAssumption DEF EventfdInit
  <2>3. nonblock \in BOOLEAN
    BY DEF EventfdInit
  <2>2. /\ eventCount = 0 /\ received = 0 /\ added = 0 /\ lost = 0
        /\ tpc \in [Threads -> PcStates] /\ was \in [Threads -> BOOLEAN]
        /\ val \in [Threads -> Nat] /\ held \in [Threads -> Nat]
    BY DEF EventfdInit, PcStates
  <2> QED
    BY <2>1, <2>2, <2>3 DEF EventfdTypeOK, PcStates
<1>3. Hands
  BY DEF EventfdInit, Hands
<1>4. counter + 0 + 0 + received + lost = added + FirstUnits
  BY EventfdAssumption DEF EventfdInit, FirstUnits
<1> QED
  BY <1>1, <1>2, <1>3, <1>4 DEF BooksInv

LEMMA BooksEqual ==
    ASSUME NEW c \in Int, NEW c1 \in Int, NEW v \in Int, NEW v1 \in Int, NEW k \in Int,
           NEW k1 \in Int, NEW r \in Int, NEW r1 \in Int, NEW a \in Int, NEW a1 \in Int,
           NEW sv \in Int, NEW sh \in Int, NEW e \in Int,
           c + sv + sh + r = a + e, c1 + v1 + k1 + r1 + a = c + v + k + r + a1
    PROVE  c1 + (sv - v + v1) + (sh - k + k1) + r1 = a1 + e
  OBVIOUS

(* A step of t enters into the books what it does to val[t], held[t] and    *)
(* the totals.                                                              *)
LEMMA BooksStep ==
    ASSUME BooksInv, NEW t \in Threads, NEW p \in PcStates, NEW n \in Nat, NEW h \in Nat,
           tpc' = [tpc EXCEPT ![t] = p],
           val' = [val EXCEPT ![t] = n], held' = [held EXCEPT ![t] = h],
           p \in Idle => n = 0, p = "acquired" => n = 1,
           counter' \in 0..MaxValue, nonblock' \in BOOLEAN, was' \in [Threads -> BOOLEAN],
           eventCount' \in Nat, received' \in Nat, lost' \in Nat, added' \in Nat,
           eventCount' <= added', kind' = kind,
           counter' + n + h + received' + lost' + added
             = counter + val[t] + held[t] + received + lost + added'
    PROVE  BooksInv'
<1>1. /\ val \in [Threads -> Nat] /\ held \in [Threads -> Nat] /\ tpc \in [Threads -> PcStates]
      /\ val' \in [Threads -> Nat] /\ held' \in [Threads -> Nat] /\ tpc' \in [Threads -> PcStates]
  BY DEF BooksInv, EventfdTypeOK, PcStates
<1>2. /\ val \in [Threads -> Int] /\ held \in [Threads -> Int]
      /\ val' \in [Threads -> Int] /\ held' \in [Threads -> Int]
      /\ val'[t] = n /\ held'[t] = h
      /\ \A u \in Threads \ {t} : val'[u] = val[u] /\ held'[u] = held[u]
  BY <1>1
<1>a. IsFiniteSet(Threads)
  BY EventfdAssumption
<1>b. \A f, g \in [Threads -> Int] :
         (\A u \in Threads \ {t} : g[u] = f[u])
            => Sum(f) \in Int /\ Sum(g) = Sum(f) - f[t] + g[t]
  BY <1>a, SumChanged
<1>3. Sum(val) \in Int /\ Sum(val') = Sum(val) - val[t] + val'[t]
  BY <1>2, <1>b
<1>4. Sum(held) \in Int /\ Sum(held') = Sum(held) - held[t] + held'[t]
  BY <1>2, <1>b
<1>5. EventfdTypeOK'
  BY <1>1 DEF BooksInv, EventfdTypeOK, PcStates
<1>6. Hands'
  BY <1>1 DEF BooksInv, Hands
<1>7. FirstUnits' = FirstUnits /\ FirstUnits \in Int
  BY EventfdAssumption DEF FirstUnits, BooksInv, EventfdTypeOK
<1>8. counter' + Sum(val') + Sum(held') + received' + lost' = added' + FirstUnits
  <2>1. counter \in Int /\ val[t] \in Int /\ held[t] \in Int /\ received \in Int /\ lost \in Int /\ added \in Int
    BY <1>1 DEF BooksInv, EventfdTypeOK
  <2>2. counter' \in Int
    OBVIOUS
  <2>3. counter + Sum(val) + Sum(held) + received + lost = added + FirstUnits
    BY DEF BooksInv
  <2>4. Sum(val') = Sum(val) - val[t] + n /\ Sum(held') = Sum(held) - held[t] + h
    BY <1>2, <1>3, <1>4
  <2>5. counter + Sum(val) + Sum(held) + (received + lost) = added + FirstUnits
    BY <1>3, <1>4, <2>1, <2>3
  <2>6. counter' + n + h + (received' + lost') + added
          = counter + val[t] + held[t] + (received + lost) + added'
    BY <2>1, <2>2
  <2>7. /\ received + lost \in Int /\ received' + lost' \in Int /\ added' \in Int
        /\ n \in Int /\ h \in Int
    BY <2>1
  <2>8. counter' + (Sum(val) - val[t] + n) + (Sum(held) - held[t] + h) + (received' + lost')
          = added' + FirstUnits
    BY <1>3, <1>4, <1>7, <2>1, <2>2, <2>5, <2>6, <2>7, BooksEqual
  <2> QED
    BY <1>3, <1>4, <2>1, <2>2, <2>4, <2>7, <2>8
<1>9. Sum(val)' = Sum(val') /\ Sum(held)' = Sum(held')
  OBVIOUS
<1> QED
  BY <1>5, <1>6, <1>7, <1>8, <1>9 DEF BooksInv

(* What t has in its hands is what it had. *)
LEMMA BooksStay ==
    ASSUME BooksInv, NEW t \in Threads, NEW p \in PcStates, tpc' = [tpc EXCEPT ![t] = p],
           p \in Idle => val[t] = 0, p = "acquired" => val[t] = 1,
           nonblock' \in BOOLEAN, was' \in [Threads -> BOOLEAN],
           UNCHANGED <<kind, counter, val, held, eventCount, received, added, lost>>
    PROVE  BooksInv'
<1>1. /\ val[t] \in Nat /\ held[t] \in Nat
      /\ val' = [val EXCEPT ![t] = val[t]] /\ held' = [held EXCEPT ![t] = held[t]]
  BY DEF BooksInv, EventfdTypeOK
<1>2. counter' \in 0..MaxValue /\ eventCount' \in Nat /\ received' \in Nat /\ lost' \in Nat
      /\ added' \in Nat /\ eventCount' <= added'
  BY DEF BooksInv, EventfdTypeOK
<1>3. counter' + val[t] + held[t] + received' + lost' + added
        = counter + val[t] + held[t] + received + lost + added'
  BY <1>2
<1> QED
  BY <1>1, <1>2, <1>3, BooksStep

LEMMA BooksRead ==
    ASSUME BooksInv, UnitInv, NEW t \in Threads, val[t] = 0,
           NEW asleep \in PcStates, NEW got \in PcStates, NEW again \in PcStates,
           Read(t, asleep, got, again), {asleep, again} \subseteq Idle,
           got \notin Idle, got = "acquired" => kind # "notifier",
           UNCHANGED <<kind, nonblock, was, held, eventCount, received, added, lost>>
    PROVE  BooksInv'
<1>1. counter \in 0..MaxValue /\ nonblock' \in BOOLEAN /\ was' \in [Threads -> BOOLEAN]
      /\ kind \in {"mutex", "semaphore", "notifier"}
  BY DEF BooksInv, EventfdTypeOK
<1>2. CASE counter = 0
  <2>1. PICK p \in {asleep, again} : tpc' = [tpc EXCEPT ![t] = p]
    BY <1>2 DEF Read
  <2>2. UNCHANGED <<counter, val>> /\ p \in PcStates /\ p \in Idle /\ p # "acquired"
    BY <1>2, <2>1 DEF Read, Idle
  <2> QED
    BY <1>1, <2>1, <2>2, BooksStay
<1>3. CASE counter # 0
  <2>1. /\ counter' = counter - ReadAmount /\ val' = [val EXCEPT ![t] = ReadAmount]
        /\ tpc' = [tpc EXCEPT ![t] = got]
    BY <1>1, <1>3, EventfdAssumption DEF Read
  <2>2. ReadAmount \in 1..counter
    BY <1>1, <1>3, EventfdAssumption DEF ReadAmount
  <2>3. got = "acquired" => ReadAmount = 1
    BY <1>1, <1>3 DEF ReadAmount, UnitInv, MutexInv, OneUnit
  <2>4. held[t] \in Nat /\ held' = [held EXCEPT ![t] = held[t]] /\ ReadAmount \in Nat
    BY <2>2, <1>1 DEF BooksInv, EventfdTypeOK
  <2>5. eventCount' \in Nat /\ received' \in Nat /\ lost' \in Nat /\ added' \in Nat
        /\ eventCount' <= added' /\ counter' \in 0..MaxValue
    BY <1>1, <2>1, <2>2, EventfdAssumption DEF BooksInv, EventfdTypeOK
  <2>6. counter' + ReadAmount + held[t] + received' + lost' + added
          = counter + val[t] + held[t] + received + lost + added'
    BY <1>1, <2>1, <2>2, <2>4, <2>5
  <2> QED
    BY <1>1, <2>1, <2>3, <2>4, <2>5, <2>6, BooksStep
<1> QED
  BY <1>2, <1>3

LEMMA BooksWrite ==
    ASSUME BooksInv, NEW t \in Threads, NEW p \in PcStates, Write(t, p), p # "acquired",
           UNCHANGED <<kind, nonblock, was, held, eventCount, received, added>>
    PROVE  BooksInv'
<1>1. counter \in 0..MaxValue /\ nonblock' \in BOOLEAN /\ was' \in [Threads -> BOOLEAN]
      /\ val[t] \in Nat /\ held[t] \in Nat /\ held' = [held EXCEPT ![t] = held[t]] /\ lost \in Nat
  BY DEF BooksInv, EventfdTypeOK
<1>2. /\ eventCount' \in Nat /\ received' \in Nat /\ added' \in Nat /\ eventCount' <= added'
      /\ received' = received /\ added' = added
  BY DEF BooksInv, EventfdTypeOK
<1>3. tpc' = [tpc EXCEPT ![t] = p] /\ val' = [val EXCEPT ![t] = 0]
  BY DEF Write
<1>4. lost' \in Nat /\ counter' \in 0..MaxValue /\ counter' + lost' = counter + val[t] + lost
  BY <1>1, EventfdAssumption DEF Write
<1>5. counter' + 0 + held[t] + received' + lost' + added
        = counter + val[t] + held[t] + received + lost + added'
  BY <1>1, <1>2, <1>4, EventfdAssumption
<1> QED
  BY <1>1, <1>2, <1>3, <1>4, <1>5, BooksStep

LEMMA BooksNext == BooksInv /\ UnitInv /\ [EventfdNext]_eventfdVars => BooksInv'
<1> SUFFICES ASSUME BooksInv, UnitInv, [EventfdNext]_eventfdVars PROVE BooksInv'
  OBVIOUS
<1> USE DEF PcStates
<1>a. /\ counter \in 0..MaxValue /\ nonblock \in BOOLEAN /\ was \in [Threads -> BOOLEAN]
      /\ eventCount \in Nat /\ received \in Nat /\ added \in Nat /\ lost \in Nat
      /\ eventCount <= added /\ val \in [Threads -> Nat] /\ held \in [Threads -> Nat]
  BY DEF BooksInv, EventfdTypeOK
<1>1. CASE UNCHANGED eventfdVars
  BY <1>1 DEF BooksInv, EventfdTypeOK, Hands, FirstUnits, eventfdVars
<1>2. CASE ResetCounter
  BY <1>2 DEF BooksInv, EventfdTypeOK, Hands, FirstUnits, ResetCounter
<1>3. ASSUME NEW t \in Threads, Step(t) PROVE BooksInv'
  <2>0. /\ val[t] \in Nat /\ held[t] \in Nat
        /\ val' = val => val' = [val EXCEPT ![t] = val[t]]
        /\ held' = held => held' = [held EXCEPT ![t] = held[t]]
    BY <1>a
  <2>h. tpc[t] \in Idle => val[t] = 0
    BY DEF BooksInv, Hands
  <2>1. CASE Acquire(t)
    BY <2>1, <2>h, BooksRead DEF Acquire, books, Idle
  <2>2. CASE Acquired(t)
    <3>1. val[t] = 1
      BY <2>2 DEF Acquired, BooksInv, Hands
    <3>2. /\ tpc' = [tpc EXCEPT ![t] = "idle"] /\ val' = [val EXCEPT ![t] = 0]
          /\ held' = [held EXCEPT ![t] = held[t] + 1]
          /\ UNCHANGED <<kind, counter, nonblock, eventCount, was, received, added, lost>>
      BY <2>2 DEF Acquired
    <3>3. counter' + 0 + (held[t] + 1) + received' + lost' + added
            = counter + val[t] + held[t] + received + lost + added'
      BY <1>a, <2>0, <3>1, <3>2
    <3>4. held[t] + 1 \in Nat
      BY <2>0
    <3> QED
      BY <1>a, <2>0, <3>2, <3>3, <3>4, BooksStep
  <2>3. CASE Release(t)
    <3>1. val[t] = 0 /\ held[t] - 1 \in Nat
      BY <2>0, <2>3, <2>h DEF Release, Idle
    <3>2. /\ tpc' = [tpc EXCEPT ![t] = "write"] /\ val' = [val EXCEPT ![t] = 1]
          /\ held' = [held EXCEPT ![t] = held[t] - 1]
          /\ UNCHANGED <<kind, counter, nonblock, eventCount, was, received, added, lost>>
      BY <2>3 DEF Release
    <3>3. counter' + 1 + (held[t] - 1) + received' + lost' + added
            = counter + val[t] + held[t] + received + lost + added'
      BY <1>a, <2>0, <3>1, <3>2
    <3> QED
      BY <1>a, <3>1, <3>2, <3>3, BooksStep DEF Idle
  <2>4. CASE Notify(t)
    <3>1. PICK n \in 1 .. MaxAdded - added :
             /\ added' = added + n /\ val' = [val EXCEPT ![t] = n]
             /\ eventCount' = IF kind = "notifier" THEN eventCount + n ELSE eventCount
      BY <2>4 DEF Notify
    <3>2. /\ tpc' = [tpc EXCEPT ![t] = "write"] /\ held' = [held EXCEPT ![t] = held[t]]
          /\ UNCHANGED <<kind, counter, nonblock, was, received, lost>>
      BY <2>4, <2>0 DEF Notify
    <3>3. val[t] = 0
      BY <2>4, <2>h DEF Notify, Idle
    <3>4. n \in Nat /\ added' \in Nat /\ eventCount' \in Nat /\ eventCount' <= added'
      BY <1>a, <3>1, EventfdAssumption
    <3>5. counter' + n + held[t] + received' + lost' + added
            = counter + val[t] + held[t] + received + lost + added'
      BY <1>a, <2>0, <3>1, <3>2, <3>3, <3>4
    <3> QED
      BY <1>a, <2>0, <3>1, <3>2, <3>4, <3>5, BooksStep DEF Idle
  <2>5. CASE WriteStep(t)
    BY <2>5, BooksWrite DEF WriteStep
  <2>6. CASE NotifierWait(t)
    <3>1. PICK l \in {"received", "drained"} : Read(t, "idle", l, "idle")
      BY <2>6 DEF NotifierWait
    <3> QED
      BY <2>6, <2>h, <3>1, BooksRead DEF NotifierWait, books, Idle
  <2>7. CASE Received(t)
    <3>1. PICK p \in {"drain", "idle"} : tpc' = [tpc EXCEPT ![t] = p]
      BY <2>7 DEF Received
    <3>2. /\ received' = received + val[t] /\ val' = [val EXCEPT ![t] = 0]
          /\ UNCHANGED <<kind, counter, nonblock, eventCount, was, held, added, lost>>
      BY <2>7 DEF Received
    <3>3. received' \in Nat
      BY <1>a, <2>0, <3>2
    <3>4. counter' + 0 + held[t] + received' + lost' + added
            = counter + val[t] + held[t] + received + lost + added'
      BY <1>a, <2>0, <3>2
    <3> QED
      BY <1>a, <2>0, <3>1, <3>2, <3>3, <3>4, BooksStep
  <2>8. CASE Probe(t)
    BY <2>8, <2>h, BooksRead DEF Probe, books, Idle
  <2>9. CASE Validate(t)
    <3>1. PICK p \in {"vread", "vset"} : tpc' = [tpc EXCEPT ![t] = p]
      BY <2>9 DEF Validate
    <3>2. /\ was' \in [Threads -> BOOLEAN] /\ nonblock' \in BOOLEAN /\ val[t] = 0
          /\ UNCHANGED <<kind, counter, val, held, eventCount, received, added, lost>>
      BY <1>a, <2>9, <2>h DEF Validate, books, Idle
    <3> QED
      BY <3>1, <3>2, BooksStay
  <2>10. CASE ValidateSet(t)
    <3>1. /\ tpc' = [tpc EXCEPT ![t] = "vread"] /\ val[t] = 0
          /\ was' \in [Threads -> BOOLEAN] /\ nonblock' \in BOOLEAN
          /\ UNCHANGED <<kind, counter, val, held, eventCount, received, added, lost>>
      BY <1>a, <2>10, <2>h DEF ValidateSet, books, Idle
    <3> QED
      BY <3>1, BooksStay
  <2>11. CASE ValidateRead(t)
    BY <2>11, <2>h, BooksRead DEF ValidateRead, books, Idle
  <2>12. CASE ValidateWrite(t)
    BY <2>12, BooksWrite DEF ValidateWrite
  <2>13. CASE ValidateRestore(t)
    <3>1. tpc' = [tpc EXCEPT ![t] = "idle"] /\ val[t] = 0
      BY <2>13, <2>h DEF ValidateRestore, Idle
    <3>2. was' \in [Threads -> BOOLEAN] /\ nonblock' \in BOOLEAN
      BY <1>a, <2>13 DEF ValidateRestore
    <3>3. UNCHANGED <<kind, counter, val, held, eventCount, received, added, lost>>
      BY <2>13 DEF ValidateRestore, books
    <3> QED
      BY <3>1, <3>2, <3>3, BooksStay
  <2> QED
    BY <1>3, <2>1, <2>2, <2>3, <2>4, <2>5, <2>6, <2>7, <2>8, <2>9, <2>10, <2>11,
       <2>12, <2>13 DEF Step
<1> QED
  BY <1>1, <1>2, <1>3 DEF EventfdNext

(* Whatever queries, validations, refused writes and waits happen between,  *)
(* the locks, permits and events of eventfd_utils.c add up: every unit that *)
(* was put in is in the counter, in a caller's hands, received or refused.  *)
THEOREM UnitsAddUp == EventfdSpec => []UnitsConserved
<1>1. BooksInv /\ UnitInv => UnitsConserved
  <2> SUFFICES ASSUME BooksInv, UnitInv PROVE UnitsConserved
    OBVIOUS
  <2>1. OneOwner /\ \A t \in Threads : kind = "mutex" => held[t] <= 1
    BY DEF UnitInv, UnitTypes, MutexInv, OneUnit, UnitIn, Free, OneOwner
  <2> QED
    BY <2>1 DEF BooksInv, UnitsConserved, FirstUnits
<1> QED
  BY <1>1, BooksInit, BooksNext, UnitInit, UnitNext, PTL DEF EventfdSpec

-----------------------------------------------------------------------------
(* PoolManager                                                             *)

Phases == {"idle", "start", "undo", "drain", "sleep", "stop", "grow", "shrink"}
PoolStates == {"NONE", "CREATED", "STARTING", "RUNNING", "STOPPING", "STOPPED"}

(* The loops over slots that start workers, and those that stop them; c is  *)
(* at the end of a failed start, or in pool_stop.                           *)
Filling == {"start", "grow"}
Emptying == {"undo", "stop", "shrink"}
Stopping(c) == phase[c] \in {"undo", "drain", "sleep", "stop"}

(* Who is where: pool_mutex is held by the caller that is inside and not    *)
(* asleep, and the state is what the caller at work has made of it.         *)
ControlInv ==
    /\ mutex \in Callers \cup {NULL} /\ phase \in [Callers -> Phases]
    /\ state \in PoolStates /\ dying \in BOOLEAN
    /\ \A c \in Callers : phase[c] \notin {"idle", "sleep"} <=> mutex = c
    /\ \A c \in Callers : phase[c] = "start" => state = "STARTING"
    /\ state = "STARTING" => \E c \in Callers : phase[c] = "start"
    /\ \A c \in Callers : Stopping(c) => state = "STOPPING"
    /\ state = "STOPPING" => \E c \in Callers : Stopping(c)
    /\ \A c, d \in Callers : Stopping(c) /\ Stopping(d) => c = d
    /\ state = "NONE" => \A c \in Callers : phase[c] = "idle"
    /\ dying => state \notin {"STARTING", "RUNNING"}

WorkerStates == {"CREATED", "STARTING", "RUNNING", "STOPPING", "STOPPED", "ERROR"}
WorkerRec == [pid : Nat, st : WorkerStates, run : BOOLEAN, mon : Nat]

(* The steps of worker_stop after its first test, and of a start; those     *)
(* after which the start has a child.                                       *)
StopSteps == {"state", "stopping", "poll", "probe", "kill", "reap", "quiet", "join",
              "joining", "stopped"}
StartedSteps == {"pid", "run", "watch", "thread"}
StartSteps == {"create", "start", "fork"} \cup StartedSteps
JobSteps == {"none", "look", "stop", "destroy", "clear", "done", "nothing"}
            \cup StopSteps \cup StartSteps
JobRec == [slot : Slots, step : JobSteps, nested : BOOLEAN, val : Nat]

ManagerTypes ==
    /\ worker \in [Slots -> WorkerRec] /\ job \in [Actors -> JobRec]
    /\ next \in 1 .. MaxKids + 1 /\ kids \subseteq 1 .. next - 1
    /\ home \in [Kids -> Slots]

(* The holder of pool_mutex works on the slot of its loop, filling it or    *)
(* emptying it; an event loop works while it runs.  Only a clash has two    *)
(* of them in one slot.                                                     *)
HandsInv ==
    /\ job[0].step # "none" =>
        /\ at < to /\ at \in Slots /\ job[0].slot = at
        /\ \E c \in Callers : phase[c] \in Filling \cup Emptying
        /\ \A c \in Callers :
            /\ phase[c] \in Filling => job[0].step # "look"
            /\ phase[c] \in Emptying => job[0].step \notin StartSteps
    /\ \A n \in Loops : job[n].step # "none" => n \in loops /\ job[n].step \notin {"done", "nothing"}
    /\ \A a, b \in Actors :
        job[a].step # "none" /\ job[b].step # "none" /\ job[a].slot = job[b].slot =>
            a = b \/ job[a].slot \in clash
    /\ state = "NONE" => \A i \in Slots : worker[i].pid = 0
    /\ state = "NONE" /\ ~dying => \A a \in Actors : job[a].step = "none"

(* An event loop's thread is the pool's or that of a start that failed. *)
LoopsInv ==
    /\ loops \subseteq failed \cup {thread}
    /\ state \in {"NONE", "CREATED", "STOPPED"} => loops \subseteq failed

(* What is left of the slots below n when pool_resize shrinks the pool to n. *)
Kept == active - (to - at)

(* active_workers against the loop in progress. *)
SizeInv ==
    /\ active \in Nat /\ at \in Nat /\ to \in Nat
    /\ active <= 2 * MaxWorkers
    /\ state \in {"NONE", "CREATED", "STOPPED"} => active <= MaxWorkers
    /\ state = "RUNNING" => MinWorkers <= active
    /\ \A c \in Callers :
        /\ phase[c] = "start" =>
            to = MinWorkers /\ at <= to /\ at <= active /\ active <= MaxWorkers + at
        /\ phase[c] = "grow" => at <= to /\ to <= MaxWorkers /\ active = at
        /\ phase[c] = "shrink" => at <= to /\ MinWorkers <= Kept /\ Kept <= at
        /\ phase[c] \in {"undo", "stop"} => to = MaxWorkers /\ at <= to
        /\ phase[c] \in {"drain", "sleep", "stop"} => active >= 1

(* ... and with no child started outside a running pool. *)
SteadyInv ==
    stray = {} =>
        /\ ~overrun /\ active <= MaxWorkers
        /\ state \in {"NONE", "CREATED", "STOPPED"} => active = 0
        /\ \A c \in Callers :
            /\ phase[c] = "start" => active = at
            /\ phase[c] = "shrink" => to <= MaxWorkers
            /\ phase[c] = "grow" /\ state \in {"CREATED", "STOPPED"} =>
                job[0].step \notin StartedSteps \cup {"done"}

(* What a knows of the slot it works on, as long as nobody else does. *)
SlotOk(a) ==
    LET had == worker[job[a].slot] s == job[a].step IN
    /\ s \in StopSteps => had.pid # 0
    /\ s \in (StopSteps \ {"state", "stopping"}) \cup {"destroy", "clear"} => had.st # "RUNNING"
    /\ s = "create" => IF a = 0 THEN stray = {} => had.pid = 0 ELSE had.pid = 0 /\ had.st # "RUNNING"
    /\ s \in {"start", "fork", "pid"} => had.pid = 0 /\ had.st # "RUNNING"
    /\ s = "pid" => job[a].val \in 1 .. next - 1 /\ home[job[a].val] = job[a].slot
    /\ s \in {"run", "watch", "thread"} => had.pid = job[a].val /\ had.pid # 0
    /\ s = "run" => had.st # "RUNNING"
    /\ s = "nothing" => had.pid = 0
    /\ s = "done" => \A c \in Callers : /\ phase[c] \in Emptying => had.pid = 0
                                        /\ phase[c] \in Filling => had.pid # 0
SlotInv ==
    /\ \A i \in Slots \ clash : worker[i].st = "RUNNING" => worker[i].pid # 0
    /\ state # "NONE" =>
        \A a \in Actors : job[a].step # "none" /\ job[a].slot \notin clash => SlotOk(a)

(* A child nobody has waited for is in its slot, or in the hands of whoever *)
(* starts or stops it there, but for the exceptions.                        *)
Exempt == stray \cup given_up
Keeping == {"stopping", "poll", "probe", "kill", "reap", "run"}
Held(k) ==
    \/ \E a \in Actors : job[a].slot = home[k] /\ job[a].step = "pid" /\ job[a].val = k
    \/ /\ worker[home[k]].pid = k
       /\ \/ worker[home[k]].st = "RUNNING"
          \/ \E a \in Actors : job[a].slot = home[k] /\ job[a].step \in Keeping
HeldInv == state # "NONE" => \A k \in kids \ Exempt : home[k] \notin clash => Held(k)
QuietInv == state \in {"NONE", "CREATED", "STOPPED"} =>
    \A k \in kids : k \in Exempt \/ home[k] \in clash

(* Slot i has a worker, or an event loop restarts one there; where such     *)
(* slots are, but for those of a clash ...                                  *)
Used(i) == worker[i].pid # 0 \/ \E n \in Loops : job[n].step # "none" /\ job[n].slot = i
PlacedAt(i) ==
    /\ mutex = NULL => i < active
    /\ \A c \in Callers :
        /\ phase[c] = "drain" => i < active
        /\ phase[c] \in Filling => i < active \/ (i = at /\ job[0].step # "none")
        /\ phase[c] = "shrink" => i < Kept \/ (at <= i /\ i < to)
        /\ phase[c] \in {"undo", "stop"} => at <= i
PlacedInv == state # "NONE" => \A i \in Slots \ clash : Used(i) => PlacedAt(i)

(* ... and where the others are, while none of the exceptions has occurred. *)
FilledAt(i) ==
    /\ mutex = NULL => active <= i
    /\ \A c \in Callers :
        /\ phase[c] = "drain" => active <= i
        /\ phase[c] \in Filling => at <= i
        /\ phase[c] = "shrink" => Kept <= i /\ (i < at \/ to <= i
             \/ (i = at /\ job[0].step \notin {"none", "look", "nothing"}))
FilledInv ==
    (stray = {} /\ clash = {} /\ ~gap /\ state # "NONE") =>
        \A i \in Slots : ~Used(i) => FilledAt(i)
KillInv == killed => clash # {}

ManagerInv ==
    /\ ControlInv /\ ManagerTypes /\ HandsInv /\ LoopsInv /\ SizeInv /\ SteadyInv
    /\ SlotInv /\ HeldInv /\ QuietInv /\ PlacedInv /\ FilledInv /\ KillInv

-----------------------------------------------------------------------------
LEMMA PoolInit == ManagerInit => ManagerInv
<1> SUFFICES ASSUME ManagerInit PROVE ManagerInv
  OBVIOUS
<1> USE PoolManagerAssumption DEF ManagerInit
<1>1. ControlInv
  BY DEF ControlInv, Phases, PoolStates, Stopping
<1>2. Empty \in WorkerRec /\ Empty.pid = 0 /\ Empty.st = "CREATED"
  BY DEF Empty, WorkerRec, WorkerStates
<1>3. 0 \in Slots /\ 0 \in Actors
  BY DEF Slots, Actors
<1>4. NoJob \in JobRec /\ NoJob.step = "none"
  BY <1>3 DEF NoJob, JobRec, JobSteps
<1>5. ManagerTypes
  <2>1. kids \subseteq 1 .. next - 1 /\ next \in 1 .. MaxKids + 1
    OBVIOUS
  <2>2. worker \in [Slots -> WorkerRec] /\ job \in [Actors -> JobRec] /\ home \in [Kids -> Slots]
    BY <1>2, <1>3, <1>4
  <2> QED
    BY <2>1, <2>2 DEF ManagerTypes
<1>6. \A a \in Actors : job[a].step = "none"
  BY <1>4
<1>7. \A n \in Loops : n \in Actors
  BY DEF Loops, Actors
<1>8. HandsInv
  BY <1>2, <1>3, <1>6, <1>7 DEF HandsInv
<1>9. LoopsInv /\ SizeInv /\ SteadyInv /\ KillInv
  BY DEF LoopsInv, SizeInv, SteadyInv, KillInv
<1>10. SlotInv /\ HeldInv /\ QuietInv
  BY <1>2 DEF SlotInv, HeldInv, QuietInv
<1>11. PlacedInv /\ FilledInv
  BY DEF PlacedInv, FilledInv
<1> QED
  BY <1>1, <1>5, <1>8, <1>9, <1>10, <1>11 DEF ManagerInv

-----------------------------------------------------------------------------
(* The worker functions; had and has are the structure in a's slot before   *)
(* and after a step.  A step of a is a step in its slot ...                 *)
JobMoves(a) ==
    /\ job' \in [Actors -> JobRec] /\ \A b \in Actors \ {a} : job'[b] = job[b]
    /\ job'[a].slot = job[a].slot \/ job'[a].step = "none"
SlotMoves(a) ==
    /\ worker' \in [Slots -> WorkerRec]
    /\ \A i \in Slots \ {job[a].slot} : worker'[i] = worker[i]
StaysInSlot(a) ==
    /\ UNCHANGED <<callVars, clash, failed, overrun>>
    /\ job[a].step # "none" /\ JobMoves(a) /\ SlotMoves(a)
    /\ stray \subseteq stray' /\ given_up' = given_up /\ (gap => gap')

LEMMA Jobs ==
    ASSUME ManagerTypes, NEW a \in Actors
    PROVE  job[a] \in JobRec /\ job[a].slot \in Slots /\ worker[job[a].slot] \in WorkerRec
  BY DEF ManagerTypes, JobRec

LEMMA StepNames ==
    /\ {"none", "look", "stop", "destroy", "clear", "done", "nothing"} \subseteq JobSteps
    /\ StopSteps \subseteq JobSteps /\ StartSteps \subseteq JobSteps
    /\ {"state", "stopping", "poll", "probe", "kill", "reap", "quiet", "join",
        "joining", "stopped"} \subseteq JobSteps
    /\ {"create", "start", "fork", "pid", "run", "watch", "thread"} \subseteq JobSteps
  BY DEF JobSteps, StopSteps, StartSteps, StartedSteps

LEMMA Zeroed == Empty \in WorkerRec /\ Empty.pid = 0 /\ Empty.st = "CREATED"
  BY DEF Empty, WorkerRec, WorkerStates

LEMMA NoJobIsJob == NoJob \in JobRec /\ NoJob.step = "none" /\ NoJob.val = 0
  BY PoolManagerAssumption DEF NoJob, JobRec, JobSteps, Slots

LEMMA ActorsAre == 0 \in Actors /\ Loops = Actors \ {0} /\ Actors \subseteq Int
  BY PoolManagerAssumption DEF Actors, Loops

LEMMA Moves ==
    ASSUME ManagerTypes, NEW a \in Actors, NEW j \in JobRec, job' = [job EXCEPT ![a] = j],
           j.slot = job[a].slot \/ j.step = "none"
    PROVE  JobMoves(a) /\ job'[a] = j
  BY DEF ManagerTypes, JobMoves

LEMMA Goes ==
    ASSUME ManagerTypes, NEW a \in Actors, NEW s \in JobSteps, Goto(a, s)
    PROVE  /\ JobMoves(a) /\ job'[a].step = s /\ job'[a].slot = job[a].slot
           /\ job'[a].val = job[a].val /\ job'[a].nested = job[a].nested
<1> DEFINE j == [job[a] EXCEPT !.step = s]
<1>1. job' = [job EXCEPT ![a] = j]
  BY DEF Goto, ManagerTypes
<1>2. /\ j \in JobRec /\ j.slot = job[a].slot /\ j.step = s
      /\ j.val = job[a].val /\ j.nested = job[a].nested
  BY Jobs DEF JobRec
<1> HIDE DEF j
<1> QED
  BY <1>1, <1>2, Moves

LEMMA Ends ==
    ASSUME ManagerTypes, NEW a \in Actors, StopEnds(a)
    PROVE  /\ JobMoves(a) /\ job'[a].slot = job[a].slot
           /\ job'[a].step = IF job[a].nested THEN "clear" ELSE "destroy"
<1> DEFINE j == [job[a] EXCEPT !.step = IF job[a].nested THEN "clear" ELSE "destroy",
                               !.nested = FALSE]
<1>1. job' = [job EXCEPT ![a] = j]
  BY DEF StopEnds, ManagerTypes
<1>2. j \in JobRec /\ j.slot = job[a].slot /\ j.step = IF job[a].nested THEN "clear" ELSE "destroy"
  BY Jobs DEF JobRec, JobSteps
<1> HIDE DEF j
<1> QED
  BY <1>1, <1>2, Moves

LEMMA Stores ==
    ASSUME ManagerTypes, NEW a \in Actors, NEW had \in WorkerRec, Store(a, had)
    PROVE  SlotMoves(a) /\ worker'[job[a].slot] = had
  BY Jobs DEF ManagerTypes, SlotMoves, Store

LEMMA Keeps ==
    ASSUME ManagerTypes, UNCHANGED worker, NEW a \in Actors
    PROVE  SlotMoves(a) /\ worker'[job[a].slot] = worker[job[a].slot]
  BY DEF ManagerTypes, SlotMoves

(* Numbers of children. *)
LEMMA Numbers ==
    ASSUME NEW n, NEW m, n \in 1 .. MaxKids + 1, m \in 1 .. MaxKids + 1, n <= m
    PROVE  /\ n \in Nat /\ m \in Nat /\ 1 .. n - 1 \subseteq 1 .. m - 1
           /\ 1 .. m - 1 \subseteq Kids
  BY PoolManagerAssumption DEF Kids

(* ... and keeps this: children are numbered as they are forked, ...        *)
KidsGo(a) ==
    /\ next' \in 1 .. MaxKids + 1 /\ kids' \subseteq 1 .. next' - 1
    /\ home' \in [Kids -> Slots] /\ next <= next'
    /\ \A k \in 1 .. next - 1 : home'[k] = home[k]
    /\ \A k \in kids' \ kids :
        home'[k] = job[a].slot /\ (state \in {"CREATED", "STOPPED"} => k \in stray')

(* ... each actor goes the way that is its own, ...                         *)
StepsGo(a) ==
    /\ a = 0 => /\ job'[0].step \notin {"none", "look"}
                /\ \A c \in Callers : phase[c] \in Emptying => job'[0].step \notin StartSteps
    /\ a # 0 => job'[a].step \notin {"done", "nothing"}

(* ... it knows its slot, ...                                               *)
SlotGo(a) ==
    job[a].slot \notin clash =>
        /\ worker'[job[a].slot].st = "RUNNING" => worker'[job[a].slot].pid # 0
        /\ job'[a].step # "none" => SlotOk(a)'

(* ... and the children of that slot, ...                                   *)
HeldGo(a) ==
    job[a].slot \notin clash =>
        \A k \in kids' \ Exempt' : home'[k] = job[a].slot =>
            \/ job'[a].step = "pid" /\ job'[a].val = k
            \/ /\ worker'[job[a].slot].pid = k
               /\ worker'[job[a].slot].st = "RUNNING" \/ job'[a].step \in Keeping

(* ... and what it leaves behind is a worker, unless something failed.      *)
UsedGo(a) ==
    /\ a # 0 /\ job[a].slot \notin clash /\ ~gap' /\ job'[a].step = "none" =>
        worker'[job[a].slot].pid # 0
    /\ a = 0 => \A c \in Callers :
        phase[c] = "shrink" /\ job[0].step # "look" => job'[0].step # "nothing"
    /\ job[a].step = "look" => worker' = worker
StrayGo(a) ==
    a = 0 /\ stray' = {} /\ state \in {"CREATED", "STOPPED"} =>
        \A c \in Callers : phase[c] = "grow" /\ job'[0].step \in StartedSteps \cup {"done"} =>
            job[0].step \in StartedSteps \cup {"done"}
KillGo(a) == killed' => killed \/ job[a].slot \in clash

Orderly(a) ==
    /\ StaysInSlot(a) /\ KidsGo(a) /\ StepsGo(a) /\ SlotGo(a) /\ HeldGo(a)
    /\ UsedGo(a) /\ StrayGo(a) /\ KillGo(a)

(* What the invariant says of a's slot. *)
MyChild(a, k) ==
    \/ job[a].step = "pid" /\ job[a].val = k
    \/ /\ worker[job[a].slot].pid = k
       /\ worker[job[a].slot].st = "RUNNING" \/ job[a].step \in Keeping

LEMMA Here ==
    ASSUME ManagerInv, state # "NONE", NEW a \in Actors, job[a].step # "none",
           job[a].slot \notin clash
    PROVE  /\ SlotOk(a) /\ (worker[job[a].slot].st = "RUNNING" => worker[job[a].slot].pid # 0)
           /\ \A k \in kids \ Exempt : home[k] = job[a].slot => MyChild(a, k)
<1>1. job[a].slot \in Slots \ clash
  BY Jobs DEF ManagerInv
<1>2. SlotOk(a) /\ (worker[job[a].slot].st = "RUNNING" => worker[job[a].slot].pid # 0)
  BY <1>1 DEF ManagerInv, SlotInv
<1>3. ASSUME NEW k \in kids \ Exempt, home[k] = job[a].slot PROVE MyChild(a, k)
  <2>1. Held(k)
    BY <1>1, <1>3 DEF ManagerInv, HeldInv
  <2>2. \A b \in Actors : job[b].step # "none" /\ job[b].slot = home[k] => b = a
    BY <1>1, <1>3 DEF ManagerInv, HandsInv
  <2>3. \A b \in Actors : job[b].step = "pid" \/ job[b].step \in Keeping => job[b].step # "none"
    BY DEF Keeping
  <2> QED
    BY <1>3, <2>1, <2>2, <2>3 DEF Held, MyChild
<1> QED
  BY <1>2, <1>3

LEMMA Holder ==
    ASSUME ManagerInv, job[0].step # "none"
    PROVE  \E c \in Callers :
        /\ mutex = c /\ phase[c] \in Filling \cup Emptying
        /\ \A d \in Callers : d = c \/ phase[d] \in {"idle", "sleep"}
        /\ phase[c] \in Filling => job[0].step # "look"
        /\ phase[c] \in Emptying => job[0].step \notin StartSteps
  BY DEF ManagerInv, HandsInv, ControlInv, Filling, Emptying

(* A step that leaves the children as they are. *)
LEMMA KidsStay ==
    ASSUME ManagerTypes, NEW a \in Actors, kids' \subseteq kids, UNCHANGED <<next, home>>
    PROVE  KidsGo(a)
  BY PoolManagerAssumption DEF ManagerTypes, KidsGo

LEMMA LookOrderly ==
    ASSUME ManagerInv, state # "NONE", NEW a \in Actors, Look(a)
    PROVE  Orderly(a)
<1> DEFINE had == worker[job[a].slot]
<1> USE DEF Look, Mine, From
<1>1. ManagerTypes /\ had \in WorkerRec /\ (a > 0 <=> a # 0) /\ (had.pid > 0 <=> had.pid # 0)
  BY Jobs, ActorsAre, PoolManagerAssumption DEF ManagerInv, WorkerRec, Actors
<1>2. /\ job[a].step = "look" /\ worker' = worker /\ UNCHANGED <<callVars, kidVars, ghostVars>>
      /\ JobMoves(a) /\ job'[a].step \in {"stop", "nothing", "none"}
      /\ job'[a].step = "stop" => job'[a].slot = job[a].slot /\ (a > 0 \/ had.pid # 0)
      /\ job'[a].step = "nothing" => job'[a].slot = job[a].slot /\ a = 0 /\ had.pid = 0
      /\ job'[a].step = "none" => a # 0 /\ had.pid # 0
  <2>1. CASE Goto(a, "stop") /\ (a > 0 \/ had.pid > 0)
    BY <1>1, <2>1, Goes, StepNames
  <2>2. CASE Goto(a, "nothing") /\ a = 0 /\ had.pid = 0
    BY <1>1, <2>2, Goes, StepNames
  <2>3. CASE job' = [job EXCEPT ![a] = NoJob] /\ a > 0 /\ had.pid > 0
    BY <1>1, <2>3, Moves, NoJobIsJob
  <2> QED
    BY <2>1, <2>2, <2>3
<1>6. StaysInSlot(a) /\ KidsGo(a)
  BY <1>1, <1>2, KidsStay, Keeps DEF StaysInSlot, kidVars, ghostVars
<1>7. StepsGo(a)
  BY <1>1, <1>2 DEF StepsGo, StartSteps, StartedSteps
<1>8. SlotGo(a)
  BY <1>1, <1>2, Here, Keeps DEF SlotGo, SlotOk, StartSteps, StartedSteps, StopSteps, Keeping,
     kidVars, ghostVars
<1>9. HeldGo(a)
  BY <1>1, <1>2, Here, Keeps DEF HeldGo, SlotOk, MyChild, Exempt, Keeping, StopSteps, StartSteps,
     StartedSteps, kidVars, ghostVars
<1>10. UsedGo(a) /\ StrayGo(a) /\ KillGo(a)
  BY <1>1, <1>2, Here, Keeps DEF UsedGo, StrayGo, KillGo, SlotOk, StartSteps, StartedSteps,
     StopSteps, kidVars, ghostVars
<1> QED
  BY <1>6, <1>7, <1>8, <1>9, <1>10 DEF Orderly

LEMMA StopTestsOrderly ==
    ASSUME ManagerInv, state # "NONE", NEW a \in Actors, StopTests(a)
    PROVE  Orderly(a)
<1> DEFINE had == worker[job[a].slot]
<1> USE DEF StopTests, Mine, From
<1>1. ManagerTypes /\ had \in WorkerRec /\ (had.pid > 0 <=> had.pid # 0)
  BY Jobs DEF ManagerInv, WorkerRec
<1>2. worker' = worker /\ UNCHANGED <<callVars, kidVars, ghostVars>>
  OBVIOUS
<1>3. /\ JobMoves(a) /\ job'[a].slot = job[a].slot
      /\ \/ job[a].step = "stop" /\ job'[a].step = "state" /\ had.pid # 0
         \/ job[a].step = "state" /\ job'[a].step = "stopping" /\ had.st = "RUNNING"
         \/ /\ (job[a].step = "stop" /\ had.pid = 0) \/ (job[a].step = "state" /\ had.st # "RUNNING")
            /\ job'[a].step \in {"destroy", "clear"}
  <2>1. CASE From(a, "stop") /\ had.pid > 0
    BY <1>1, <2>1, Goes, StepNames
  <2>2. CASE From(a, "state") /\ had.st = "RUNNING"
    BY <1>1, <2>2, Goes, StepNames
  <2>3. CASE (From(a, "stop") /\ ~(had.pid > 0)) \/ (From(a, "state") /\ had.st # "RUNNING")
    <3>1. StopEnds(a)
      BY <2>3
    <3> QED
      BY <1>1, <2>3, <3>1, Ends
  <2> QED
    BY <2>1, <2>2, <2>3
<1>6. StaysInSlot(a) /\ KidsGo(a)
  BY <1>1, <1>2, <1>3, KidsStay, Keeps DEF StaysInSlot, kidVars, ghostVars
<1>7. StepsGo(a)
  BY <1>1, <1>2, <1>3 DEF StepsGo, StartSteps, StartedSteps
<1>8. SlotGo(a)
  BY <1>1, <1>2, <1>3, Here, Keeps DEF SlotGo, SlotOk, StartSteps, StartedSteps, StopSteps, Keeping,
     kidVars, ghostVars
<1>9. HeldGo(a)
  BY <1>1, <1>2, <1>3, Here, Keeps DEF HeldGo, SlotOk, MyChild, Exempt, Keeping, StopSteps, StartSteps,
     StartedSteps, kidVars, ghostVars
<1>10. UsedGo(a) /\ StrayGo(a) /\ KillGo(a)
  BY <1>1, <1>2, <1>3, Here, Keeps DEF UsedGo, StrayGo, KillGo, SlotOk, StartSteps, StartedSteps,
     StopSteps, kidVars, ghostVars
<1> QED
  BY <1>6, <1>7, <1>8, <1>9, <1>10 DEF Orderly

LEMMA StopStoresOrderly ==
    ASSUME ManagerInv, state # "NONE", NEW a \in Actors, StopStores(a)
    PROVE  Orderly(a)
<1> DEFINE had == worker[job[a].slot]
           has == worker'[job[a].slot]
<1> USE DEF StopStores, Mine, From
<1>1. ManagerTypes /\ had \in WorkerRec
  BY Jobs DEF ManagerInv
<1>2. UNCHANGED <<callVars, kidVars, ghostVars>>
  OBVIOUS
<1>3. ASSUME NEW s \in WorkerStates
      PROVE  /\ [had EXCEPT !.st = s] \in WorkerRec /\ [had EXCEPT !.st = s].pid = had.pid
             /\ [had EXCEPT !.st = s].st = s
  BY <1>1 DEF WorkerRec
<1>4. /\ [had EXCEPT !.run = FALSE] \in WorkerRec /\ [had EXCEPT !.run = FALSE].pid = had.pid
      /\ [had EXCEPT !.run = FALSE].st = had.st
  BY <1>1 DEF WorkerRec
<1>5. /\ JobMoves(a) /\ job'[a].slot = job[a].slot /\ SlotMoves(a) /\ has.pid = had.pid
      /\ \/ job[a].step = "stopping" /\ job'[a].step = "poll" /\ has.st = "STOPPING"
         \/ job[a].step = "quiet" /\ job'[a].step = "join" /\ has.st = had.st
         \/ job[a].step = "stopped" /\ job'[a].step \in {"destroy", "clear"} /\ has.st = "STOPPED"
  <2>1. CASE /\ From(a, "stopping") /\ Store(a, [Mine(a) EXCEPT !.st = "STOPPING"])
             /\ Goto(a, "poll")
    BY <1>1, <1>3, <2>1, Goes, StepNames, Stores DEF WorkerStates
  <2>2. CASE From(a, "quiet") /\ Store(a, [Mine(a) EXCEPT !.run = FALSE]) /\ Goto(a, "join")
    BY <1>1, <1>4, <2>2, Goes, StepNames, Stores
  <2>3. CASE From(a, "stopped") /\ Store(a, [Mine(a) EXCEPT !.st = "STOPPED"]) /\ StopEnds(a)
    BY <1>1, <1>3, <2>3, Ends, Stores DEF WorkerStates
  <2> QED
    BY <2>1, <2>2, <2>3
<1>6. StaysInSlot(a) /\ KidsGo(a)
  BY <1>1, <1>2, <1>5, KidsStay DEF StaysInSlot, kidVars, ghostVars
<1>7. StepsGo(a)
  BY <1>1, <1>2, <1>5 DEF StepsGo, StartSteps, StartedSteps
<1>8. SlotGo(a)
  BY <1>1, <1>2, <1>5, Here DEF SlotGo, SlotOk, StartSteps, StartedSteps, StopSteps, Keeping,
     kidVars, ghostVars
<1>9. HeldGo(a)
  BY <1>1, <1>2, <1>5, Here DEF HeldGo, SlotOk, MyChild, Exempt, Keeping, StopSteps, StartSteps,
     StartedSteps, kidVars, ghostVars
<1>10. UsedGo(a) /\ StrayGo(a) /\ KillGo(a)
  BY <1>1, <1>2, <1>5, Here DEF UsedGo, StrayGo, KillGo, SlotOk, StartSteps, StartedSteps,
     StopSteps, kidVars, ghostVars
<1> QED
  BY <1>6, <1>7, <1>8, <1>9, <1>10 DEF Orderly

LEMMA StopWaitsOrderly ==
    ASSUME ManagerInv, state # "NONE", NEW a \in Actors, StopWaits(a)
    PROVE  Orderly(a)
<1> DEFINE had == worker[job[a].slot]
<1> USE DEF StopWaits, Mine, From
<1>1. ManagerTypes /\ had \in WorkerRec
  BY Jobs DEF ManagerInv
<1>2. UNCHANGED <<callVars, worker, monitor, next, home, stray, given_up, ghostVars>>
  OBVIOUS
<1>3. /\ JobMoves(a) /\ job'[a].slot = job[a].slot
      /\ \/ /\ job[a].step = "poll" /\ job'[a].step \in {"poll", "probe"}
            /\ kids' \in {kids, kids \ {had.pid}}
         \/ job[a].step = "reap" /\ job'[a].step = "quiet" /\ kids' = kids \ {had.pid}
  <2>1. CASE /\ From(a, "poll") /\ kids' \in {kids, kids \ {had.pid}}
             /\ \E s \in {"poll", "probe"} : Goto(a, s)
    BY <1>1, <2>1, Goes, StepNames
  <2>2. CASE From(a, "reap") /\ kids' = kids \ {had.pid} /\ Goto(a, "quiet")
    BY <1>1, <2>2, Goes, StepNames
  <2> QED
    BY <2>1, <2>2
<1>6. StaysInSlot(a) /\ KidsGo(a)
  BY <1>1, <1>2, <1>3, KidsStay, Keeps DEF StaysInSlot, ghostVars
<1>7. StepsGo(a)
  BY <1>1, <1>2, <1>3 DEF StepsGo, StartSteps, StartedSteps
<1>8. SlotGo(a)
  BY <1>1, <1>2, <1>3, Here, Keeps DEF SlotGo, SlotOk, StartSteps, StartedSteps, StopSteps, Keeping,
     ghostVars
<1>9. HeldGo(a)
  BY <1>1, <1>2, <1>3, Here, Keeps DEF HeldGo, SlotOk, MyChild, Exempt, Keeping, StopSteps, StartSteps,
     StartedSteps, ghostVars
<1>10. UsedGo(a) /\ StrayGo(a) /\ KillGo(a)
  BY <1>1, <1>2, <1>3, Here, Keeps DEF UsedGo, StrayGo, KillGo, SlotOk, StartSteps, StartedSteps,
     StopSteps, ghostVars
<1> QED
  BY <1>6, <1>7, <1>8, <1>9, <1>10 DEF Orderly

LEMMA StopKillsOrderly ==
    ASSUME ManagerInv, state # "NONE", NEW a \in Actors, StopKills(a)
    PROVE  Orderly(a)
<1> DEFINE had == worker[job[a].slot]
<1> USE DEF StopKills, Mine, From
<1>1. ManagerTypes /\ had \in WorkerRec
  BY Jobs DEF ManagerInv
<1>2. /\ UNCHANGED <<callVars, worker, kidVars, clash, gap, failed, overrun>>
      /\ killed' => killed \/ (job[a].step = "kill" /\ had.pid = 0)
  <2>1. CASE From(a, "probe") /\ UNCHANGED killed
    BY <2>1
  <2>2. CASE From(a, "kill") /\ killed' = (had.pid = 0)
    BY <2>2, Zenon
  <2> QED
    BY <2>1, <2>2
<1>3. /\ JobMoves(a) /\ job'[a].slot = job[a].slot
      /\ \/ /\ job[a].step = "probe" /\ job'[a].step \in {"kill", "quiet"}
            /\ job'[a].step = "quiet" => had.pid \notin kids
         \/ job[a].step = "kill" /\ job'[a].step = "reap"
  <2>1. CASE From(a, "probe")
    BY <1>1, <2>1, Goes, StepNames
  <2>2. CASE From(a, "kill")
    BY <1>1, <2>2, Goes, StepNames
  <2> QED
    BY <2>1, <2>2
<1>6. StaysInSlot(a) /\ KidsGo(a)
  BY <1>1, <1>2, <1>3, KidsStay, Keeps DEF StaysInSlot, kidVars
<1>7. StepsGo(a)
  BY <1>1, <1>2, <1>3 DEF StepsGo, StartSteps, StartedSteps
<1>8. SlotGo(a)
  BY <1>1, <1>2, <1>3, Here, Keeps DEF SlotGo, SlotOk, StartSteps, StartedSteps, StopSteps, Keeping,
     kidVars
<1>9. HeldGo(a)
  BY <1>1, <1>2, <1>3, Here, Keeps DEF HeldGo, SlotOk, MyChild, Exempt, Keeping, StopSteps, StartSteps,
     StartedSteps, kidVars
<1>10. UsedGo(a) /\ StrayGo(a) /\ KillGo(a)
  BY <1>1, <1>2, <1>3, Here, Keeps DEF UsedGo, StrayGo, KillGo, SlotOk, StartSteps, StartedSteps,
     StopSteps, kidVars
<1> QED
  BY <1>6, <1>7, <1>8, <1>9, <1>10 DEF Orderly

LEMMA StopJoinsOrderly ==
    ASSUME ManagerInv, state # "NONE", NEW a \in Actors, StopJoins(a)
    PROVE  Orderly(a)
<1> DEFINE had == worker[job[a].slot]
           has == worker'[job[a].slot]
<1> USE DEF StopJoins, Mine, From
<1>1. ManagerTypes /\ had \in WorkerRec /\ job[a] \in JobRec
  BY Jobs DEF ManagerInv
<1>2. UNCHANGED <<callVars, kidVars, ghostVars>>
  OBVIOUS
<1>3. /\ JobMoves(a) /\ job'[a].slot = job[a].slot /\ SlotMoves(a) /\ has.pid = had.pid /\ has.st = had.st
      /\ job[a].step \in {"join", "joining"} /\ job'[a].step \in {"stopped", "joining"}
  <2>1. CASE From(a, "join") /\ worker' = worker /\ Goto(a, "stopped")
    BY <1>1, <2>1, Goes, StepNames, Keeps
  <2>2. CASE /\ From(a, "join") /\ worker' = worker
             /\ job' = [job EXCEPT ![a].step = "joining", ![a].val = Mine(a).mon]
    <3> DEFINE j == [job[a] EXCEPT !.step = "joining", !.val = had.mon]
    <3>1. j \in JobRec /\ j.slot = job[a].slot /\ j.step = "joining"
      BY <1>1, StepNames DEF JobRec, WorkerRec
    <3>2. job' = [job EXCEPT ![a] = j]
      BY <1>1, <2>2 DEF ManagerTypes
    <3> HIDE DEF j
    <3> QED
      BY <1>1, <2>2, <3>1, <3>2, Moves, Keeps
  <2>3. CASE /\ From(a, "joining") /\ Store(a, [Mine(a) EXCEPT !.mon = 0])
             /\ job' = [job EXCEPT ![a].step = "stopped", ![a].val = 0]
    <3> DEFINE j == [job[a] EXCEPT !.step = "stopped", !.val = 0]
    <3>1. j \in JobRec /\ j.slot = job[a].slot /\ j.step = "stopped"
      BY <1>1, StepNames DEF JobRec
    <3>2. job' = [job EXCEPT ![a] = j]
      BY <1>1, <2>3 DEF ManagerTypes
    <3>3. /\ [had EXCEPT !.mon = 0] \in WorkerRec /\ [had EXCEPT !.mon = 0].pid = had.pid
          /\ [had EXCEPT !.mon = 0].st = had.st
      BY <1>1 DEF WorkerRec
    <3> HIDE DEF j
    <3> QED
      BY <1>1, <2>3, <3>1, <3>2, <3>3, Moves, Stores
  <2> QED
    BY <2>1, <2>2, <2>3
<1>6. StaysInSlot(a) /\ KidsGo(a)
  BY <1>1, <1>2, <1>3, KidsStay DEF StaysInSlot, kidVars, ghostVars
<1>7. StepsGo(a)
  BY <1>1, <1>2, <1>3 DEF StepsGo, StartSteps, StartedSteps
<1>8. SlotGo(a)
  BY <1>1, <1>2, <1>3, Here DEF SlotGo, SlotOk, StartSteps, StartedSteps, StopSteps, Keeping,
     kidVars, ghostVars
<1>9. HeldGo(a)
  BY <1>1, <1>2, <1>3, Here DEF HeldGo, SlotOk, MyChild, Exempt, Keeping, StopSteps, StartSteps,
     StartedSteps, kidVars, ghostVars
<1>10. UsedGo(a) /\ StrayGo(a) /\ KillGo(a)
  BY <1>1, <1>2, <1>3, Here DEF UsedGo, StrayGo, KillGo, SlotOk, StartSteps, StartedSteps,
     StopSteps, kidVars, ghostVars
<1> QED
  BY <1>6, <1>7, <1>8, <1>9, <1>10 DEF Orderly

LEMMA WorkerDestroyOrderly ==
    ASSUME ManagerInv, state # "NONE", NEW a \in Actors, WorkerDestroy(a)
    PROVE  Orderly(a)
<1> DEFINE had == worker[job[a].slot]
           has == worker'[job[a].slot]
<1> USE DEF WorkerDestroy, Mine, From
<1>1. ManagerTypes /\ had \in WorkerRec /\ job[a] \in JobRec /\ (a > 0 <=> a # 0)
  BY Jobs, ActorsAre, PoolManagerAssumption DEF ManagerInv, Actors
<1>2. UNCHANGED <<callVars, kidVars, ghostVars>>
  OBVIOUS
<1>3. /\ JobMoves(a) /\ job'[a].slot = job[a].slot /\ SlotMoves(a)
      /\ \/ /\ job[a].step = "destroy" /\ has = had
            /\ \/ had.st = "RUNNING" /\ job'[a].step = "stop"
               \/ had.st # "RUNNING" /\ job'[a].step = "clear"
         \/ /\ job[a].step = "clear" /\ has = Empty
            /\ job'[a].step = IF a # 0 THEN "create" ELSE
                              IF phase[mutex] \in {"start", "grow"} THEN "nothing" ELSE "done"
  <2>1. CASE /\ From(a, "destroy") /\ worker' = worker /\ had.st = "RUNNING"
             /\ job' = [job EXCEPT ![a].step = "stop", ![a].nested = TRUE]
    <3> DEFINE j == [job[a] EXCEPT !.step = "stop", !.nested = TRUE]
    <3>1. j \in JobRec /\ j.slot = job[a].slot /\ j.step = "stop"
      BY <1>1, StepNames DEF JobRec
    <3>2. job' = [job EXCEPT ![a] = j]
      BY <1>1, <2>1 DEF ManagerTypes
    <3> HIDE DEF j
    <3> QED
      BY <1>1, <2>1, <3>1, <3>2, Moves, Keeps
  <2>2. CASE From(a, "destroy") /\ worker' = worker /\ had.st # "RUNNING" /\ Goto(a, "clear")
    BY <1>1, <2>2, Goes, StepNames, Keeps
  <2>3. CASE /\ From(a, "clear") /\ Store(a, Empty)
             /\ Goto(a, IF a > 0 THEN "create" ELSE
                        IF phase[mutex] \in {"start", "grow"} THEN "nothing" ELSE "done")
    <3> DEFINE s == IF a > 0 THEN "create" ELSE
                    IF phase[mutex] \in {"start", "grow"} THEN "nothing" ELSE "done"
    <3>1. s \in JobSteps
      BY StepNames
    <3>2. Goto(a, s)
      BY <2>3
    <3> HIDE DEF s
    <3>3. JobMoves(a) /\ job'[a].step = s /\ job'[a].slot = job[a].slot
      BY <1>1, <3>1, <3>2, Goes
    <3>4. SlotMoves(a) /\ has = Empty
      BY <1>1, <2>3, Zeroed, Stores
    <3> QED
      BY <1>1, <2>3, <3>3, <3>4 DEF s
  <2> QED
    BY <2>1, <2>2, <2>3
<1>4. ASSUME a = 0, job[a].step = "clear"
      PROVE  /\ job'[a].step \in {"nothing", "done"}
             /\ job'[a].step = "nothing" => \A c \in Callers : phase[c] \notin Emptying
             /\ job'[a].step = "done" => \A c \in Callers : phase[c] \notin Filling
  <2>1. PICK c \in Callers :
        /\ mutex = c /\ phase[c] \in Filling \cup Emptying
        /\ \A d \in Callers : d = c \/ phase[d] \in {"idle", "sleep"}
    BY <1>4, Holder
  <2> QED
    BY <1>3, <1>4, <2>1 DEF Filling, Emptying
<1>5. KidsGo(a)
  BY <1>1, <1>2, KidsStay DEF kidVars
<1>6. HeldGo(a)
  BY <1>1, <1>2, <1>3, Here DEF HeldGo, SlotOk, MyChild, Exempt, Keeping, kidVars, ghostVars
<1>7. SlotGo(a)
  BY <1>1, <1>2, <1>3, <1>4, Here, Zeroed DEF SlotGo, SlotOk, StopSteps, callVars
<1> QED
  BY <1>1, <1>2, <1>3, <1>4, <1>5, <1>6, <1>7 DEF Orderly, StaysInSlot, StepsGo,
     UsedGo, StrayGo, KillGo, kidVars, ghostVars, StartSteps, StartedSteps, Filling, Emptying

LEMMA WorkerCreateOrderly ==
    ASSUME ManagerInv, state # "NONE", NEW a \in Actors, WorkerCreate(a)
    PROVE  Orderly(a)
<1> DEFINE had == worker[job[a].slot]
           has == worker'[job[a].slot]
<1> USE DEF WorkerCreate, Mine, From
<1>1. ManagerTypes /\ had \in WorkerRec /\ job[a] \in JobRec /\ (a > 0 <=> a # 0)
  BY Jobs, ActorsAre, PoolManagerAssumption DEF ManagerInv, Actors
<1>2. /\ UNCHANGED <<callVars, monitor, kids, next, home, given_up, clash, failed, overrun, killed>>
      /\ job[a].step = "create" /\ SlotMoves(a) /\ has = Empty
      /\ stray' = IF a = 0 /\ stray # {} THEN stray \cup {had.pid} ELSE stray
  BY <1>1, Zeroed, Stores
<1>3. /\ JobMoves(a)
      /\ \/ /\ job'[a].step = "start" /\ job'[a].slot = job[a].slot /\ gap' = gap
         \/ a # 0 /\ job'[a].step = "none" /\ gap' = TRUE
         \/ a = 0 /\ job'[a].step = "nothing" /\ job'[a].slot = job[a].slot /\ gap' = gap
  <2>1. CASE Goto(a, "start") /\ UNCHANGED gap
    BY <1>1, <2>1, Goes, StepNames
  <2>2. CASE a > 0 /\ RestartFails(a)
    BY <1>1, <2>2, Moves, NoJobIsJob DEF RestartFails
  <2>3. CASE a = 0 /\ Goto(a, "nothing") /\ UNCHANGED gap
    BY <1>1, <2>3, Goes, StepNames
  <2> QED
    BY <2>1, <2>2, <2>3
<1>4. ASSUME a = 0 PROVE \A c \in Callers : phase[c] \notin Emptying
  BY <1>2, <1>4, Holder DEF StartSteps, Filling, Emptying
<1>5. KidsGo(a)
  BY <1>1, <1>2, KidsStay
<1>6. HeldGo(a)
  BY <1>1, <1>2, <1>3, Here DEF HeldGo, SlotOk, MyChild, Exempt, Keeping
<1> QED
  BY <1>1, <1>2, <1>3, <1>4, <1>5, <1>6, Here, Zeroed DEF Orderly, StaysInSlot, StepsGo, SlotGo,
     UsedGo, StrayGo, KillGo, SlotOk, StartSteps, StartedSteps, StopSteps, Filling, Emptying

LEMMA StartForksOrderly ==
    ASSUME ManagerInv, state # "NONE", NEW a \in Actors, StartForks(a)
    PROVE  Orderly(a)
<1> DEFINE had == worker[job[a].slot]
           has == worker'[job[a].slot]
<1> USE DEF StartForks, Mine, From
<1>1. ManagerTypes /\ had \in WorkerRec /\ job[a] \in JobRec /\ (a > 0 <=> a # 0) /\ job[a].slot \in Slots
  BY Jobs, ActorsAre, PoolManagerAssumption DEF ManagerInv, Actors
<1>2. ASSUME NEW s \in WorkerStates
      PROVE  /\ [had EXCEPT !.st = s] \in WorkerRec /\ [had EXCEPT !.st = s].pid = had.pid
             /\ [had EXCEPT !.st = s].st = s
  BY <1>1 DEF WorkerRec
<1>3. UNCHANGED <<callVars, clash, failed, overrun, killed>>
  OBVIOUS
<1>4. ASSUME StartFails(a)
      PROVE  /\ JobMoves(a)
             /\ \/ a = 0 /\ job'[a].step = "destroy" /\ job'[a].slot = job[a].slot /\ gap' = gap
                \/ a # 0 /\ job'[a].step = "none" /\ gap' = TRUE
  <2>1. CASE a = 0 /\ Goto(a, "destroy") /\ UNCHANGED gap
    BY <1>1, <2>1, Goes, StepNames
  <2>2. CASE a # 0 /\ RestartFails(a)
    BY <1>1, <2>2, Moves, NoJobIsJob DEF RestartFails
  <2> QED
    BY <1>4, <2>1, <2>2 DEF StartFails
<1>5. ASSUME job[a].step \in {"start", "fork"}, a = 0
      PROVE  \A c \in Callers : phase[c] \notin Emptying
  BY <1>5, Holder DEF StartSteps, Filling, Emptying
<1>6. CASE From(a, "start") /\ UNCHANGED <<worker, kidVars>>
  <2>1. \/ /\ JobMoves(a) /\ job'[a].step = "fork" /\ job'[a].slot = job[a].slot /\ gap' = gap
           /\ had.st = "CREATED"
        \/ StartFails(a)
    BY <1>1, <1>6, Goes, StepNames
  <2>2. SlotMoves(a) /\ has = had /\ KidsGo(a)
    BY <1>1, <1>6, Keeps, KidsStay DEF kidVars
  <2>3. /\ JobMoves(a)
        /\ \/ job'[a].step \in {"fork", "destroy"} /\ job'[a].slot = job[a].slot /\ gap' = gap
           \/ a # 0 /\ job'[a].step = "none" /\ gap' = TRUE
        /\ a # 0 => job'[a].step # "destroy"
    BY <1>4, <2>1
  <2>4. HeldGo(a)
    BY <1>6, <2>2, Here DEF HeldGo, SlotOk, MyChild, Exempt, Keeping, kidVars
  <2>5. SlotGo(a)
    BY <1>3, <1>6, <2>2, <2>3, Here DEF SlotGo, SlotOk, StopSteps
  <2>6. StaysInSlot(a)
    BY <1>3, <1>6, <2>2, <2>3 DEF StaysInSlot, kidVars
  <2> QED
    BY <1>1, <1>3, <1>5, <1>6, <2>2, <2>3, <2>4, <2>5, <2>6 DEF Orderly, StepsGo,
       UsedGo, StrayGo, KillGo, StartedSteps
<1>7. CASE /\ From(a, "fork") /\ next <= MaxKids /\ UNCHANGED <<gap, monitor, given_up>>
           /\ Store(a, [Mine(a) EXCEPT !.st = "STARTING"])
           /\ job' = [job EXCEPT ![a].step = "pid", ![a].val = next]
           /\ next' = next + 1 /\ kids' = kids \cup {next}
           /\ home' = [home EXCEPT ![next] = job[a].slot]
           /\ stray' = IF state \in {"CREATED", "STOPPED"} THEN stray \cup {next} ELSE stray
  <2>1. next \in Nat /\ next >= 1 /\ next \in Kids /\ MaxKids \in Nat
    BY <1>1, <1>7, PoolManagerAssumption DEF ManagerTypes, Kids
  <2>2. SlotMoves(a) /\ has.pid = had.pid /\ has.st = "STARTING"
    BY <1>1, <1>2, <1>7, Stores DEF WorkerStates
  <2>3. JobMoves(a) /\ job'[a].slot = job[a].slot /\ job'[a].step = "pid" /\ job'[a].val = next
    <3> DEFINE j == [job[a] EXCEPT !.step = "pid", !.val = next]
    <3>1. j \in JobRec /\ j.slot = job[a].slot /\ j.step = "pid" /\ j.val = next
      BY <1>1, <2>1, StepNames DEF JobRec
    <3>2. job' = [job EXCEPT ![a] = j]
      BY <1>1, <1>7 DEF ManagerTypes
    <3> HIDE DEF j
    <3> QED
      BY <1>1, <3>1, <3>2, Moves
  <2>4. home' \in [Kids -> Slots] /\ home'[next] = job[a].slot /\ \A k \in Kids \ {next} : home'[k] = home[k]
    BY <1>1, <1>7, <2>1 DEF ManagerTypes
  <2>5. /\ next' \in 1 .. MaxKids + 1 /\ next <= next' /\ 1 .. next' - 1 = (1 .. next - 1) \cup {next}
        /\ 1 .. next - 1 \subseteq Kids \ {next}
    BY <1>7, <2>1 DEF Kids
  <2>6. KidsGo(a)
    BY <1>1, <1>7, <2>4, <2>5 DEF KidsGo, ManagerTypes
  <2>7. HeldGo(a)
    <3> SUFFICES ASSUME job[a].slot \notin clash, NEW k \in kids' \ Exempt', home'[k] = job[a].slot
                 PROVE  job'[a].step = "pid" /\ job'[a].val = k
      BY DEF HeldGo
    <3>1. CASE k = next
      BY <2>3, <3>1
    <3>2. CASE k # next
      <4>1. k \in kids /\ k \in 1 .. next - 1 /\ k \notin Exempt /\ k \in Nat /\ k >= 1
        BY <1>1, <1>7, <2>1, <3>2 DEF ManagerTypes, Exempt
      <4>2. home[k] = job[a].slot
        BY <2>4, <2>5, <4>1
      <4>3. MyChild(a, k) /\ SlotOk(a)
        BY <1>7, <4>1, <4>2, Here
      <4> QED
        BY <1>7, <4>1, <4>3 DEF MyChild, SlotOk
    <3> QED
      BY <3>1, <3>2
  <2>8. SlotGo(a)
    BY <1>3, <1>7, <2>1, <2>2, <2>3, <2>4, <2>5, Here DEF SlotGo, SlotOk, StopSteps
  <2>9. StaysInSlot(a)
    BY <1>3, <1>7, <2>2, <2>3 DEF StaysInSlot
  <2>10. StrayGo(a)
    BY <1>7 DEF StrayGo
  <2>11. job[a].step = "fork" /\ (a = 0 => \A c \in Callers : phase[c] \notin Emptying)
    BY <1>5, <1>7
  <2>12. StepsGo(a) /\ UsedGo(a) /\ KillGo(a)
    BY <1>3, <2>3, <2>11 DEF StepsGo, UsedGo, KillGo
  <2> QED
    BY <2>6, <2>7, <2>8, <2>9, <2>10, <2>12 DEF Orderly
<1>8. CASE /\ From(a, "fork") /\ UNCHANGED kidVars
           /\ Store(a, [Mine(a) EXCEPT !.st = "ERROR"]) /\ StartFails(a)
  <2>1. SlotMoves(a) /\ has.pid = had.pid /\ has.st = "ERROR" /\ KidsGo(a)
    BY <1>1, <1>2, <1>8, Stores, KidsStay DEF WorkerStates, kidVars
  <2>2. /\ JobMoves(a)
        /\ \/ job'[a].step = "destroy" /\ job'[a].slot = job[a].slot /\ gap' = gap
           \/ a # 0 /\ job'[a].step = "none" /\ gap' = TRUE
        /\ a # 0 => job'[a].step # "destroy"
    BY <1>4, <1>8
  <2>3. HeldGo(a)
    BY <1>8, <2>1, Here DEF HeldGo, SlotOk, MyChild, Exempt, Keeping, kidVars
  <2>4. SlotGo(a)
    BY <1>3, <1>8, <2>1, <2>2, Here DEF SlotGo, SlotOk, StopSteps
  <2>5. StaysInSlot(a)
    BY <1>3, <1>8, <2>1, <2>2 DEF StaysInSlot, kidVars
  <2> QED
    BY <1>1, <1>3, <1>5, <1>8, <2>1, <2>2, <2>3, <2>4, <2>5 DEF Orderly, StepsGo,
       UsedGo, StrayGo, KillGo, StartedSteps
<1> QED
  BY <1>6, <1>7, <1>8

LEMMA StartStoresOrderly ==
    ASSUME ManagerInv, state # "NONE", NEW a \in Actors, StartStores(a)
    PROVE  Orderly(a)
<1> DEFINE had == worker[job[a].slot]
           has == worker'[job[a].slot]
<1> USE DEF StartStores, Mine, From
<1>1. ManagerTypes /\ had \in WorkerRec /\ job[a] \in JobRec
  BY Jobs DEF ManagerInv
<1>2. UNCHANGED <<callVars, kidVars, ghostVars>>
  OBVIOUS
<1>3. /\ JobMoves(a) /\ job'[a].slot = job[a].slot /\ job'[a].val = job[a].val /\ SlotMoves(a)
      /\ \/ job[a].step = "pid" /\ job'[a].step = "run" /\ has.pid = job[a].val /\ has.st = had.st
         \/ job[a].step = "run" /\ job'[a].step = "watch" /\ has.pid = had.pid /\ has.st = "RUNNING"
         \/ job[a].step = "watch" /\ job'[a].step = "thread" /\ has.pid = had.pid /\ has.st = had.st
  <2>1. CASE From(a, "pid") /\ Store(a, [Mine(a) EXCEPT !.pid = job[a].val]) /\ Goto(a, "run")
    <3>1. /\ [had EXCEPT !.pid = job[a].val] \in WorkerRec
          /\ [had EXCEPT !.pid = job[a].val].pid = job[a].val /\ [had EXCEPT !.pid = job[a].val].st = had.st
      BY <1>1 DEF WorkerRec, JobRec
    <3> QED
      BY <1>1, <2>1, <3>1, Goes, StepNames, Stores
  <2>2. CASE From(a, "run") /\ Store(a, [Mine(a) EXCEPT !.st = "RUNNING"]) /\ Goto(a, "watch")
    <3>1. /\ [had EXCEPT !.st = "RUNNING"] \in WorkerRec
          /\ [had EXCEPT !.st = "RUNNING"].pid = had.pid /\ [had EXCEPT !.st = "RUNNING"].st = "RUNNING"
      BY <1>1 DEF WorkerRec, WorkerStates
    <3> QED
      BY <1>1, <2>2, <3>1, Goes, StepNames, Stores
  <2>3. CASE From(a, "watch") /\ Store(a, [Mine(a) EXCEPT !.run = TRUE]) /\ Goto(a, "thread")
    <3>1. /\ [had EXCEPT !.run = TRUE] \in WorkerRec
          /\ [had EXCEPT !.run = TRUE].pid = had.pid /\ [had EXCEPT !.run = TRUE].st = had.st
      BY <1>1 DEF WorkerRec
    <3> QED
      BY <1>1, <2>3, <3>1, Goes, StepNames, Stores
  <2> QED
    BY <2>1, <2>2, <2>3
<1>4. a = 0 => \A c \in Callers : phase[c] \notin Emptying
  BY <1>3, Holder DEF StartSteps, StartedSteps, Filling, Emptying
<1>5. HeldGo(a)
  BY <1>2, <1>3, Here DEF HeldGo, SlotOk, MyChild, Exempt, Keeping, kidVars
<1>6. SlotGo(a)
  <2>1. job[a].slot \notin clash /\ job[a].step = "pid" => job[a].val # 0
    BY <1>1, <1>2, <1>3, Here, PoolManagerAssumption DEF SlotOk, ManagerTypes
  <2> QED
    BY <1>2, <1>3, <2>1, Here DEF SlotGo, SlotOk, StopSteps
<1>7. KidsGo(a) /\ StaysInSlot(a)
  BY <1>1, <1>2, <1>3, KidsStay DEF StaysInSlot, kidVars, ghostVars
<1> QED
  BY <1>2, <1>3, <1>4, <1>5, <1>6, <1>7 DEF Orderly, StepsGo, UsedGo, StrayGo, KillGo, ghostVars,
     StartedSteps

LEMMA StartMonitorOrderly ==
    ASSUME ManagerInv, state # "NONE", NEW a \in Actors, StartMonitor(a)
    PROVE  Orderly(a)
<1> DEFINE had == worker[job[a].slot]
           has == worker'[job[a].slot]
<1> USE DEF StartMonitor, Mine, From
<1>1. ManagerTypes /\ had \in WorkerRec /\ job[a] \in JobRec
  BY Jobs DEF ManagerInv
<1>2. UNCHANGED <<callVars, kids, next, home, stray, given_up, ghostVars>> /\ job[a].step = "thread"
  OBVIOUS
<1>3. SlotMoves(a) /\ has.pid = had.pid /\ has.st = had.st
  <2>1. CASE Store(a, [Mine(a) EXCEPT !.mon = job[a].val])
    <3>1. /\ [had EXCEPT !.mon = job[a].val] \in WorkerRec
          /\ [had EXCEPT !.mon = job[a].val].pid = had.pid /\ [had EXCEPT !.mon = job[a].val].st = had.st
      BY <1>1 DEF WorkerRec, JobRec
    <3> QED
      BY <1>1, <2>1, <3>1, Stores
  <2> QED
    BY <1>1, <2>1, Keeps
<1>4. /\ JobMoves(a)
      /\ \/ a = 0 /\ job'[a].step = "done" /\ job'[a].slot = job[a].slot
         \/ a # 0 /\ job'[a].step = "none"
  <2>1. CASE a = 0
    <3> DEFINE j == [job[a] EXCEPT !.step = "done", !.val = 0]
    <3>1. j \in JobRec /\ j.slot = job[a].slot /\ j.step = "done"
      BY <1>1, StepNames DEF JobRec
    <3>2. job' = [job EXCEPT ![a] = j]
      BY <2>1
    <3> HIDE DEF j
    <3> QED
      BY <1>1, <2>1, <3>1, <3>2, Moves
  <2>2. CASE a # 0
    BY <1>1, <2>2, Moves, NoJobIsJob
  <2> QED
    BY <2>1, <2>2
<1>5. a = 0 => \A c \in Callers : phase[c] \notin Emptying
  BY <1>2, Holder DEF StartSteps, StartedSteps, Filling, Emptying
<1>6. HeldGo(a)
  BY <1>2, <1>3, Here DEF HeldGo, SlotOk, MyChild, Exempt, Keeping
<1>7. SlotGo(a)
  BY <1>2, <1>3, <1>4, <1>5, Here DEF SlotGo, SlotOk, StopSteps, callVars
<1>8. KidsGo(a) /\ StaysInSlot(a)
  BY <1>1, <1>2, <1>3, <1>4, KidsStay DEF StaysInSlot, ghostVars
<1>9. UsedGo(a)
  BY <1>2, <1>3, <1>4, Here DEF UsedGo, SlotOk
<1> QED
  BY <1>2, <1>4, <1>5, <1>6, <1>7, <1>8, <1>9 DEF Orderly, StepsGo, StrayGo, KillGo, ghostVars,
     StartSteps, StartedSteps

LEMMA WorkerFunctionsOrderly ==
    ASSUME ManagerInv, state # "NONE", NEW a \in Actors, WorkerFunctions(a)
    PROVE  Orderly(a)
  BY LookOrderly, StopTestsOrderly, StopStoresOrderly, StopWaitsOrderly, StopKillsOrderly,
     StopJoinsOrderly, WorkerDestroyOrderly, WorkerCreateOrderly, StartForksOrderly,
     StartStoresOrderly, StartMonitorOrderly DEF WorkerFunctions

(* So a step of the worker functions keeps the invariant. *)
LEMMA WorkerControl ==
    ASSUME ManagerInv, NEW a \in Actors, Orderly(a)
    PROVE  ControlInv' /\ ManagerTypes' /\ LoopsInv' /\ SizeInv'
<1>1. UNCHANGED <<callVars, clash, failed, overrun>>
  BY DEF Orderly, StaysInSlot
<1>2. ControlInv'
  BY <1>1 DEF ManagerInv, ControlInv, callVars, Stopping
<1>3. LoopsInv' /\ SizeInv'
  BY <1>1 DEF ManagerInv, LoopsInv, SizeInv, Kept, callVars
<1>4. ManagerTypes'
  BY DEF Orderly, StaysInSlot, JobMoves, SlotMoves, KidsGo, ManagerTypes
<1> QED
  BY <1>2, <1>3, <1>4

LEMMA WorkerHands ==
    ASSUME ManagerInv, NEW a \in Actors, state # "NONE", Orderly(a)
    PROVE  HandsInv'
<1>1. UNCHANGED <<callVars, clash>> /\ job[a].step # "none" /\ JobMoves(a)
  BY DEF Orderly, StaysInSlot
<1>2. \A b \in Actors : job'[b].step # "none" => job[b].step # "none" /\ job'[b].slot = job[b].slot
  BY <1>1 DEF JobMoves
<1>3. \A b \in Actors \ {a} : job'[b] = job[b]
  BY <1>1 DEF JobMoves
<1>4. ASSUME job'[0].step # "none"
      PROVE  /\ at' < to' /\ at' \in Slots /\ job'[0].slot = at'
             /\ \E c \in Callers : phase'[c] \in Filling \cup Emptying
             /\ \A c \in Callers :
                /\ phase'[c] \in Filling => job'[0].step # "look"
                /\ phase'[c] \in Emptying => job'[0].step \notin StartSteps
  <2>1. job[0].step # "none" /\ job'[0].slot = job[0].slot /\ phase' = phase /\ at' = at /\ to' = to
    BY <1>1, <1>2, <1>4, ActorsAre DEF callVars
  <2>2. CASE a = 0
    BY <2>1, <2>2 DEF ManagerInv, HandsInv, Orderly, StepsGo
  <2>3. CASE a # 0
    BY <1>3, <2>1, <2>3, ActorsAre DEF ManagerInv, HandsInv
  <2> QED
    BY <2>2, <2>3
<1>5. ASSUME NEW n \in Loops, job'[n].step # "none"
      PROVE  n \in loops' /\ job'[n].step \notin {"done", "nothing"}
  <2>1. n \in Actors /\ n # 0 /\ loops' = loops
    BY <1>1, ActorsAre DEF callVars
  <2>2. CASE n = a
    BY <1>1, <1>5, <2>1, <2>2 DEF ManagerInv, HandsInv, Orderly, StepsGo
  <2>3. CASE n # a
    BY <1>3, <1>5, <2>1, <2>3 DEF ManagerInv, HandsInv
  <2> QED
    BY <2>2, <2>3
<1>6. ASSUME NEW b \in Actors, NEW d \in Actors, job'[b].step # "none", job'[d].step # "none",
             job'[b].slot = job'[d].slot
      PROVE  b = d \/ job'[b].slot \in clash'
  <2>1. job[b].step # "none" /\ job[d].step # "none" /\ job[b].slot = job[d].slot /\ job'[b].slot = job[b].slot
    BY <1>2, <1>6
  <2> QED
    BY <1>1, <2>1 DEF ManagerInv, HandsInv
<1>7. state' # "NONE"
  BY <1>1 DEF callVars
<1> QED
  BY <1>4, <1>5, <1>6, <1>7 DEF HandsInv

(* What the others know stays true. *)
LEMMA WorkerSlot ==
    ASSUME ManagerInv, NEW a \in Actors, state # "NONE", Orderly(a)
    PROVE  SlotInv'
<1>1. UNCHANGED <<callVars, clash>> /\ job[a].step # "none" /\ JobMoves(a) /\ SlotMoves(a)
      /\ stray \subseteq stray'
  BY DEF Orderly, StaysInSlot
<1>2. ASSUME NEW i \in Slots \ clash', worker'[i].st = "RUNNING" PROVE worker'[i].pid # 0
  <2>1. CASE i = job[a].slot
    BY <1>1, <1>2, <2>1 DEF Orderly, SlotGo
  <2>2. CASE i # job[a].slot
    BY <1>1, <1>2, <2>2 DEF SlotMoves, ManagerInv, SlotInv
  <2> QED
    BY <2>1, <2>2
<1>3. ASSUME NEW b \in Actors, job'[b].step # "none", job'[b].slot \notin clash' PROVE SlotOk(b)'
  <2>1. CASE b = a
    BY <1>1, <1>3, <2>1 DEF Orderly, SlotGo, JobMoves
  <2>2. CASE b # a
    <3>1. job'[b] = job[b] /\ job[b].step # "none" /\ job[b].slot \notin clash /\ job[b].slot \in Slots
      BY <1>1, <1>3, <2>2, Jobs DEF JobMoves, ManagerInv
    <3>2. job[b].slot # job[a].slot
      BY <1>1, <2>2, <3>1 DEF ManagerInv, HandsInv
    <3>3. worker'[job[b].slot] = worker[job[b].slot]
      BY <1>1, <3>1, <3>2 DEF SlotMoves
    <3>4. SlotOk(b)
      BY <3>1 DEF ManagerInv, SlotInv
    <3>5. /\ \A k \in 1 .. next - 1 : home'[k] = home[k]
          /\ \A k \in 1 .. next - 1 : k \in 1 .. next' - 1
      <4>1. /\ next \in 1 .. MaxKids + 1 /\ next' \in 1 .. MaxKids + 1 /\ next <= next'
            /\ \A k \in 1 .. next - 1 : home'[k] = home[k]
        BY DEF Orderly, KidsGo, ManagerInv, ManagerTypes
      <4>2. 1 .. next - 1 \subseteq 1 .. next' - 1
        BY <4>1, Numbers
      <4> QED
        BY <4>1, <4>2
    <3>6. phase' = phase /\ (stray' = {} => stray = {})
      BY <1>1 DEF callVars
    <3> QED
      BY <3>1, <3>3, <3>4, <3>5, <3>6 DEF SlotOk
  <2> QED
    BY <2>1, <2>2
<1> QED
  BY <1>2, <1>3 DEF SlotInv

LEMMA WorkerHeld ==
    ASSUME ManagerInv, NEW a \in Actors, state # "NONE", Orderly(a)
    PROVE  HeldInv' /\ QuietInv'
<1>1. UNCHANGED <<callVars, clash>> /\ job[a].step # "none" /\ JobMoves(a) /\ SlotMoves(a)
      /\ stray \subseteq stray' /\ given_up' = given_up /\ KidsGo(a) /\ ManagerTypes
  BY DEF Orderly, StaysInSlot, ManagerInv
<1>2. Exempt \subseteq Exempt'
  BY <1>1 DEF Exempt
<1>3. ASSUME NEW k \in kids' \ Exempt', home'[k] \notin clash' PROVE Held(k)'
  <2>1. home'[k] \in Slots /\ k \in Kids
    <3>1. /\ next \in 1 .. MaxKids + 1 /\ next' \in 1 .. MaxKids + 1 /\ next <= next'
          /\ kids' \subseteq 1 .. next' - 1 /\ home' \in [Kids -> Slots]
      BY <1>1 DEF KidsGo, ManagerTypes
    <3>2. k \in Kids
      BY <1>3, <3>1, Numbers
    <3> QED
      BY <3>1, <3>2
  <2>2. CASE home'[k] = job[a].slot
    <3>1. \/ job'[a].step = "pid" /\ job'[a].val = k
          \/ /\ worker'[job[a].slot].pid = k
             /\ worker'[job[a].slot].st = "RUNNING" \/ job'[a].step \in Keeping
      BY <1>1, <1>3, <2>2 DEF Orderly, HeldGo
    <3>2. job'[a].step = "pid" \/ job'[a].step \in Keeping => job'[a].slot = job[a].slot
      BY <1>1 DEF JobMoves, Keeping
    <3> QED
      BY <2>2, <3>1, <3>2 DEF Held
  <2>3. CASE home'[k] # job[a].slot
    <3>1. k \in kids /\ home'[k] = home[k] /\ k \notin Exempt
      BY <1>1, <1>2, <1>3, <2>3 DEF KidsGo, ManagerTypes
    <3>2. Held(k)
      BY <1>1, <1>3, <3>1 DEF ManagerInv, HeldInv
    <3>3. worker'[home[k]] = worker[home[k]]
      BY <1>1, <2>1, <2>3, <3>1 DEF SlotMoves
    <3>4. \A b \in Actors : job[b].slot = home[k] => job'[b] = job[b]
      BY <1>1, <2>3, <3>1 DEF JobMoves
    <3> QED
      BY <3>1, <3>2, <3>3, <3>4 DEF Held
  <2> QED
    BY <2>2, <2>3
<1>4. ASSUME state' \in {"NONE", "CREATED", "STOPPED"}, NEW k \in kids'
      PROVE  k \in Exempt' \/ home'[k] \in clash'
  <2>1. state \in {"CREATED", "STOPPED"}
    BY <1>1, <1>4 DEF callVars
  <2>2. CASE k \in kids
    BY <1>1, <1>2, <2>1, <2>2 DEF ManagerInv, QuietInv, ManagerTypes, KidsGo
  <2>3. CASE k \notin kids
    BY <1>1, <1>4, <2>1, <2>3 DEF KidsGo, Exempt
  <2> QED
    BY <2>2, <2>3
<1> QED
  BY <1>3, <1>4 DEF HeldInv, QuietInv

LEMMA WorkerSteady ==
    ASSUME ManagerInv, NEW a \in Actors, state # "NONE", Orderly(a)
    PROVE  SteadyInv' /\ KillInv'
<1>1. UNCHANGED <<callVars, clash, overrun>> /\ JobMoves(a) /\ stray \subseteq stray'
      /\ job[a].slot \in Slots /\ clash \subseteq clash'
  BY Jobs DEF Orderly, StaysInSlot, ManagerInv
<1>2. KillInv'
  BY <1>1 DEF Orderly, KillGo, ManagerInv, KillInv
<1>3. ASSUME stray' = {} PROVE stray = {}
  BY <1>1, <1>3
<1>4. ASSUME stray' = {}, NEW c \in Callers, phase[c] = "grow", state \in {"CREATED", "STOPPED"}
      PROVE  job'[0].step \notin StartedSteps \cup {"done"}
  <2>1. job[0].step \notin StartedSteps \cup {"done"}
    BY <1>3, <1>4 DEF ManagerInv, SteadyInv
  <2>2. CASE a = 0
    BY <1>4, <2>1, <2>2 DEF Orderly, StrayGo
  <2>3. CASE a # 0
    BY <1>1, <2>1, <2>3, ActorsAre DEF JobMoves
  <2> QED
    BY <2>2, <2>3
<1>5. SteadyInv'
  BY <1>1, <1>3, <1>4 DEF callVars, ManagerInv, SteadyInv
<1> QED
  BY <1>2, <1>5

(* An event loop leaves a worker behind, or the slot in its hand. *)
LEMMA WorkerUsed ==
    ASSUME ManagerInv, NEW a \in Actors, Orderly(a), NEW i \in Slots \ clash
    PROVE  /\ Used(i)' => Used(i) \/ (a = 0 /\ i = at)
           /\ ~gap' /\ ~Used(i)' => ~Used(i) \/ (a = 0 /\ i = at)
<1>1. UNCHANGED <<callVars, clash>> /\ job[a].step # "none" /\ JobMoves(a) /\ SlotMoves(a)
  BY DEF Orderly, StaysInSlot
<1>2. \A n \in Loops : n \in Actors /\ n # 0
  BY ActorsAre
<1>3. CASE a # 0
  <2>1. a \in Loops
    BY <1>3, ActorsAre
  <2>2. CASE i = job[a].slot
    <3>1. Used(i)
      BY <1>1, <2>1, <2>2 DEF Used
    <3>2. ~gap' => Used(i)'
      <4>1. CASE job'[a].step = "none"
        BY <1>1, <1>3, <2>2, <4>1 DEF Orderly, UsedGo, Used
      <4>2. CASE job'[a].step # "none"
        BY <1>1, <2>1, <2>2, <4>2 DEF JobMoves, Used
      <4> QED
        BY <4>1, <4>2
    <3> QED
      BY <3>1, <3>2
  <2>3. CASE i # job[a].slot
    <3>1. worker'[i] = worker[i]
      BY <1>1, <2>3 DEF SlotMoves
    <3>2. \A n \in Loops : (job'[n].step # "none" /\ job'[n].slot = i)
                           <=> (job[n].step # "none" /\ job[n].slot = i)
      BY <1>1, <1>2, <2>3 DEF JobMoves
    <3> QED
      BY <3>1, <3>2 DEF Used
  <2> QED
    BY <2>2, <2>3
<1>4. CASE a = 0 /\ i # at
  <2>1. job[0].slot = at
    BY <1>1, <1>4 DEF ManagerInv, HandsInv
  <2>2. worker'[i] = worker[i]
    BY <1>1, <1>4, <2>1 DEF SlotMoves
  <2>3. \A n \in Loops : job'[n] = job[n]
    BY <1>1, <1>2, <1>4 DEF JobMoves
  <2> QED
    BY <2>2, <2>3 DEF Used
<1> QED
  BY <1>3, <1>4

LEMMA WorkerPlaced ==
    ASSUME ManagerInv, NEW a \in Actors, state # "NONE", Orderly(a)
    PROVE  PlacedInv'
<1>1. UNCHANGED <<callVars, clash>> /\ job[a].step # "none" /\ JobMoves(a)
  BY DEF Orderly, StaysInSlot
<1>2. /\ state' = state /\ mutex' = mutex /\ phase' = phase /\ at' = at /\ to' = to
      /\ active' = active /\ Kept' = Kept
  BY <1>1 DEF callVars, Kept
<1>3. a = 0 => job'[0].step # "none"
  BY DEF Orderly, StepsGo
<1>4. a # 0 => job'[0] = job[0]
  BY <1>1, ActorsAre DEF JobMoves
<1>5. ASSUME NEW i \in Slots \ clash', Used(i)', i # at \/ a # 0 PROVE PlacedAt(i)'
  <2>1. PlacedAt(i)
    BY <1>1, <1>5, WorkerUsed DEF ManagerInv, PlacedInv
  <2>2. a = 0 => i # at
    BY <1>5
  <2> QED
    BY <1>2, <1>4, <2>1, <2>2 DEF PlacedAt
<1>6. ASSUME NEW i \in Slots \ clash', a = 0, i = at
      PROVE  /\ mutex # NULL
             /\ \A c \in Callers :
                /\ phase[c] # "drain"
                /\ phase[c] \in Filling => job'[0].step # "none"
                /\ phase[c] = "shrink" => at <= i /\ i < to
                /\ phase[c] \in {"undo", "stop"} => at <= i
  <2>1. PICK d \in Callers :
        /\ mutex = d /\ phase[d] \in Filling \cup Emptying
        /\ \A c \in Callers : c = d \/ phase[c] \in {"idle", "sleep"}
    BY <1>1, <1>6, Holder
  <2>2. at < to /\ at \in Nat
    BY <1>1, <1>6 DEF ManagerInv, HandsInv, SizeInv
  <2>3. mutex # NULL
    BY <2>1, PoolManagerAssumption
  <2>4. \A c \in Callers : phase[c] # "drain"
    BY <2>1 DEF Filling, Emptying
  <2>5. at <= i /\ i < to
    BY <1>6, <2>2
  <2> QED
    BY <1>3, <1>6, <2>3, <2>4, <2>5
<1> QED
  BY <1>2, <1>5, <1>6 DEF PlacedInv, PlacedAt

LEMMA WorkerFilled ==
    ASSUME ManagerInv, NEW a \in Actors, state # "NONE", Orderly(a)
    PROVE  FilledInv'
<1>1. UNCHANGED <<callVars, clash>> /\ job[a].step # "none" /\ JobMoves(a) /\ stray \subseteq stray'
      /\ (gap => gap') /\ SlotMoves(a)
  BY DEF Orderly, StaysInSlot
<1>2. /\ state' = state /\ mutex' = mutex /\ phase' = phase /\ at' = at /\ to' = to
      /\ active' = active /\ Kept' = Kept /\ clash' = clash
  BY <1>1 DEF callVars, Kept
<1>3. a # 0 => job'[0] = job[0]
  BY <1>1, ActorsAre DEF JobMoves
<1> SUFFICES ASSUME stray' = {}, clash' = {}, ~gap', NEW i \in Slots, ~Used(i)'
             PROVE  /\ mutex = NULL => active <= i
                    /\ \A c \in Callers :
                        /\ phase[c] = "drain" => active <= i
                        /\ phase[c] \in Filling => at <= i
                        /\ phase[c] = "shrink" => Kept <= i /\ (i < at \/ to <= i
                             \/ (i = at /\ job'[0].step \notin {"none", "look", "nothing"}))
  BY <1>2 DEF FilledInv, FilledAt
<1>4. stray = {} /\ clash = {} /\ ~gap
  BY <1>1, <1>2
<1>5. CASE a # 0 \/ i # at
  <2>1. ~Used(i)
    BY <1>4, <1>5, WorkerUsed
  <2>2. a = 0 => i # at
    BY <1>5
  <2> QED
    BY <1>3, <1>4, <2>1, <2>2 DEF ManagerInv, FilledInv, FilledAt
<1>6. CASE a = 0 /\ i = at
  <2>1. PICK d \in Callers :
        /\ mutex = d /\ phase[d] \in Filling \cup Emptying
        /\ \A c \in Callers : c = d \/ phase[c] \in {"idle", "sleep"}
    BY <1>1, <1>6, Holder
  <2>2. mutex # NULL
    BY <2>1, PoolManagerAssumption
  <2>3. \A c \in Callers : phase[c] # "drain"
    BY <2>1 DEF Filling, Emptying
  <2>4. at <= i
    BY <1>6 DEF ManagerInv, SizeInv
  <2>5. ASSUME NEW c \in Callers, phase[c] = "shrink"
        PROVE  Kept <= i /\ job'[0].step \notin {"none", "look", "nothing"}
    <3>1. Kept <= at
      BY <2>5 DEF ManagerInv, SizeInv
    <3>2. job'[0].step \notin {"none", "look"}
      BY <1>6 DEF Orderly, StepsGo
    <3>3. CASE job[0].step = "look"
      <4>1. worker' = worker /\ job[0].slot = at
        BY <1>1, <1>6, <3>3 DEF Orderly, UsedGo, ManagerInv, HandsInv
      <4>2. \A n \in Loops : job'[n] = job[n]
        BY <1>1, <1>6, ActorsAre DEF JobMoves
      <4>3. ~Used(i)
        BY <4>1, <4>2 DEF Used
      <4>4. i < at \/ to <= i \/ (i = at /\ job[0].step \notin {"none", "look", "nothing"})
        BY <1>4, <2>5, <4>3 DEF ManagerInv, FilledInv, FilledAt
      <4>5. at < to /\ at \in Nat /\ to \in Nat
        BY <1>1, <1>6 DEF ManagerInv, HandsInv, SizeInv
      <4>6. FALSE
        BY <1>6, <3>3, <4>4, <4>5
      <4> QED
        BY <4>6
    <3>4. CASE job[0].step # "look"
      BY <1>6, <2>5, <3>1, <3>2, <3>4 DEF Orderly, UsedGo
    <3> QED
      BY <3>3, <3>4
  <2> QED
    BY <1>6, <2>2, <2>3, <2>4, <2>5
<1> QED
  BY <1>5, <1>6

LEMMA WorkerStep ==
    ASSUME ManagerInv, NEW a \in Actors, state # "NONE", WorkerFunctions(a)
    PROVE  ManagerInv'
<1>1. Orderly(a)
  BY WorkerFunctionsOrderly
<1> QED
  BY <1>1, WorkerControl, WorkerHands, WorkerSlot, WorkerHeld, WorkerSteady, WorkerPlaced,
     WorkerFilled DEF ManagerInv

-----------------------------------------------------------------------------
(* The calls.  The holder of pool_mutex takes a slot in hand or lets it go; *)
(* the worker structures are left alone.                                    *)
LEMMA InArray ==
    ASSUME ManagerInv, NEW c \in Callers, at < to,
           phase[c] \in {"start", "undo", "stop", "grow"}
    PROVE  at \in Slots
  BY PoolManagerAssumption DEF ManagerInv, SizeInv, Slots

LEMMA CallExists == ASSUME ManagerInv, NEW c \in Callers, Call(c) PROVE state # "NONE"
  BY DEF ManagerInv, ControlInv, Call, PoolStart, Visit, StartWorker, StartDone, StartUndone,
     TearDown, PoolStop, StopDrain, StopDone, PoolDestroy, PoolResize, Grow, Shrink,
     ResizeDone, MayCall

(* Nobody is at a slot while pool_mutex is free, between two slots, or in   *)
(* pool_stop's wait.                                                        *)
LEMMA EmptyHand ==
    ASSUME ManagerInv, NEW c \in Callers, mutex = NULL \/ at = to \/ phase[c] = "drain"
    PROVE  job[0].step = "none"
<1> SUFFICES ASSUME job[0].step # "none" PROVE FALSE
  OBVIOUS
<1>1. at < to /\ at \in Nat /\ to \in Nat
  BY DEF ManagerInv, HandsInv, SizeInv
<1>2. PICK d \in Callers :
        /\ mutex = d /\ phase[d] \in Filling \cup Emptying
        /\ \A e \in Callers : e = d \/ phase[e] \in {"idle", "sleep"}
  BY Holder
<1>3. mutex # NULL /\ phase[c] # "drain"
  BY <1>2, PoolManagerAssumption DEF Filling, Emptying
<1>4. at # to
  BY <1>1
<1> QED
  BY <1>3, <1>4

LetsGo == /\ job[0].step \in {"none", "done", "nothing"} /\ job'[0].step = "none"
          /\ \A n \in Actors \ {0} : job'[n] = job[n]
          /\ clash' = clash
Takes(c) ==
    /\ job[0].step = "none" /\ at < to /\ at \in Slots
    /\ phase[c] \in Filling \cup Emptying /\ UNCHANGED callVars
    /\ TakeInHand(0, at, IF phase[c] \in {"start", "grow"} THEN "create" ELSE "look")

LEMMA CallFrame ==
    ASSUME ManagerInv, NEW c \in Callers, Call(c)
    PROVE  /\ UNCHANGED <<worker, kidVars, gap, killed>>
           /\ (LetsGo /\ job' \in [Actors -> JobRec]) \/ Takes(c)
<1>1. job \in [Actors -> JobRec] /\ 0 \in Actors
  BY ActorsAre DEF ManagerInv, ManagerTypes
<1>2. ASSUME UNCHANGED <<job, clash>>, job[0].step = "none"
      PROVE  LetsGo /\ job' \in [Actors -> JobRec]
  BY <1>1, <1>2 DEF LetsGo
<1>3. ASSUME NEW r \in {"done", "nothing"}, Came(r), clash' = clash
      PROVE  LetsGo /\ job' \in [Actors -> JobRec]
  BY <1>1, <1>3, NoJobIsJob DEF LetsGo, Came, From
<1>4. CASE PoolStart(c)
  <2>1. job[0].step = "none"
    BY <1>4, EmptyHand DEF PoolStart, Enter
  <2> QED
    BY <1>2, <1>4, <2>1 DEF PoolStart, ghostVars
<1>5. CASE Visit(c)
  <2>1. CASE at \in Slots
    BY <1>5, <2>1 DEF Visit, From, Takes, callVars, Filling, Emptying
  <2>2. CASE at \notin Slots
    BY <1>2, <1>5, <2>2 DEF Visit, From
  <2> QED
    BY <2>1, <2>2
<1>6. CASE StartWorker(c)
  BY <1>3, <1>6 DEF StartWorker, ghostVars
<1>7. CASE StartDone(c)
  BY <1>2, <1>7, EmptyHand DEF StartDone, ghostVars
<1>8. CASE StartUndone(c)
  BY <1>2, <1>8, EmptyHand DEF StartUndone
<1>9. CASE TearDown(c)
  BY <1>3, <1>9 DEF TearDown, ghostVars
<1>10. CASE PoolStop(c)
  BY <1>2, <1>10, EmptyHand DEF PoolStop, Enter, ghostVars
<1>11. CASE StopDrain(c)
  <2>1. job[0].step = "none"
    BY <1>11, EmptyHand DEF StopDrain, Enter
  <2> QED
    BY <1>2, <1>11, <2>1 DEF StopDrain, ghostVars
<1>12. CASE StopDone(c)
  BY <1>2, <1>12, EmptyHand DEF StopDone, ghostVars
<1>13. CASE PoolDestroy(c)
  <2>1. mutex = NULL
    BY <1>13 DEF PoolDestroy, ManagerInv, ControlInv
  <2> QED
    BY <1>2, <1>13, <2>1, EmptyHand DEF PoolDestroy, ghostVars
<1>14. CASE PoolResize(c)
  <2>1. mutex = NULL
    BY <1>14 DEF PoolResize, Enter
  <2> QED
    BY <1>2, <1>14, <2>1, EmptyHand DEF PoolResize, ghostVars
<1>15. CASE Grow(c)
  BY <1>3, <1>15 DEF Grow, ghostVars
<1>16. CASE Shrink(c)
  BY <1>3, <1>16 DEF Shrink, ghostVars
<1>17. CASE ResizeDone(c)
  BY <1>2, <1>17, EmptyHand DEF ResizeDone, ghostVars
<1> QED
  BY <1>4, <1>5, <1>6, <1>7, <1>8, <1>9, <1>10, <1>11, <1>12, <1>13, <1>14, <1>15, <1>16, <1>17
     DEF Call

LEMMA CallControl == ASSUME ManagerInv, NEW c \in Callers, Call(c) PROVE ControlInv' /\ state' # "NONE"
<1> USE PoolManagerAssumption DEF ManagerInv, ControlInv, Phases, PoolStates, Stopping
<1>1. CASE PoolStart(c)
  BY <1>1 DEF PoolStart, MayCall, Enter
<1>2. CASE Visit(c)
  <2>1. CASE at \in Slots
    BY <1>2, <2>1 DEF Visit
  <2>2. CASE at \notin Slots
    <3>1. phase[c] = "shrink"
      BY <1>2, <2>2, InArray DEF Visit
    <3> QED
      BY <1>2, <2>2, <3>1 DEF Visit, Leave
  <2> QED
    BY <2>1, <2>2
<1>3. CASE StartWorker(c)
  BY <1>3 DEF StartWorker, Turn
<1>4. CASE StartDone(c)
  BY <1>4 DEF StartDone, Leave
<1>5. CASE StartUndone(c)
  BY <1>5 DEF StartUndone, Leave
<1>6. CASE TearDown(c)
  BY <1>6 DEF TearDown, Turn
<1>7. CASE PoolStop(c)
  BY <1>7 DEF PoolStop, MayCall, Enter
<1>8. CASE StopDrain(c)
  BY <1>8 DEF StopDrain, Enter, Turn
<1>9. CASE StopDone(c)
  BY <1>9 DEF StopDone, Leave
<1>10. CASE PoolDestroy(c)
  BY <1>10 DEF PoolDestroy, MayCall, Enter
<1>11. CASE PoolResize(c)
  BY <1>11 DEF PoolResize, MayCall, Enter
<1>12. CASE Grow(c)
  BY <1>12 DEF Grow, Turn, Leave
<1>13. CASE Shrink(c)
  BY <1>13 DEF Shrink, Turn
<1>14. CASE ResizeDone(c)
  BY <1>14 DEF ResizeDone, Leave
<1> QED
  BY <1>1, <1>2, <1>3, <1>4, <1>5, <1>6, <1>7, <1>8, <1>9, <1>10, <1>11, <1>12, <1>13, <1>14 DEF Call

LEMMA CallLoops == ASSUME ManagerInv, NEW c \in Callers, Call(c) PROVE LoopsInv'
<1> USE PoolManagerAssumption DEF ManagerInv, LoopsInv, ControlInv, Stopping
<1>1. CASE PoolStart(c)
  BY <1>1 DEF PoolStart, MayCall, ghostVars
<1>2. CASE Visit(c)
  BY <1>2 DEF Visit
<1>3. CASE StartWorker(c)
  BY <1>3 DEF StartWorker, ghostVars
<1>4. CASE StartDone(c)
  BY <1>4 DEF StartDone, ghostVars
<1>5. CASE StartUndone(c)
  BY <1>5 DEF StartUndone
<1>6. CASE TearDown(c)
  BY <1>6 DEF TearDown, ghostVars
<1>7. CASE PoolStop(c)
  BY <1>7 DEF PoolStop, ghostVars
<1>8. CASE StopDrain(c)
  BY <1>8 DEF StopDrain, ghostVars
<1>9. CASE StopDone(c)
  BY <1>9 DEF StopDone, ghostVars
<1>10. CASE PoolDestroy(c)
  BY <1>10 DEF PoolDestroy, MayCall, Enter, ghostVars
<1>11. CASE PoolResize(c)
  BY <1>11 DEF PoolResize, ghostVars
<1>12. CASE Grow(c)
  BY <1>12 DEF Grow, ghostVars
<1>13. CASE Shrink(c)
  BY <1>13 DEF Shrink, ghostVars
<1>14. CASE ResizeDone(c)
  BY <1>14 DEF ResizeDone, ghostVars
<1> QED
  BY <1>1, <1>2, <1>3, <1>4, <1>5, <1>6, <1>7, <1>8, <1>9, <1>10, <1>11, <1>12, <1>13, <1>14 DEF Call

LEMMA CallTypes ==
    ASSUME ManagerInv, NEW c \in Callers, Call(c)
    PROVE  /\ ManagerTypes' /\ \A n \in Loops : job'[n] = job[n]
           /\ clash \subseteq clash' /\ \A i \in Slots : Used(i)' = Used(i)
<1>1. UNCHANGED <<worker, kidVars, gap, killed>>
  BY CallFrame
<1>2. /\ job' \in [Actors -> JobRec] /\ clash \subseteq clash'
      /\ \A n \in Actors \ {0} : job'[n] = job[n]
  <2>1. CASE LetsGo /\ job' \in [Actors -> JobRec]
    BY <2>1 DEF LetsGo
  <2>2. CASE Takes(c)
    <3> DEFINE s == IF phase[c] \in {"start", "grow"} THEN "create" ELSE "look"
               j == [NoJob EXCEPT !.slot = at, !.step = s]
    <3>1. s \in JobSteps
      BY StepNames
    <3>2. j \in JobRec
      BY <2>2, <3>1, NoJobIsJob DEF Takes, JobRec
    <3>3. job' = [job EXCEPT ![0] = j]
      BY <2>2 DEF Takes, TakeInHand
    <3>4. clash \subseteq clash'
      BY <2>2 DEF Takes, TakeInHand
    <3> HIDE DEF j
    <3> QED
      BY <3>2, <3>3, <3>4, ActorsAre DEF ManagerInv, ManagerTypes
  <2> QED
    BY <2>1, <2>2, CallFrame
<1>3. \A n \in Loops : job'[n] = job[n]
  BY <1>2, ActorsAre
<1>4. \A i \in Slots : Used(i)' = Used(i)
  BY <1>1, <1>3 DEF Used
<1> QED
  BY <1>1, <1>2, <1>3, <1>4 DEF ManagerInv, ManagerTypes, kidVars

LEMMA Taken ==
    ASSUME ManagerInv, NEW c \in Callers, Takes(c)
    PROVE  /\ job'[0].slot = at /\ job[0].step = "none"
           /\ job'[0].step = IF phase[c] \in {"start", "grow"} THEN "create" ELSE "look"
           /\ \A a \in Actors \ {0} : job'[a] = job[a]
           /\ at \notin clash' => \A a \in Actors : job[a].step = "none" \/ job[a].slot # at
<1>1. job' = [job EXCEPT ![0] = [NoJob EXCEPT !.slot = at,
                !.step = IF phase[c] \in {"start", "grow"} THEN "create" ELSE "look"]]
  BY DEF Takes, TakeInHand
<1>2. /\ job'[0].slot = at /\ \A a \in Actors \ {0} : job'[a] = job[a]
      /\ job'[0].step = IF phase[c] \in {"start", "grow"} THEN "create" ELSE "look"
  BY <1>1, ActorsAre DEF ManagerInv, ManagerTypes, NoJob
<1>3. at \notin clash' => InHand(at) = {}
  BY DEF Takes, TakeInHand
<1> QED
  BY <1>2, <1>3 DEF InHand, Takes

LEMMA CallHands == ASSUME ManagerInv, NEW c \in Callers, Call(c) PROVE HandsInv' /\ KillInv'
<1>1. /\ UNCHANGED <<worker, kidVars, gap, killed>> /\ state # "NONE" /\ state' # "NONE"
      /\ clash \subseteq clash' /\ \A n \in Loops : job'[n] = job[n]
  BY CallFrame, CallExists, CallControl, CallTypes
<1>2. KillInv'
  BY <1>1 DEF ManagerInv, KillInv
<1>3. \A n \in Loops : job'[n].step # "none" => n \in loops'
  <2>1. \A n \in Loops : job'[n].step # "none" => n \in loops
    BY <1>1 DEF ManagerInv, HandsInv
  <2>2. loops \subseteq loops'
    BY DEF Call, PoolStart, Visit, StartWorker, StartDone, StartUndone, TearDown, PoolStop,
       StopDrain, StopDone, PoolDestroy, PoolResize, Grow, Shrink, ResizeDone
  <2> QED
    BY <2>1, <2>2
<1>4. \A n \in Loops : job'[n].step \notin {"done", "nothing"}
  <2>1. \A n \in Loops : job[n].step \notin {"done", "nothing"}
    BY DEF ManagerInv, HandsInv
  <2> QED
    BY <1>1, <2>1
<1>5. CASE LetsGo
  <2>1. \A a \in Actors : job'[a].step # "none" => job'[a] = job[a]
    BY <1>5 DEF LetsGo
  <2>2. job'[0].step = "none"
    BY <1>5 DEF LetsGo
  <2> QED
    BY <1>1, <1>2, <1>3, <1>4, <2>1, <2>2 DEF ManagerInv, HandsInv
<1>6. CASE Takes(c)
  <2>1. /\ job'[0].slot = at
        /\ job'[0].step = IF phase[c] \in {"start", "grow"} THEN "create" ELSE "look"
        /\ \A a \in Actors \ {0} : job'[a] = job[a]
        /\ at \notin clash' => \A a \in Actors : job[a].step = "none" \/ job[a].slot # at
    BY <1>6, Taken
  <2>2. at' = at /\ to' = to /\ phase' = phase /\ at < to /\ at \in Slots /\ phase[c] \in Filling \cup Emptying
    BY <1>6 DEF Takes, callVars
  <2>3. \A d \in Callers : d = c \/ phase[d] \notin Filling \cup Emptying
    BY <2>2 DEF ManagerInv, ControlInv, Filling, Emptying
  <2>4. \A d \in Callers : /\ phase[d] \in Filling => job'[0].step # "look"
                           /\ phase[d] \in Emptying => job'[0].step \notin StartSteps
    BY <2>1, <2>2, <2>3 DEF Filling, Emptying, StartSteps, StartedSteps
  <2>5. \A a, b \in Actors :
            job'[a].step # "none" /\ job'[b].step # "none" /\ job'[a].slot = job'[b].slot =>
                a = b \/ job'[a].slot \in clash'
    BY <1>1, <2>1 DEF ManagerInv, HandsInv
  <2> QED
    BY <1>1, <1>2, <1>3, <1>4, <2>1, <2>2, <2>4, <2>5 DEF HandsInv
<1> QED
  BY <1>5, <1>6, CallFrame

LEMMA CallSize == ASSUME ManagerInv, NEW c \in Callers, Call(c) PROVE SizeInv'
<1> USE PoolManagerAssumption DEF SizeInv, Kept, Phases
<1>0. SizeInv /\ ControlInv
  BY DEF ManagerInv
<1> USE <1>0 DEF ControlInv
<1>1. CASE PoolStart(c)
  BY <1>1 DEF PoolStart, Enter, Stopping
<1>2. CASE Visit(c)
  <2>1. CASE at \in Slots
    BY <1>2, <2>1 DEF Visit
  <2>2. CASE at \notin Slots
    <3>1. phase[c] = "shrink"
      BY <1>2, <2>2, InArray DEF Visit
    <3> QED
      BY <1>2, <2>2, <3>1 DEF Visit, Leave
  <2> QED
    BY <2>1, <2>2
<1>3. CASE StartWorker(c)
  <2>1. at < to
    BY <1>3 DEF StartWorker, Came, From, ManagerInv, HandsInv
  <2> QED
    BY <1>3, <2>1 DEF StartWorker, Turn
<1>4. CASE StartDone(c)
  BY <1>4 DEF StartDone, Leave
<1>5. CASE StartUndone(c)
  BY <1>5 DEF StartUndone, Leave, Stopping
<1>6. CASE TearDown(c)
  <2>1. at < to
    BY <1>6 DEF TearDown, Came, From, ManagerInv, HandsInv
  <2> QED
    BY <1>6, <2>1 DEF TearDown, Turn
<1>7. CASE PoolStop(c)
  BY <1>7 DEF PoolStop, Enter
<1>8. CASE StopDrain(c)
  BY <1>8 DEF StopDrain, Enter, Turn
<1>9. CASE StopDone(c)
  BY <1>9 DEF StopDone, Leave, Stopping
<1>10. CASE PoolDestroy(c)
  BY <1>10 DEF PoolDestroy, Enter
<1>11. CASE PoolResize(c)
  BY <1>11 DEF PoolResize, MayCall, Enter
<1>12. CASE Grow(c)
  <2>1. at < to
    BY <1>12 DEF Grow, Came, From, ManagerInv, HandsInv
  <2> QED
    BY <1>12, <2>1 DEF Grow, Turn, Leave
<1>13. CASE Shrink(c)
  <2>1. at < to
    BY <1>13 DEF Shrink, Came, From, ManagerInv, HandsInv
  <2> QED
    BY <1>13, <2>1 DEF Shrink, Turn
<1>14. CASE ResizeDone(c)
  BY <1>14 DEF ResizeDone, Leave
<1> QED
  BY <1>1, <1>2, <1>3, <1>4, <1>5, <1>6, <1>7, <1>8, <1>9, <1>10, <1>11, <1>12, <1>13, <1>14 DEF Call

LEMMA CallSteady == ASSUME ManagerInv, NEW c \in Callers, Call(c) PROVE SteadyInv'
<1> SUFFICES ASSUME stray' = {} PROVE SteadyInv'
  BY DEF SteadyInv
<1>0. stray = {}
  BY CallFrame DEF kidVars
<1>a. /\ ~overrun /\ active <= MaxWorkers
      /\ state \in {"NONE", "CREATED", "STOPPED"} => active = 0
      /\ \A d \in Callers :
            /\ phase[d] = "start" => active = at
            /\ phase[d] = "shrink" => to <= MaxWorkers
            /\ phase[d] = "grow" /\ state \in {"CREATED", "STOPPED"} =>
                job[0].step \notin StartedSteps \cup {"done"}
  BY <1>0 DEF ManagerInv, SteadyInv
<1>b. job'[0].step \in {"none", "look", "create"}
  BY CallFrame, Taken DEF LetsGo
<1>c. job'[0].step \notin StartedSteps \cup {"done"}
  BY <1>b DEF StartedSteps
<1>d. /\ active \in Nat /\ at \in Nat /\ to \in Nat /\ phase \in [Callers -> Phases]
      /\ MinWorkers \in Nat \ {0} /\ MaxWorkers \in Nat /\ MinWorkers <= MaxWorkers
      /\ \A d \in Callers :
        /\ phase[d] = "start" => to = MinWorkers
        /\ phase[d] = "grow" => at <= to /\ to <= MaxWorkers /\ active = at
        /\ phase[d] = "shrink" => at <= to /\ MinWorkers <= active - (to - at)
  BY PoolManagerAssumption DEF ManagerInv, SizeInv, Kept, ControlInv
<1>1. CASE PoolStart(c)
  BY <1>a, <1>c, <1>d, <1>1 DEF PoolStart, Enter, SteadyInv, ghostVars, ManagerInv, ControlInv, Stopping
<1>2. CASE Visit(c)
  <2>1. CASE at \in Slots
    BY <1>a, <1>c, <1>2, <2>1 DEF Visit, SteadyInv
  <2>2. CASE at \notin Slots
    <3>1. phase[c] = "shrink" /\ at < to
      BY <1>2, <2>2, InArray DEF Visit
    <3>2. at < MaxWorkers
      BY <1>a, <1>d, <3>1
    <3> QED
      BY <1>d, <2>2, <3>2 DEF Slots
  <2> QED
    BY <2>1, <2>2
<1>3. CASE StartWorker(c)
  <2>1. at < to
    BY <1>3 DEF StartWorker, Came, From, ManagerInv, HandsInv
  <2>2. \A d \in Callers \ {c} : phase[d] \in {"idle", "sleep"}
    BY <1>3 DEF StartWorker, ManagerInv, ControlInv, Phases
  <2>3. state = "STARTING"
    BY <1>3 DEF StartWorker, ManagerInv, ControlInv
  <2> QED
    BY <1>a, <1>c, <1>d, <1>3, <2>1, <2>2, <2>3 DEF StartWorker, Turn, SteadyInv, ghostVars
<1>4. CASE StartDone(c)
  <2>1. \A d \in Callers \ {c} : phase[d] \in {"idle", "sleep"}
    BY <1>4 DEF StartDone, ManagerInv, ControlInv, Phases
  <2> QED
    BY <1>a, <1>c, <1>d, <1>4, <2>1 DEF StartDone, Leave, SteadyInv, ghostVars
<1>5. CASE StartUndone(c)
  <2>1. \A d \in Callers \ {c} : phase[d] \in {"idle", "sleep"}
    BY <1>5 DEF StartUndone, ManagerInv, ControlInv, Phases
  <2> QED
    BY <1>a, <1>c, <1>d, <1>5, <2>1 DEF StartUndone, Leave, SteadyInv
<1>6. CASE TearDown(c)
  <2>1. \A d \in Callers \ {c} : phase[d] \in {"idle", "sleep"}
    BY <1>6 DEF TearDown, ManagerInv, ControlInv, Phases
  <2> QED
    BY <1>a, <1>c, <1>d, <1>6, <2>1 DEF TearDown, Turn, SteadyInv, ghostVars
<1>7. CASE PoolStop(c)
  BY <1>a, <1>c, <1>d, <1>7 DEF PoolStop, Enter, SteadyInv, ghostVars
<1>8. CASE StopDrain(c)
  <2>1. CASE phase[c] = "drain" /\ Turn(c, "stop", 0, MaxWorkers)
    <3>1. \A d \in Callers \ {c} : phase[d] \in {"idle", "sleep"}
      BY <2>1 DEF ManagerInv, ControlInv, Phases
    <3> QED
      BY <1>a, <1>c, <1>d, <1>8, <2>1, <3>1 DEF StopDrain, Turn, SteadyInv, ghostVars
  <2> QED
    BY <1>a, <1>c, <1>d, <1>8, <2>1 DEF StopDrain, Enter, SteadyInv, ghostVars
<1>9. CASE StopDone(c)
  <2>1. \A d \in Callers \ {c} : phase[d] \in {"idle", "sleep"}
    BY <1>9 DEF StopDone, ManagerInv, ControlInv, Phases
  <2> QED
    BY <1>a, <1>c, <1>d, <1>9, <2>1 DEF StopDone, Leave, SteadyInv, ghostVars
<1>10. CASE PoolDestroy(c)
  BY <1>a, <1>c, <1>d, <1>10 DEF PoolDestroy, MayCall, Enter, SteadyInv, ghostVars
<1>11. CASE PoolResize(c)
  <2>1. \A d \in Callers : phase[d] \in {"idle", "sleep"}
    BY <1>11, PoolManagerAssumption DEF PoolResize, Enter, ManagerInv, ControlInv, Phases
  <2> QED
    BY <1>a, <1>c, <1>d, <1>11, <2>1 DEF PoolResize, Enter, SteadyInv, ghostVars
<1>12. CASE Grow(c)
  <2>1. at < to
    BY <1>12 DEF Grow, Came, From, ManagerInv, HandsInv
  <2>2. \A d \in Callers \ {c} : phase[d] \in {"idle", "sleep"}
    BY <1>12 DEF Grow, ManagerInv, ControlInv, Phases
  <2>3. Came("done") => state \notin {"NONE", "CREATED", "STOPPED"}
    BY <1>a, <1>12, CallExists DEF Grow, Came, From
  <2> QED
    BY <1>a, <1>c, <1>d, <1>12, <2>1, <2>2, <2>3 DEF Grow, Turn, Leave, SteadyInv, ghostVars
<1>13. CASE Shrink(c)
  <2>1. at < to
    BY <1>13 DEF Shrink, Came, From, ManagerInv, HandsInv
  <2>2. \A d \in Callers \ {c} : phase[d] \in {"idle", "sleep"}
    BY <1>13 DEF Shrink, ManagerInv, ControlInv, Phases
  <2>3. active # 0
    BY <1>d, <1>13, <2>1 DEF Shrink
  <2>4. state \notin {"NONE", "CREATED", "STOPPED"}
    BY <1>a, <2>3
  <2> QED
    BY <1>a, <1>c, <1>d, <1>13, <2>1, <2>2, <2>4 DEF Shrink, Turn, SteadyInv, ghostVars
<1>14. CASE ResizeDone(c)
  <2>1. \A d \in Callers \ {c} : phase[d] \in {"idle", "sleep"}
    BY <1>14 DEF ResizeDone, ManagerInv, ControlInv, Phases
  <2> QED
    BY <1>a, <1>c, <1>d, <1>14, <2>1 DEF ResizeDone, Leave, SteadyInv, ghostVars
<1> QED
  BY <1>1, <1>2, <1>3, <1>4, <1>5, <1>6, <1>7, <1>8, <1>9, <1>10, <1>11, <1>12, <1>13, <1>14 DEF Call

(* A slot the pool means to fill has no worker, unless a child was started  *)
(* outside a running pool.                                                  *)
LEMMA CallSlot == ASSUME ManagerInv, NEW c \in Callers, Call(c) PROVE SlotInv'
<1>1. /\ UNCHANGED <<worker, kidVars, gap, killed>> /\ state # "NONE"
      /\ clash \subseteq clash' /\ \A n \in Loops : job'[n] = job[n]
  BY CallFrame, CallExists, CallTypes
<1>2. ASSUME NEW i \in Slots \ clash', worker'[i].st = "RUNNING" PROVE worker'[i].pid # 0
  BY <1>1, <1>2 DEF ManagerInv, SlotInv
<1>3. ASSUME NEW n \in Loops, job'[n].step # "none", job'[n].slot \notin clash' PROVE SlotOk(n)'
  <2>1. job'[n] = job[n] /\ job[n].step \notin {"done", "nothing"} /\ n \in Actors /\ n # 0
    BY <1>1, ActorsAre DEF ManagerInv, HandsInv
  <2>2. SlotOk(n)
    BY <1>1, <1>3, <2>1 DEF ManagerInv, SlotInv
  <2>3. next' = next /\ home' = home /\ worker' = worker
    BY <1>1 DEF kidVars
  <2> QED
    BY <2>1, <2>2, <2>3 DEF SlotOk
<1>4. ASSUME job'[0].step # "none", job'[0].slot \notin clash' PROVE SlotOk(0)'
  <2>1. Takes(c)
    BY <1>4, CallFrame DEF LetsGo
  <2>2. /\ job'[0].slot = at /\ job[0].step = "none" /\ at \in Slots
        /\ job'[0].step = IF phase[c] \in {"start", "grow"} THEN "create" ELSE "look"
        /\ \A a \in Actors : job[a].step = "none" \/ job[a].slot # at
    BY <1>4, <2>1, Taken DEF Takes
  <2>3. ASSUME phase[c] \in {"start", "grow"}, stray = {} PROVE worker[at].pid = 0
    <3>1. active = at /\ at \in Nat /\ phase[c] \in Filling
      BY <2>3 DEF ManagerInv, SteadyInv, SizeInv, Filling
    <3>2. Used(at) => at < active
      BY <1>1, <1>4, <2>2, <3>1 DEF ManagerInv, PlacedInv, PlacedAt
    <3> QED
      BY <3>1, <3>2 DEF Used
  <2>4. stray' = stray /\ worker' = worker
    BY <1>1 DEF kidVars
  <2> QED
    BY <2>2, <2>3, <2>4 DEF SlotOk, StopSteps
<1>5. \A a \in Actors : a = 0 \/ a \in Loops
  BY ActorsAre
<1> QED
  BY <1>2, <1>3, <1>4, <1>5 DEF SlotInv

LEMMA CallHeld == ASSUME ManagerInv, NEW c \in Callers, Call(c) PROVE HeldInv' /\ QuietInv'
<1>1. /\ worker' = worker /\ kids' = kids /\ home' = home /\ Exempt' = Exempt /\ state # "NONE"
      /\ clash \subseteq clash' /\ \A n \in Loops : job'[n] = job[n]
  BY CallFrame, CallExists, CallTypes DEF kidVars, Exempt
<1>2. job[0].step \notin Keeping \cup {"pid"}
  BY CallFrame DEF LetsGo, Takes, Keeping
<1>3. HeldInv'
  <2>1. ASSUME NEW k \in kids \ Exempt, home[k] \notin clash' PROVE Held(k)'
    <3>1. Held(k)
      BY <1>1, <2>1 DEF ManagerInv, HeldInv
    <3>2. \A a \in Actors : job[a].step \in Keeping \cup {"pid"} => job'[a] = job[a]
      BY <1>1, <1>2, ActorsAre
    <3> QED
      BY <1>1, <3>1, <3>2 DEF Held
  <2> QED
    BY <1>1, <2>1 DEF HeldInv
<1>4. ASSUME phase[c] \in {"undo", "stop"}, at = to PROVE \A k \in kids : k \in Exempt \/ home[k] \in clash
  <2> SUFFICES ASSUME NEW k \in kids, k \notin Exempt, home[k] \notin clash PROVE FALSE
    OBVIOUS
  <2>1. Held(k)
    BY <1>1 DEF ManagerInv, HeldInv
  <2>2. k \in Kids /\ home[k] \in Slots /\ k # 0
    <3>1. next \in 1 .. MaxKids + 1 /\ kids \subseteq 1 .. next - 1 /\ home \in [Kids -> Slots]
      BY DEF ManagerInv, ManagerTypes
    <3>2. k \in Kids
      BY <3>1, Numbers, PoolManagerAssumption
    <3> QED
      BY <3>1, <3>2 DEF Kids
  <2>3. job[0].step = "none"
    BY <1>4, EmptyHand
  <2>4. Used(home[k])
    BY <2>1, <2>2, <2>3, ActorsAre DEF Held, Used
  <2>5. MaxWorkers <= home[k]
    BY <1>1, <1>4, <2>2, <2>4 DEF ManagerInv, PlacedInv, PlacedAt, SizeInv
  <2> QED
    BY <2>2, <2>5, PoolManagerAssumption DEF Slots
<1>5. state' \in {"NONE", "CREATED", "STOPPED"} => state' = state \/ (phase[c] \in {"undo", "stop"} /\ at = to)
  BY DEF Call, PoolStart, Visit, StartWorker, StartDone, StartUndone, TearDown, PoolStop,
     StopDrain, StopDone, PoolDestroy, PoolResize, Grow, Shrink, ResizeDone
<1>6. QuietInv'
  BY <1>1, <1>4, <1>5 DEF ManagerInv, QuietInv
<1> QED
  BY <1>3, <1>6

(* The slot in hand when the work on it is over. *)
LEMMA InHandNow ==
    ASSUME ManagerInv, NEW c \in Callers, NEW r \in {"done", "nothing"}, Came(r), state # "NONE"
    PROVE  /\ at < to /\ at \in Slots /\ job'[0].step = "none"
           /\ phase[c] \in Filling \cup Emptying =>
                \A d \in Callers : d = c \/ phase[d] \in {"idle", "sleep"}
           /\ at \notin clash =>
                /\ r = "nothing" \/ phase[c] \in Emptying => ~Used(at)
                /\ r = "done" /\ phase[c] \in Filling => Used(at)
<1>1. job[0].step = r /\ r # "none" /\ at < to /\ at \in Slots /\ job[0].slot = at
  BY DEF Came, From, ManagerInv, HandsInv
<1>2. job'[0].step = "none"
  BY NoJobIsJob, ActorsAre DEF Came, ManagerInv, ManagerTypes
<1>3. phase[c] \in Filling \cup Emptying => \A d \in Callers : d = c \/ phase[d] \in {"idle", "sleep"}
  BY DEF ManagerInv, ControlInv, Filling, Emptying, Phases
<1>4. ASSUME at \notin clash
      PROVE  /\ r = "nothing" \/ phase[c] \in Emptying => ~Used(at)
             /\ r = "done" /\ phase[c] \in Filling => Used(at)
  <2>1. SlotOk(0)
    BY <1>1, <1>4, ActorsAre DEF ManagerInv, SlotInv
  <2>2. \A n \in Loops : job[n].step = "none" \/ job[n].slot # at
    BY <1>1, <1>4, ActorsAre DEF ManagerInv, HandsInv
  <2> QED
    BY <1>1, <2>1, <2>2 DEF SlotOk, Used
<1> QED
  BY <1>1, <1>2, <1>3, <1>4

LEMMA CallPlaced == ASSUME ManagerInv, NEW c \in Callers, Call(c) PROVE PlacedInv'
<1>0. state # "NONE" /\ clash \subseteq clash' /\ \A i \in Slots : Used(i)' = Used(i)
  BY CallExists, CallTypes
<1> SUFFICES ASSUME NEW i \in Slots \ clash', Used(i) PROVE PlacedAt(i)'
  BY <1>0 DEF PlacedInv
<1>a. PlacedAt(i) /\ i \notin clash
  BY <1>0 DEF ManagerInv, PlacedInv
<1>b. /\ active \in Nat /\ at \in Nat /\ to \in Nat /\ i \in Nat /\ MinWorkers \in Nat
      /\ MaxWorkers \in Nat /\ i < MaxWorkers /\ phase \in [Callers -> Phases] /\ NULL \notin Callers
      /\ \A d \in Callers : phase[d] \notin {"idle", "sleep"} <=> mutex = d
      /\ \A d \in Callers :
        /\ phase[d] = "start" => to = MinWorkers /\ at <= active
        /\ phase[d] = "grow" => at <= to /\ active = at
        /\ phase[d] = "shrink" => at <= to /\ active - (to - at) <= at
        /\ phase[d] \in {"undo", "stop"} => to = MaxWorkers
  BY PoolManagerAssumption DEF ManagerInv, SizeInv, Kept, ControlInv, Slots
<1> USE DEF PlacedAt, Kept, Filling
<1>1. CASE PoolStart(c)
  BY <1>a, <1>b, <1>1 DEF PoolStart, Enter, ManagerInv, ControlInv, Stopping
<1>2. CASE Visit(c)
  <2>1. CASE Takes(c)
    BY <1>a, <1>b, <1>2, <2>1, Taken DEF Takes, callVars
  <2>2. CASE at \notin Slots
    <3>1. phase[c] = "shrink" /\ at < to /\ MaxWorkers <= at
      BY <1>b, <1>2, <2>2, InArray DEF Visit, Slots
    <3>2. \A d \in Callers \ {c} : phase[d] \in {"idle", "sleep"}
      BY <1>b, <3>1
    <3> QED
      BY <1>a, <1>b, <1>2, <2>2, <3>1, <3>2 DEF Visit, Leave
  <2> QED
    BY <1>2, <2>1, <2>2 DEF Visit, Takes, Emptying, callVars, From
<1>3. CASE StartWorker(c)
  <2>1. CASE Came("done") /\ Turn(c, "start", at + 1, to) /\ active' = active + 1
    <3>1. \A d \in Callers : d = c \/ phase[d] \in {"idle", "sleep"}
      BY <1>0, <1>3, <2>1, InHandNow DEF StartWorker
    <3> QED
      BY <1>a, <1>b, <1>3, <2>1, <3>1 DEF StartWorker, Turn
  <2>2. CASE Came("nothing") /\ Turn(c, "undo", 0, MaxWorkers)
    <3>1. \A d \in Callers : d = c \/ phase[d] \in {"idle", "sleep"}
      BY <1>0, <1>3, <2>2, InHandNow DEF StartWorker
    <3> QED
      BY <1>a, <1>b, <1>3, <2>2, <3>1 DEF StartWorker, Turn
  <2> QED
    BY <1>3, <2>1, <2>2 DEF StartWorker
<1>4. CASE StartDone(c)
  <2>1. job[0].step = "none"
    BY <1>4, EmptyHand DEF StartDone
  <2> QED
    BY <1>a, <1>b, <1>4, <2>1 DEF StartDone, Leave
<1>5. CASE StartUndone(c)
  BY <1>a, <1>b, <1>5 DEF StartUndone
<1>6. CASE TearDown(c)
  <2>1. PICK r \in {"done", "nothing"} : Came(r)
    BY <1>6 DEF TearDown
  <2>2. (\A d \in Callers : d = c \/ phase[d] \in {"idle", "sleep"}) /\ i # at
    BY <1>0, <1>a, <1>6, <2>1, InHandNow DEF TearDown, Emptying
  <2> QED
    BY <1>a, <1>b, <1>6, <2>2 DEF TearDown, Turn
<1>7. CASE PoolStop(c)
  BY <1>a, <1>b, <1>7 DEF PoolStop, Enter
<1>8. CASE StopDrain(c)
  <2>1. CASE phase[c] = "drain" /\ Turn(c, "stop", 0, MaxWorkers)
    BY <1>a, <1>b, <1>8, <2>1 DEF StopDrain, Turn
  <2>2. CASE phase[c] = "drain" /\ mutex' = NULL /\ phase' = [phase EXCEPT ![c] = "sleep"]
             /\ UNCHANGED <<at, to>>
    BY <1>a, <1>b, <1>8, <2>2 DEF StopDrain
  <2>3. CASE phase[c] = "sleep" /\ Enter(c, "drain") /\ UNCHANGED <<at, to>>
    BY <1>a, <1>b, <1>8, <2>3 DEF StopDrain, Enter
  <2> QED
    BY <1>8, <2>1, <2>2, <2>3 DEF StopDrain
<1>9. CASE StopDone(c)
  BY <1>a, <1>b, <1>9 DEF StopDone
<1>10. CASE PoolDestroy(c)
  <2>1. mutex = NULL
    BY <1>10 DEF PoolDestroy, ManagerInv, ControlInv
  <2> QED
    BY <1>a, <1>b, <1>10, <2>1 DEF PoolDestroy, Enter
<1>11. CASE PoolResize(c)
  <2>1. mutex = NULL /\ i < active /\ \A d \in Callers : phase[d] \in {"idle", "sleep"}
    BY <1>a, <1>b, <1>11 DEF PoolResize, Enter
  <2>2. PICK n \in MinWorkers .. MaxWorkers :
            /\ at' = (IF n > active THEN active ELSE n) /\ to' = (IF n > active THEN n ELSE active)
            /\ Enter(c, IF n > active THEN "grow" ELSE "shrink")
    BY <1>11 DEF PoolResize
  <2>3. mutex' # NULL /\ active' = active /\ n \in Nat
    BY <1>b, <1>11, <2>2 DEF PoolResize, Enter
  <2>4. CASE n > active
    BY <1>b, <2>1, <2>2, <2>3, <2>4 DEF Enter
  <2>5. CASE ~(n > active)
    BY <1>b, <2>1, <2>2, <2>3, <2>5 DEF Enter
  <2> QED
    BY <2>4, <2>5
<1>12. CASE Grow(c)
  <2>1. CASE Came("done") /\ Turn(c, "grow", at + 1, to) /\ active' = active + 1
    <3>1. \A d \in Callers : d = c \/ phase[d] \in {"idle", "sleep"}
      BY <1>0, <1>12, <2>1, InHandNow DEF Grow
    <3> QED
      BY <1>a, <1>b, <1>12, <2>1, <3>1 DEF Grow, Turn
  <2>2. CASE Came("nothing") /\ Leave(c) /\ UNCHANGED active
    <3>1. (\A d \in Callers : d = c \/ phase[d] \in {"idle", "sleep"}) /\ i # at
      BY <1>0, <1>a, <1>12, <2>2, InHandNow DEF Grow
    <3> QED
      BY <1>a, <1>b, <1>12, <2>2, <3>1 DEF Grow, Leave
  <2> QED
    BY <1>12, <2>1, <2>2 DEF Grow
<1>13. CASE Shrink(c)
  <2>1. PICK r \in {"done", "nothing"} : Came(r) /\ active' = IF r = "done" THEN active - 1 ELSE active
    BY <1>13 DEF Shrink
  <2>2. (\A d \in Callers : d = c \/ phase[d] \in {"idle", "sleep"}) /\ i # at /\ at < to
    BY <1>0, <1>a, <1>13, <2>1, InHandNow DEF Shrink, Emptying
  <2> QED
    BY <1>a, <1>b, <1>13, <2>1, <2>2 DEF Shrink, Turn
<1>14. CASE ResizeDone(c)
  <2>1. job[0].step = "none"
    BY <1>14, EmptyHand DEF ResizeDone
  <2> QED
    BY <1>a, <1>b, <1>14, <2>1 DEF ResizeDone, Leave
<1> QED
  BY <1>1, <1>2, <1>3, <1>4, <1>5, <1>6, <1>7, <1>8, <1>9, <1>10, <1>11, <1>12, <1>13, <1>14 DEF Call

LEMMA CallFilled == ASSUME ManagerInv, NEW c \in Callers, Call(c) PROVE FilledInv'
<1>0. /\ state # "NONE" /\ clash \subseteq clash' /\ stray' = stray /\ gap' = gap
      /\ \A i \in Slots : Used(i)' = Used(i)
  BY CallExists, CallTypes, CallFrame DEF kidVars
<1> SUFFICES ASSUME stray = {}, clash' = {}, ~gap, NEW i \in Slots, ~Used(i) PROVE FilledAt(i)'
  BY <1>0 DEF FilledInv
<1>a. FilledAt(i) /\ clash = {}
  BY <1>0 DEF ManagerInv, FilledInv
<1>b. /\ active \in Nat /\ at \in Nat /\ to \in Nat /\ i \in Nat /\ MinWorkers \in Nat
      /\ MaxWorkers \in Nat /\ i < MaxWorkers /\ phase \in [Callers -> Phases] /\ NULL \notin Callers
      /\ \A d \in Callers : phase[d] \notin {"idle", "sleep"} <=> mutex = d
      /\ \A d \in Callers :
        /\ phase[d] = "start" => to = MinWorkers /\ active = at
        /\ phase[d] = "grow" => at <= to /\ active = at
        /\ phase[d] = "shrink" => at <= to /\ active - (to - at) <= at /\ to <= MaxWorkers
        /\ phase[d] \in {"undo", "stop"} => to = MaxWorkers
  BY PoolManagerAssumption DEF ManagerInv, SizeInv, SteadyInv, Kept, ControlInv, Slots
<1> USE DEF FilledAt, Kept, Filling
<1>1. CASE PoolStart(c)
  <2>1. mutex = NULL /\ state = "CREATED"
    BY <1>1 DEF PoolStart, Enter
  <2>2. active = 0
    BY <2>1 DEF ManagerInv, SteadyInv
  <2> QED
    BY <1>a, <1>b, <1>1, <2>1, <2>2 DEF PoolStart, Enter
<1>2. CASE Visit(c)
  <2>1. CASE Takes(c)
    <3>1. \A d \in Callers : phase[d] = "shrink" => i < at \/ to <= i
      BY <1>a, <2>1 DEF Takes
    <3> QED
      BY <1>a, <1>b, <1>2, <2>1, <3>1, Taken DEF Takes, callVars
  <2>2. CASE at \notin Slots
    <3>1. phase[c] = "shrink" /\ at < to /\ MaxWorkers <= at
      BY <1>b, <1>2, <2>2, InArray DEF Visit, Slots
    <3> QED
      BY <1>b, <3>1
  <2> QED
    BY <1>2, <2>1, <2>2 DEF Visit, Takes, Emptying, callVars, From
<1>3. CASE StartWorker(c)
  <2>1. CASE Came("done") /\ Turn(c, "start", at + 1, to) /\ active' = active + 1
    <3>1. (\A d \in Callers : d = c \/ phase[d] \in {"idle", "sleep"}) /\ i # at
      BY <1>0, <1>a, <1>3, <2>1, InHandNow DEF StartWorker
    <3> QED
      BY <1>a, <1>b, <1>3, <2>1, <3>1 DEF StartWorker, Turn
  <2>2. CASE Came("nothing") /\ Turn(c, "undo", 0, MaxWorkers)
    <3>1. \A d \in Callers : d = c \/ phase[d] \in {"idle", "sleep"}
      BY <1>0, <1>3, <2>2, InHandNow DEF StartWorker
    <3> QED
      BY <1>a, <1>b, <1>3, <2>2, <3>1 DEF StartWorker, Turn
  <2> QED
    BY <1>3, <2>1, <2>2 DEF StartWorker
<1>4. CASE StartDone(c)
  BY <1>a, <1>b, <1>4 DEF StartDone, Leave
<1>5. CASE StartUndone(c)
  BY <1>a, <1>b, <1>5 DEF StartUndone, Leave
<1>6. CASE TearDown(c)
  <2>1. PICK r \in {"done", "nothing"} : Came(r)
    BY <1>6 DEF TearDown
  <2>2. \A d \in Callers : d = c \/ phase[d] \in {"idle", "sleep"}
    BY <1>0, <1>6, <2>1, InHandNow DEF TearDown, Emptying
  <2> QED
    BY <1>a, <1>b, <1>6, <2>2 DEF TearDown, Turn
<1>7. CASE PoolStop(c)
  BY <1>a, <1>b, <1>7 DEF PoolStop, Enter
<1>8. CASE StopDrain(c)
  <2>1. CASE phase[c] = "drain" /\ Turn(c, "stop", 0, MaxWorkers)
    BY <1>a, <1>b, <1>8, <2>1 DEF StopDrain, Turn
  <2>2. CASE phase[c] = "drain" /\ mutex' = NULL /\ phase' = [phase EXCEPT ![c] = "sleep"]
             /\ UNCHANGED <<at, to>>
    BY <1>a, <1>b, <1>8, <2>2 DEF StopDrain
  <2>3. CASE phase[c] = "sleep" /\ Enter(c, "drain") /\ UNCHANGED <<at, to>>
    BY <1>a, <1>b, <1>8, <2>3 DEF StopDrain, Enter
  <2> QED
    BY <1>8, <2>1, <2>2, <2>3 DEF StopDrain
<1>9. CASE StopDone(c)
  BY <1>a, <1>b, <1>9 DEF StopDone, Leave
<1>10. CASE PoolDestroy(c)
  <2>1. mutex = NULL
    BY <1>10 DEF PoolDestroy, ManagerInv, ControlInv
  <2> QED
    BY <1>a, <1>b, <1>10, <2>1 DEF PoolDestroy, Enter
<1>11. CASE PoolResize(c)
  <2>1. mutex = NULL /\ active <= i /\ \A d \in Callers : phase[d] \in {"idle", "sleep"}
    BY <1>a, <1>b, <1>11 DEF PoolResize, Enter
  <2>2. PICK n \in MinWorkers .. MaxWorkers :
            /\ at' = (IF n > active THEN active ELSE n) /\ to' = (IF n > active THEN n ELSE active)
            /\ Enter(c, IF n > active THEN "grow" ELSE "shrink")
    BY <1>11 DEF PoolResize
  <2>3. mutex' # NULL /\ active' = active /\ n \in Nat
    BY <1>b, <1>11, <2>2 DEF PoolResize, Enter
  <2>4. CASE n > active
    BY <1>b, <2>1, <2>2, <2>3, <2>4 DEF Enter
  <2>5. CASE ~(n > active)
    BY <1>b, <2>1, <2>2, <2>3, <2>5 DEF Enter
  <2> QED
    BY <2>4, <2>5
<1>12. CASE Grow(c)
  <2>1. CASE Came("done") /\ Turn(c, "grow", at + 1, to) /\ active' = active + 1
    <3>1. (\A d \in Callers : d = c \/ phase[d] \in {"idle", "sleep"}) /\ i # at
      BY <1>0, <1>a, <1>12, <2>1, InHandNow DEF Grow
    <3> QED
      BY <1>a, <1>b, <1>12, <2>1, <3>1 DEF Grow, Turn
  <2>2. CASE Came("nothing") /\ Leave(c) /\ UNCHANGED active
    <3>1. \A d \in Callers : d = c \/ phase[d] \in {"idle", "sleep"}
      BY <1>0, <1>12, <2>2, InHandNow DEF Grow
    <3> QED
      BY <1>a, <1>b, <1>12, <2>2, <3>1 DEF Grow, Leave
  <2> QED
    BY <1>12, <2>1, <2>2 DEF Grow
<1>13. CASE Shrink(c)
  <2>1. CASE Came("nothing")
    <3>1. at < to /\ at \in Slots /\ ~Used(at)
      BY <1>0, <1>a, <2>1, InHandNow
    <3>2. FilledAt(at)
      BY <1>0, <1>a, <3>1 DEF ManagerInv, FilledInv
    <3>3. job[0].step = "nothing" /\ phase[c] = "shrink"
      BY <1>13, <2>1 DEF Shrink, Came, From
    <3> QED
      BY <1>b, <3>1, <3>2, <3>3
  <2>2. CASE Came("done") /\ active' = active - 1
    <3>1. (\A d \in Callers : d = c \/ phase[d] \in {"idle", "sleep"}) /\ at < to
      BY <1>0, <1>13, <2>2, InHandNow DEF Shrink, Emptying
    <3> QED
      BY <1>a, <1>b, <1>13, <2>2, <3>1 DEF Shrink, Turn
  <2> QED
    BY <1>13, <2>1, <2>2 DEF Shrink
<1>14. CASE ResizeDone(c)
  <2>1. \A d \in Callers : d = c \/ phase[d] \in {"idle", "sleep"}
    BY <1>b, <1>14 DEF ResizeDone
  <2> QED
    BY <1>a, <1>b, <1>14, <2>1 DEF ResizeDone, Leave
<1> QED
  BY <1>1, <1>2, <1>3, <1>4, <1>5, <1>6, <1>7, <1>8, <1>9, <1>10, <1>11, <1>12, <1>13, <1>14 DEF Call

LEMMA CallStep == ASSUME ManagerInv, NEW c \in Callers, Call(c) PROVE ManagerInv'
  BY CallControl, CallTypes, CallHands, CallLoops, CallSize, CallSteady, CallSlot, CallHeld,
     CallPlaced, CallFilled DEF ManagerInv

-----------------------------------------------------------------------------
(* The rest: the pool's beginning and end, monitors, and event loops.       *)
LEMMA CreateStep == ASSUME ManagerInv, PoolCreate PROVE ManagerInv'
<1>1. /\ state = "NONE" /\ ~dying /\ state' = "CREATED"
      /\ UNCHANGED <<mutex, phase, at, to, active, thread, loops, dying, worker, job, kidVars, ghostVars>>
  BY DEF PoolCreate
<1>2. /\ \A a \in Actors : job[a].step = "none"
      /\ \A i \in Slots : worker[i].pid = 0
      /\ \A c \in Callers : phase[c] = "idle"
  BY <1>1 DEF ManagerInv, HandsInv, ControlInv
<1>3. ControlInv' /\ ManagerTypes'
  BY <1>1 DEF ManagerInv, ControlInv, ManagerTypes, PoolStates, Stopping, kidVars
<1>4. HandsInv' /\ SlotInv'
  BY <1>1, <1>2, ActorsAre DEF ManagerInv, HandsInv, SlotInv, ghostVars
<1>5. LoopsInv' /\ SizeInv'
  BY <1>1 DEF ManagerInv, LoopsInv, SizeInv, Kept, ghostVars
<1>6. SteadyInv' /\ KillInv'
  BY <1>1, <1>2 DEF ManagerInv, SteadyInv, KillInv, ghostVars, kidVars
<1>7. HeldInv' /\ QuietInv'
  <2>1. \A k \in kids : k \in Exempt \/ home[k] \in clash
    BY <1>1 DEF ManagerInv, QuietInv
  <2>2. kids' = kids /\ Exempt' = Exempt /\ home' = home /\ clash' = clash
    BY <1>1 DEF kidVars, ghostVars, Exempt
  <2> QED
    BY <2>1, <2>2 DEF HeldInv, QuietInv
<1>8. \A i \in Slots : ~Used(i)'
  BY <1>1, <1>2, ActorsAre DEF Used
<1>9. PlacedInv'
  BY <1>8 DEF PlacedInv
<1>10. FilledInv'
  <2>1. stray' = {} => active' = 0
    BY <1>1 DEF ManagerInv, SteadyInv, kidVars
  <2>2. \A i \in Slots : 0 <= i
    BY DEF Slots
  <2> QED
    BY <1>1, <1>2, <2>1, <2>2 DEF FilledInv, FilledAt, Filling
<1> QED
  BY <1>3, <1>4, <1>5, <1>6, <1>7, <1>9, <1>10 DEF ManagerInv

LEMMA CleanupStep == ASSUME ManagerInv, Cleanup PROVE ManagerInv'
<1>1. /\ dying /\ state # "NONE" /\ \A d \in Callers : phase[d] = "idle"
      /\ state' = "NONE" /\ worker' = [i \in Slots |-> Empty]
      /\ UNCHANGED <<mutex, phase, at, to, active, thread, loops, dying, job, kidVars, ghostVars>>
  BY DEF Cleanup
<1>2. state \in {"CREATED", "STOPPED"}
  BY <1>1 DEF ManagerInv, ControlInv, PoolStates, Stopping
<1>3. ControlInv' /\ ManagerTypes'
  BY <1>1, Zeroed DEF ManagerInv, ControlInv, ManagerTypes, PoolStates, Stopping, kidVars
<1>4. HandsInv' /\ SlotInv'
  BY <1>1, Zeroed DEF ManagerInv, HandsInv, SlotInv, ghostVars
<1>5. LoopsInv' /\ SizeInv'
  BY <1>1, <1>2 DEF ManagerInv, LoopsInv, SizeInv, Kept, ghostVars
<1>6. SteadyInv' /\ KillInv'
  BY <1>1, <1>2 DEF ManagerInv, SteadyInv, KillInv, ghostVars, kidVars
<1>7. QuietInv'
  <2>1. \A k \in kids : k \in Exempt \/ home[k] \in clash
    BY <1>2 DEF ManagerInv, QuietInv
  <2>2. kids' = kids /\ Exempt' = Exempt /\ home' = home /\ clash' = clash
    BY <1>1 DEF kidVars, ghostVars, Exempt
  <2> QED
    BY <2>1, <2>2 DEF QuietInv
<1>8. HeldInv' /\ PlacedInv' /\ FilledInv'
  BY <1>1 DEF HeldInv, PlacedInv, FilledInv
<1> QED
  BY <1>3, <1>4, <1>5, <1>6, <1>7, <1>8 DEF ManagerInv

(* A step that leaves the calls, the jobs and the pids alone, and makes no  *)
(* worker RUNNING. *)
LEMMA MonitorLeaves ==
    ASSUME ManagerInv, UNCHANGED <<callVars, job, kids, next, home, stray, ghostVars>>,
           worker' \in [Slots -> WorkerRec], state # "NONE",
           \A i \in Slots : /\ worker'[i].pid = worker[i].pid
                            /\ worker'[i].st = "RUNNING" => worker[i].st = "RUNNING",
           \A i \in Slots : worker[i].st = "RUNNING" =>
                worker'[i].st = "RUNNING" \/ worker[i].pid \in given_up',
           given_up \subseteq given_up'
    PROVE  ManagerInv'
<1>1. ControlInv' /\ ManagerTypes'
  BY DEF ManagerInv, ControlInv, ManagerTypes, Stopping, callVars
<1>2. HandsInv'
  BY DEF ManagerInv, HandsInv, callVars, ghostVars
<1>3. LoopsInv' /\ SizeInv' /\ SteadyInv' /\ KillInv'
  BY DEF ManagerInv, LoopsInv, SizeInv, SteadyInv, KillInv, Kept, callVars, ghostVars
<1>4. SlotInv'
  <2>1. ASSUME NEW a \in Actors, job[a].step # "none", job[a].slot \notin clash PROVE SlotOk(a)'
    <3>1. SlotOk(a) /\ job[a].slot \in Slots
      BY <2>1, Jobs DEF ManagerInv, SlotInv
    <3> QED
      BY <3>1 DEF SlotOk, callVars
  <2> QED
    BY <2>1 DEF ManagerInv, SlotInv, ghostVars
<1>5. HeldInv'
  <2> SUFFICES ASSUME NEW k \in kids \ Exempt', home[k] \notin clash PROVE Held(k)'
    BY DEF HeldInv, ghostVars
  <2>1. Held(k) /\ k \notin given_up'
    BY DEF ManagerInv, HeldInv, Exempt
  <2>2. home[k] \in Slots
    <3>1. next \in 1 .. MaxKids + 1 /\ kids \subseteq 1 .. next - 1 /\ home \in [Kids -> Slots]
      BY DEF ManagerInv, ManagerTypes
    <3>2. k \in Kids
      BY <3>1, Numbers, PoolManagerAssumption
    <3> QED
      BY <3>1, <3>2
  <2> QED
    BY <2>1, <2>2 DEF Held
<1>6. QuietInv'
  BY DEF ManagerInv, QuietInv, Exempt, callVars, ghostVars
<1>7. \A i \in Slots : Used(i)' = Used(i)
  BY DEF Used
<1>8. \A i \in Slots : PlacedAt(i)' = PlacedAt(i) /\ FilledAt(i)' = FilledAt(i)
  BY DEF PlacedAt, FilledAt, Kept, callVars
<1>9. PlacedInv' /\ FilledInv'
  BY <1>7, <1>8 DEF ManagerInv, PlacedInv, FilledInv, callVars, ghostVars
<1> QED
  BY <1>1, <1>2, <1>3, <1>4, <1>5, <1>6, <1>9 DEF ManagerInv

LEMMA WatchStep ==
    ASSUME ManagerInv, state # "NONE", NEW k \in Kids, WatchCheck(k) \/ WatchMark(k)
    PROVE  ManagerInv'
<1>1. worker \in [Slots -> WorkerRec] /\ home[k] \in Slots
  BY DEF ManagerInv, ManagerTypes
<1>2. CASE WatchCheck(k)
  BY <1>1, <1>2, MonitorLeaves DEF WatchCheck
<1>3. CASE WatchMark(k)
  <2> DEFINE had == worker[home[k]]
             has == [had EXCEPT !.st = "ERROR"]
  <2>1. had \in WorkerRec /\ has \in WorkerRec /\ has.pid = had.pid /\ has.st = "ERROR"
    BY <1>1 DEF WorkerRec, WorkerStates
  <2>2. worker' = [worker EXCEPT ![home[k]] = has]
    BY <1>3 DEF WatchMark
  <2>3. /\ UNCHANGED <<callVars, job, kids, next, home, stray, ghostVars>>
        /\ given_up' = IF had.st = "RUNNING" THEN given_up \cup {had.pid} ELSE given_up
    BY <1>3 DEF WatchMark
  <2> HIDE DEF has
  <2>4. /\ worker' \in [Slots -> WorkerRec] /\ worker'[home[k]] = has
        /\ \A i \in Slots \ {home[k]} : worker'[i] = worker[i]
    BY <1>1, <2>1, <2>2
  <2>5. \A i \in Slots : /\ worker'[i].pid = worker[i].pid
                         /\ worker'[i].st = "RUNNING" => worker[i].st = "RUNNING"
                         /\ worker[i].st = "RUNNING" =>
                                worker'[i].st = "RUNNING" \/ worker[i].pid \in given_up'
    BY <2>1, <2>3, <2>4
  <2> QED
    BY <2>3, <2>4, <2>5, MonitorLeaves
<1> QED
  BY <1>2, <1>3

LEMMA ExitStep == ASSUME ManagerInv, NEW n \in Loops, LoopExit(n) PROVE ManagerInv'
<1>1. /\ job[n].step = "none" /\ loops' = loops \ {n}
      /\ UNCHANGED <<state, mutex, phase, at, to, active, thread, dying, worker, job, kidVars, ghostVars>>
  BY DEF LoopExit, From
<1>2. ControlInv' /\ ManagerTypes' /\ HandsInv'
  BY <1>1 DEF ManagerInv, ControlInv, ManagerTypes, HandsInv, Stopping, kidVars, ghostVars
<1>3. LoopsInv' /\ SizeInv' /\ SteadyInv' /\ KillInv'
  BY <1>1 DEF ManagerInv, LoopsInv, SizeInv, SteadyInv, KillInv, Kept, kidVars, ghostVars
<1>4. SlotInv' /\ HeldInv' /\ QuietInv'
  BY <1>1 DEF ManagerInv, SlotInv, SlotOk, HeldInv, QuietInv, Held, Exempt, kidVars, ghostVars
<1>5. PlacedInv' /\ FilledInv'
  BY <1>1 DEF ManagerInv, PlacedInv, FilledInv, PlacedAt, FilledAt, Used, Kept, kidVars, ghostVars
<1> QED
  BY <1>2, <1>3, <1>4, <1>5 DEF ManagerInv

LEMMA PickStep ==
    ASSUME ManagerInv, state # "NONE", NEW n \in Loops, NEW i \in Slots, LoopPick(n, i)
    PROVE  ManagerInv'
<1> DEFINE j == [NoJob EXCEPT !.slot = i, !.step = "look"]
<1>1. j \in JobRec /\ j.slot = i /\ j.step = "look" /\ n \in Actors /\ n # 0
  BY NoJobIsJob, StepNames, ActorsAre DEF JobRec
<1>2. /\ job' = [job EXCEPT ![n] = j] /\ n \in loops /\ job[n].step = "none"
      /\ worker[i].pid > 0 \/ worker[i].st = "RUNNING"
      /\ clash' = (IF InHand(i) = {} THEN clash ELSE clash \cup {i})
      /\ UNCHANGED <<callVars, worker, kidVars, gap, failed, overrun, killed>>
  BY DEF LoopPick, TakeInHand, From
<1> HIDE DEF j
<1>3. /\ job' \in [Actors -> JobRec] /\ job'[n] = j /\ \A a \in Actors \ {n} : job'[a] = job[a]
      /\ clash \subseteq clash'
      /\ i \notin clash' => \A a \in Actors : job[a].step = "none" \/ job[a].slot # i
  BY <1>1, <1>2 DEF ManagerInv, ManagerTypes, InHand
<1>4. ControlInv' /\ ManagerTypes'
  BY <1>2, <1>3 DEF ManagerInv, ControlInv, ManagerTypes, Stopping, callVars, kidVars
<1>5. HandsInv'
  <2>1. job'[0] = job[0]
    BY <1>1, <1>3, ActorsAre
  <2>2. \A m \in Loops : job'[m].step # "none" => m \in loops /\ job'[m].step \notin {"done", "nothing"}
    BY <1>1, <1>2, <1>3, ActorsAre DEF ManagerInv, HandsInv
  <2>3. \A a, b \in Actors :
            job'[a].step # "none" /\ job'[b].step # "none" /\ job'[a].slot = job'[b].slot =>
                a = b \/ job'[a].slot \in clash'
    BY <1>1, <1>3 DEF ManagerInv, HandsInv
  <2> QED
    BY <1>2, <2>1, <2>2, <2>3 DEF ManagerInv, HandsInv, callVars
<1>6. LoopsInv' /\ SizeInv' /\ SteadyInv' /\ KillInv'
  <2>1. job'[0] = job[0]
    BY <1>1, <1>3, ActorsAre
  <2> QED
    BY <1>2, <1>3, <2>1 DEF ManagerInv, LoopsInv, SizeInv, SteadyInv, KillInv, Kept, callVars, kidVars
<1>7. SlotInv'
  <2>1. ASSUME NEW a \in Actors, job'[a].step # "none", job'[a].slot \notin clash' PROVE SlotOk(a)'
    <3>1. CASE a = n
      BY <1>1, <1>3, <3>1 DEF SlotOk, StopSteps
    <3>2. CASE a # n
      <4>1. SlotOk(a) /\ job'[a] = job[a]
        BY <1>3, <2>1, <3>2 DEF ManagerInv, SlotInv
      <4> QED
        BY <1>2, <4>1 DEF SlotOk, callVars, kidVars
    <3> QED
      BY <3>1, <3>2
  <2> QED
    BY <1>2, <1>3, <2>1 DEF ManagerInv, SlotInv
<1>8. HeldInv' /\ QuietInv'
  <2>1. ASSUME NEW k \in kids \ Exempt, home[k] \notin clash' PROVE Held(k)'
    <3>1. Held(k)
      BY <1>3, <2>1 DEF ManagerInv, HeldInv
    <3>2. \A a \in Actors : job[a].step # "none" => job'[a] = job[a]
      BY <1>2, <1>3
    <3>3. \A a \in Actors : job[a].step = "pid" \/ job[a].step \in Keeping => job[a].step # "none"
      BY DEF Keeping
    <3> QED
      BY <1>2, <3>1, <3>2, <3>3 DEF Held, kidVars
  <2> QED
    BY <1>2, <1>3, <2>1 DEF ManagerInv, HeldInv, QuietInv, Exempt, kidVars, callVars
<1>9. ASSUME NEW s \in Slots
      PROVE  /\ Used(s) => Used(s)'
             /\ Used(s)' /\ s \notin clash' => Used(s)
  <2>1. \A m \in Loops : m # n => job'[m] = job[m]
    BY <1>3, ActorsAre
  <2>2. worker' = worker
    BY <1>2
  <2>3. Used(s) => Used(s)'
    BY <1>2, <2>1, <2>2 DEF Used
  <2>4. ASSUME Used(s)', s \notin clash' PROVE Used(s)
    <3>1. CASE s = i
      <4>1. worker[i].pid # 0
        BY <1>2, <1>3, <2>4, <3>1, PoolManagerAssumption DEF ManagerInv, SlotInv, ManagerTypes, WorkerRec
      <4> QED
        BY <3>1, <4>1 DEF Used
    <3>2. CASE s # i
      BY <1>1, <1>3, <2>1, <2>2, <2>4, <3>2 DEF Used
    <3> QED
      BY <3>1, <3>2
  <2> QED
    BY <2>3, <2>4
<1>10. \A s \in Slots : PlacedAt(s)' = PlacedAt(s) /\ FilledAt(s)' = FilledAt(s)
  <2>1. job'[0] = job[0]
    BY <1>1, <1>3, ActorsAre
  <2> QED
    BY <1>2, <2>1 DEF PlacedAt, FilledAt, Kept, callVars
<1>11. PlacedInv'
  BY <1>2, <1>3, <1>9, <1>10 DEF ManagerInv, PlacedInv
<1>12. FilledInv'
  <2>1. stray' = stray /\ gap' = gap /\ state' = state /\ (clash' = {} => clash = {})
    BY <1>2, <1>3 DEF kidVars, callVars
  <2> QED
    BY <1>9, <1>10, <2>1 DEF ManagerInv, FilledInv
<1> QED
  BY <1>4, <1>5, <1>6, <1>7, <1>8, <1>11, <1>12 DEF ManagerInv

LEMMA ManagerStep == ManagerInv /\ [ManagerNext]_managerVars => ManagerInv'
<1> SUFFICES ASSUME ManagerInv, [ManagerNext]_managerVars PROVE ManagerInv'
  OBVIOUS
<1>1. CASE UNCHANGED managerVars
  <2>1. UNCHANGED <<callVars, worker, job, kidVars, ghostVars>>
    BY <1>1 DEF managerVars
  <2>2. ControlInv' /\ ManagerTypes' /\ HandsInv'
    BY <2>1 DEF ManagerInv, ControlInv, ManagerTypes, HandsInv, Stopping, callVars, kidVars, ghostVars
  <2>3. LoopsInv' /\ SizeInv' /\ SteadyInv' /\ KillInv'
    BY <2>1 DEF ManagerInv, LoopsInv, SizeInv, SteadyInv, KillInv, Kept, callVars, kidVars, ghostVars
  <2>4. SlotInv' /\ HeldInv' /\ QuietInv'
    BY <2>1 DEF ManagerInv, SlotInv, SlotOk, HeldInv, QuietInv, Held, Exempt, callVars, kidVars, ghostVars
  <2>5. PlacedInv' /\ FilledInv'
    BY <2>1 DEF ManagerInv, PlacedInv, FilledInv, PlacedAt, FilledAt, Used, Kept, callVars, kidVars, ghostVars
  <2> QED
    BY <2>2, <2>3, <2>4, <2>5 DEF ManagerInv
<1>2. CASE ManagerNext
  BY <1>2, CreateStep, CleanupStep, CallStep, ExitStep, WorkerStep, WatchStep, PickStep DEF ManagerNext
<1> QED
  BY <1>1, <1>2

(* What every step of a pool's callers, monitors and event loops keeps: who *)
(* holds pool_mutex and what the state is, whose hands a worker slot is in  *)
(* and what they know of it, where the workers are against active_workers   *)
(* and the loop in progress, and where every child that was not waited for  *)
(* is (pool_manager.c, worker.c, handle_worker_status_event).               *)
THEOREM ManagerInvariance == ManagerSpec => []ManagerInv
  BY PoolInit, ManagerStep, PTL DEF ManagerSpec

(* However pool_start, pool_resize, pool_stop and the event loop's restarts *)
(* follow each other or overlap, active_workers is the number of slots with *)
(* a worker, and those are the first ones; the exceptions are named in      *)
(* ActiveExact.                                                             *)
THEOREM ActiveCountExact == ManagerSpec => []ActiveExact
<1>1. ManagerInv => ActiveExact
  <2> SUFFICES ASSUME ManagerInv PROVE ActiveExact
    OBVIOUS
  <2>1. active \in 0 .. 2 * MaxWorkers /\ \A c \in Callers : phase[c] = "stop" => active > 0
    BY PoolManagerAssumption DEF ManagerInv, SizeInv
  <2>2. kids \subseteq Kids
    <3>1. next \in 1 .. MaxKids + 1 /\ kids \subseteq 1 .. next - 1
      BY DEF ManagerInv, ManagerTypes
    <3>2. next <= next
      BY <3>1
    <3> QED
      BY <3>1, <3>2, Numbers
  <2>3. stray = {} => ~overrun /\ (state = "RUNNING" => active \in MinWorkers .. MaxWorkers)
    BY <2>1, PoolManagerAssumption DEF ManagerInv, SteadyInv, SizeInv
  <2>4. ASSUME NEW i \in Slots PROVE i \in Live \cup Restarting <=> Used(i)
    <3>1. worker[i].pid \in Nat
      BY DEF ManagerInv, ManagerTypes, WorkerRec
    <3> QED
      BY <3>1, ActorsAre DEF Live, Restarting, Used, InHand
  <2>5. ASSUME mutex = NULL, state # "NONE"
        PROVE  /\ Live \cup Restarting \subseteq 0 .. active - 1 \cup clash
               /\ (stray = {} /\ ~gap /\ clash = {}) => 0 .. active - 1 \subseteq Live \cup Restarting
    <3>1. active \in Nat /\ (stray = {} => active <= MaxWorkers) /\ MaxWorkers \in Nat
      BY PoolManagerAssumption DEF ManagerInv, SizeInv, SteadyInv
    <3>2. ASSUME NEW i \in Live \cup Restarting, i \notin clash PROVE i \in 0 .. active - 1
      <4>1. i \in Slots /\ Used(i)
        BY <2>4 DEF Live, Restarting
      <4>2. i < active
        BY <2>5, <3>2, <4>1 DEF ManagerInv, PlacedInv, PlacedAt
      <4> QED
        BY <3>1, <4>1, <4>2 DEF Slots
    <3>3. ASSUME stray = {}, ~gap, clash = {}, NEW i \in 0 .. active - 1 PROVE i \in Live \cup Restarting
      <4>1. i \in Slots /\ ~(active <= i)
        BY <3>1, <3>3 DEF Slots
      <4>2. Used(i)
        BY <2>5, <3>3, <4>1 DEF ManagerInv, FilledInv, FilledAt
      <4> QED
        BY <2>4, <4>1, <4>2
    <3> QED
      BY <3>2, <3>3
  <2> QED
    BY <2>1, <2>2, <2>3, <2>5 DEF ActiveExact
<1> QED
  BY <1>1, ManagerInvariance, PTL

(* A pool that is stopped, not started or gone has waited for every child   *)
(* and its event loop's thread is over, although that thread restarts       *)
(* workers without pool_mutex, step by step against pool_stop; the          *)
(* exceptions are named in StoppedIsQuiet.                                  *)
THEOREM StopIsQuiet == ManagerSpec => []StoppedIsQuiet
<1>1. ManagerInv => StoppedIsQuiet
  BY DEF ManagerInv, QuietInv, LoopsInv, KillInv, Exempt, StoppedIsQuiet
<1> QED
  BY <1>1, ManagerInvariance, PTL

-----------------------------------------------------------------------------
(* EventLoop                                                               *)

-----------------------------------------------------------------------------
(* The inductive invariant *)

\* A worker's structure.
WorkerType ==
    [st : {"CREATED", "RUNNING", "STOPPING", "STOPPED", "ERROR"}, start : 1 .. MaxStarts,
     child : {"none", "alive", "zombie"}, stale : BOOLEAN,
     mon : {"loop", "mark", "out"}, monRun : BOOLEAN]

\* Where the loop is at a worker, and where it is not.
AtWorker == {"scan", "status", "stopping", "join", "restart"}
InStatus == {"status", "stopping", "join", "restart"}

\* Types.
Types ==
    /\ pc \in {"dispatch", "assign", "sigread", "exited"} \cup AtWorker
    /\ batch \subseteq {"submit", "control", "signal", "timer"}
    /\ ret \in {"dispatch", "sigread", "scan"}
    /\ left \in Nat /\ queue \in 0 .. QueueCapacity /\ submitEfd \in Nat
    /\ controlEfd \in Nat /\ notify \in BOOLEAN
    /\ slot \in Workers \cup {0}
    /\ w \in [Workers -> WorkerType]

\* A handler that is at a worker has one; a SIGCHLD is of a worker; and
\* handle_worker_status_event knows which handler it returns to.
HandlerInv ==
    /\ pc \in AtWorker => slot \in Workers
    /\ pc \in InStatus => ret \in {"sigread", "scan"}
    /\ \A s \in sig : s[1] # 0 => s[1] \in Workers

\* The handler of submissions is in its loop exactly while it has a task to take,
\* and an event that epoll_wait returned has a counter to read.
CountInv ==
    /\ pc = "assign" <=> left > 0
    /\ "submit" \in batch => submitEfd > 0
    /\ queue = submitEfd + left + (IF notify THEN 1 ELSE 0)

\* A monitor runs in a structure that is RUNNING, or that worker_stop is at.
MonitorInv ==
    \A i \in Workers : w[i].mon # "out" =>
        \/ w[i].st = "RUNNING"
        \/ pc \in {"stopping", "join"} /\ slot = i

\* Whose child is there although the structure is not RUNNING: one its monitor gave
\* up, or one that worker_stop is about to wait for.
ChildInv ==
    /\ \A i \in Workers : w[i].child # "none" /\ w[i].st # "RUNNING" =>
          \/ <<i, w[i].start>> \in marked
          \/ pc = "stopping" /\ slot = i
    /\ pc = "join" => w[slot].child = "none"
    /\ pc = "stopping" => w[slot].st # "RUNNING"
    /\ pc = "join" => w[slot].st # "RUNNING"
    /\ pc = "restart" => w[slot].st # "RUNNING"
    /\ orphans \subseteq marked

Inv == Types /\ HandlerInv /\ CountInv /\ MonitorInv /\ ChildInv

-----------------------------------------------------------------------------
(* Helpers *)

\* The constants as the provers need them.
LEMMA Sizes ==
    /\ Cardinality(Workers) \in Nat /\ 1 \in Workers /\ 0 \notin Workers
    /\ \A i \in Workers : i \in 1 .. Cardinality(Workers)
    /\ \A i \in 1 .. Cardinality(Workers) : i \in Workers
    /\ QueueCapacity \in Nat /\ MaxStarts \in Nat /\ MaxStarts >= 1
<1>1. Cardinality(Workers) \in Nat /\ Cardinality(Workers) # 0
  BY EventLoopAssumption, FS_CardinalityType, FS_EmptySet
<1>2. Workers = 1 .. Cardinality(Workers)
  BY EventLoopAssumption
<1>3. 1 \in 1 .. Cardinality(Workers) /\ 0 \notin 1 .. Cardinality(Workers)
  BY <1>1
<1> QED BY <1>1, <1>2, <1>3, EventLoopAssumption

\* A step that touches neither the tasks nor the loop's place keeps the count.
LEMMA CountStays ==
    ASSUME Inv, UNCHANGED <<pc, batch, left, queue, submitEfd, notify>>
    PROVE  CountInv'
BY DEF Inv, CountInv

\* Nor does a step of the loop outside the handler of submissions.
LEMMA CountStaysElsewhere ==
    ASSUME Inv, UNCHANGED <<left, queue, submitEfd, notify>>, pc # "assign", pc' # "assign",
           batch' \subseteq batch
    PROVE  CountInv'
BY DEF Inv, CountInv

\* A step that moves the loop between handlers without touching a worker keeps what
\* is known about the workers.
LEMMA WorkersStay ==
    ASSUME Inv, UNCHANGED <<w, orphans, marked>>, pc \notin {"stopping", "join", "restart"},
           pc' \notin {"stopping", "join", "restart"}
    PROVE  MonitorInv' /\ ChildInv'
BY DEF Inv, MonitorInv, ChildInv

\* Where NextSlot goes.
LEMMA NextSlotEffect ==
    ASSUME Inv, slot \in Workers, NextSlot
    PROVE  /\ slot' \in Workers \cup {0} /\ pc' \in {"scan", "dispatch"}
           /\ pc' \in AtWorker => slot' \in Workers
BY DEF NextSlot, AtWorker

\* Where Return goes.
LEMMA ReturnEffect ==
    ASSUME Inv, pc \in InStatus, Return
    PROVE  /\ slot' \in Workers \cup {0} /\ pc' \in {"scan", "dispatch", "sigread"}
           /\ pc' \in AtWorker => slot' \in Workers
           /\ ret' = "dispatch"
<1>1. slot \in Workers /\ ret \in {"sigread", "scan"}
  BY DEF Inv, HandlerInv, AtWorker, InStatus
<1>2. CASE ret = "scan"
  BY <1>1, <1>2, NextSlotEffect DEF Return
<1>3. CASE ret = "sigread"
  BY <1>3 DEF Return, AtWorker
<1> QED BY <1>1, <1>2, <1>3

-----------------------------------------------------------------------------
(* The environment and the monitors *)

\* A signal that is raised is of a worker, or was there.
LEMMA RaiseEffect ==
    ASSUME Inv, NEW i \in Workers, Raise(i)
    PROVE  \A s \in sig' : s[1] # 0 => s[1] \in Workers
<1>1. \A s \in sig : s[1] # 0 => s[1] \in Workers
  BY DEF Inv, HandlerInv
<1>2. sig' = sig \/ sig' = sig \cup {<<i, w[i].start>>}
  BY DEF Raise
<1>3. <<i, w[i].start>>[1] = i
  OBVIOUS
<1> QED BY <1>1, <1>2, <1>3

\* A child exits, or its heartbeat grows old.
LEMMA ChildStepInv ==
    ASSUME Inv, NEW i \in Workers, ChildExit(i) \/ HeartbeatOld(i)
    PROVE  Inv'
<1>1. /\ UNCHANGED <<loopVars, taskVars, stopVars, orphans, marked>>
      /\ (sig' = sig \/ Raise(i)) /\ w[i].child # "none"
      /\ \/ w' = [w EXCEPT ![i].child = "zombie"]
         \/ w' = [w EXCEPT ![i].stale = TRUE]
  BY DEF ChildExit, HeartbeatOld, ghosts
<1>2. w \in [Workers -> WorkerType]
  BY DEF Inv, Types
<1>3. /\ w' \in [Workers -> WorkerType]
      /\ \A j \in Workers : /\ w'[j].st = w[j].st /\ w'[j].start = w[j].start
                            /\ w'[j].mon = w[j].mon
                            /\ (w'[j].child # "none" <=> w[j].child # "none")
  <2>1. CASE w' = [w EXCEPT ![i].child = "zombie"]
    BY <1>1, <1>2, <2>1 DEF WorkerType
  <2>2. CASE w' = [w EXCEPT ![i].stale = TRUE]
    BY <1>1, <1>2, <2>2 DEF WorkerType
  <2> QED BY <1>1, <2>1, <2>2
<1>4. /\ UNCHANGED <<pc, batch, slot, ret, left, queue, submitEfd, notify, tasks, running,
                     controlEfd, spc, lostStop, orphans, marked>>
  BY <1>1 DEF loopVars, taskVars, stopVars
<1>5. Types'
  BY <1>3, <1>4 DEF Inv, Types
<1>6. HandlerInv'
  <2>1. \A s \in sig' : s[1] # 0 => s[1] \in Workers
    BY <1>1, RaiseEffect DEF Inv, HandlerInv
  <2> QED BY <1>4, <2>1 DEF Inv, HandlerInv
<1>7. CountInv'
  BY <1>4, CountStays
<1>8. MonitorInv'
  BY <1>3, <1>4 DEF Inv, MonitorInv
<1>9. ChildInv'
  BY <1>3, <1>4 DEF Inv, ChildInv, HandlerInv, AtWorker
<1> QED BY <1>5, <1>6, <1>7, <1>8, <1>9 DEF Inv

\* worker_monitor_thread leaves its loop, and marks its worker or not.
LEMMA MonitorStepInv ==
    ASSUME Inv, NEW i \in Workers, Monitor(i)
    PROVE  Inv'
<1>0. w \in [Workers -> WorkerType]
  BY DEF Inv, Types
<1>1. /\ UNCHANGED <<pc, batch, slot, ret, left, queue, submitEfd, notify, controlEfd, sig, orphans>>
      /\ w[i].mon # "out"
      /\ \/ /\ w' = [w EXCEPT ![i].mon = IF w[i].monRun THEN "mark" ELSE "out"]
            /\ marked' = marked
         \/ /\ w' = [w EXCEPT ![i].mon = "out", ![i].st = "ERROR"]
            /\ marked' = marked \cup {<<i, w[i].start>>}
  BY DEF Monitor, MonitorCheck, MonitorMark, loopVars, taskVars, stopVars, ghosts
<1>2. /\ w' \in [Workers -> WorkerType]
      /\ \A j \in Workers : w'[j].child = w[j].child /\ w'[j].start = w[j].start
      /\ \A j \in Workers \ {i} : w'[j] = w[j]
      /\ marked \subseteq marked'
      /\ \/ w'[i].st = w[i].st
         \/ w'[i].st = "ERROR" /\ w'[i].mon = "out" /\ <<i, w[i].start>> \in marked'
  BY <1>0, <1>1 DEF WorkerType
<1>3. Types' /\ HandlerInv' /\ CountInv'
  BY <1>1, <1>2, CountStays DEF Inv, Types, HandlerInv
<1>4. MonitorInv'
  BY <1>1, <1>2 DEF Inv, MonitorInv
<1>5. ChildInv'
  <2>1. \A j \in Workers : w'[j].st # "RUNNING" =>
           w[j].st # "RUNNING" \/ <<j, w[j].start>> \in marked'
    BY <1>2
  <2>2. \A j \in Workers : w[j].st # "RUNNING" => w'[j].st # "RUNNING"
    BY <1>2
  <2>3. pc \in {"stopping", "join", "restart"} => slot \in Workers
    BY DEF Inv, HandlerInv, AtWorker
  <2> QED BY <1>1, <1>2, <2>1, <2>2, <2>3 DEF Inv, ChildInv
<1> QED BY <1>3, <1>4, <1>5 DEF Inv

\* The submitter, the stoppers, the timer and a SIGTERM touch no worker.
LEMMA OutsideInv ==
    ASSUME Inv, Submit \/ TimerFires \/ Terminate \/ \E s \in Stoppers : Stop(s)
    PROVE  Inv'
<1>1. UNCHANGED <<pc, batch, slot, ret, left, w, orphans, marked>>
  BY DEF Submit, TimerFires, Terminate, Stop, loopVars, ghosts
<1>2. /\ queue \in 0 .. QueueCapacity /\ submitEfd \in Nat /\ controlEfd \in Nat /\ left \in Nat
      /\ notify \in BOOLEAN /\ QueueCapacity \in Nat
  BY Sizes DEF Inv, Types
<1>3. \/ UNCHANGED <<queue, submitEfd, notify>>
      \/ ~notify /\ queue < QueueCapacity /\ queue' = queue + 1 /\ notify' = TRUE /\ submitEfd' = submitEfd
      \/ notify /\ notify' = FALSE /\ submitEfd' = submitEfd + 1 /\ queue' = queue
  BY DEF Submit, TimerFires, Terminate, Stop, taskVars
<1>4. controlEfd' \in Nat
  BY <1>2 DEF Submit, TimerFires, Terminate, Stop, stopVars
<1>5. /\ queue' \in 0 .. QueueCapacity /\ submitEfd' \in Nat /\ notify' \in BOOLEAN
      /\ submitEfd' >= submitEfd
  <2>1. CASE UNCHANGED <<queue, submitEfd, notify>>
    BY <1>2, <2>1
  <2>2. CASE queue < QueueCapacity /\ queue' = queue + 1 /\ notify' = TRUE /\ submitEfd' = submitEfd
    BY <1>2, <2>2
  <2>3. CASE notify' = FALSE /\ submitEfd' = submitEfd + 1 /\ queue' = queue
    <3>1. submitEfd' \in Nat /\ submitEfd' >= submitEfd
      BY <1>2, <2>3
    <3> QED BY <1>2, <2>3, <3>1
  <2> QED BY <1>3, <2>1, <2>2, <2>3
<1>6. Types'
  BY <1>1, <1>4, <1>5 DEF Inv, Types
<1>7. HandlerInv'
  <2>1. sig' = sig \/ sig' = sig \cup {<<0, 0>>}
    BY DEF Submit, TimerFires, Terminate, Stop
  <2>2. <<0, 0>>[1] = 0
    OBVIOUS
  <2> QED BY <1>1, <2>1, <2>2 DEF Inv, HandlerInv
<1>8. CountInv'
  <2>1. (pc' = "assign" <=> left' > 0) /\ ("submit" \in batch' => submitEfd' > 0)
    BY <1>1, <1>2, <1>5 DEF Inv, CountInv
  <2>2. queue = submitEfd + left + (IF notify THEN 1 ELSE 0)
    BY DEF Inv, CountInv
  <2>3. queue' = submitEfd' + left' + (IF notify' THEN 1 ELSE 0)
    BY <1>1, <1>2, <1>3, <2>2
  <2> QED BY <2>1, <2>3 DEF CountInv
<1>9. MonitorInv' /\ ChildInv'
  BY <1>1 DEF Inv, MonitorInv, ChildInv
<1> QED BY <1>6, <1>7, <1>8, <1>9 DEF Inv

-----------------------------------------------------------------------------
(* The loop between its handlers *)

\* event_loop_thread fetches the next events.
LEMMA EpollWaitInv == ASSUME Inv, EpollWait PROVE Inv'
<1>1. /\ UNCHANGED <<slot, ret, left, queue, submitEfd, notify, controlEfd, sig, w, orphans, marked>>
      /\ pc = "dispatch" /\ batch = {}
      /\ \/ pc' = "exited" /\ batch' = batch
         \/ pc' = pc /\ batch' = Ready
  BY DEF EpollWait, taskVars, stopVars, ghosts
<1>2. batch' \subseteq {"submit", "control", "signal", "timer"} /\ ("submit" \in batch' => submitEfd > 0)
  BY <1>1 DEF Ready
<1>3. Types' /\ HandlerInv'
  BY <1>1, <1>2 DEF Inv, Types, HandlerInv, AtWorker, InStatus
<1>4. CountInv'
  BY <1>1, <1>2 DEF Inv, CountInv
<1>5. MonitorInv' /\ ChildInv'
  BY <1>1, WorkersStay
<1> QED BY <1>3, <1>4, <1>5 DEF Inv

\* handle_task_submit_event reads how many tasks were announced ...
LEMMA HandleTaskSubmitInv == ASSUME Inv, HandleTaskSubmit PROVE Inv'
<1>1. /\ UNCHANGED <<slot, ret, queue, notify, controlEfd, sig, w, orphans, marked>>
      /\ pc = "dispatch" /\ "submit" \in batch /\ batch' = batch \ {"submit"}
      /\ left' = submitEfd /\ submitEfd' = 0 /\ pc' = "assign"
  BY DEF HandleTaskSubmit, Handle, stopVars, ghosts
<1>2. Types' /\ HandlerInv'
  BY <1>1 DEF Inv, Types, HandlerInv, AtWorker, InStatus
<1>3. CountInv'
  <2>1. submitEfd > 0 /\ ~(left > 0) /\ left \in Nat
    BY <1>1 DEF Inv, Types, CountInv
  <2>2. queue = submitEfd + left + (IF notify THEN 1 ELSE 0)
    BY DEF Inv, CountInv
  <2>3. queue' = submitEfd' + left' + (IF notify' THEN 1 ELSE 0)
    <3>1. left = 0 /\ submitEfd \in Nat
      BY <2>1 DEF Inv, Types
    <3> QED BY <1>1, <2>2, <3>1
  <2> QED BY <1>1, <2>1, <2>3 DEF CountInv
<1>4. MonitorInv' /\ ChildInv'
  BY <1>1, WorkersStay
<1> QED BY <1>2, <1>3, <1>4 DEF Inv

\* ... and takes them one by one.
LEMMA AssignInv == ASSUME Inv, Assign PROVE Inv'
<1>1. /\ UNCHANGED <<batch, slot, ret, submitEfd, notify, controlEfd, sig, w, orphans, marked>>
      /\ pc = "assign" /\ pc' = (IF left = 1 THEN "dispatch" ELSE pc) /\ left' = left - 1
      /\ queue' = (IF queue > 0 THEN queue - 1 ELSE 0)
  BY DEF Assign, stopVars, ghosts
<1>2. /\ left > 0 /\ left \in Nat /\ submitEfd \in Nat /\ queue \in 0 .. QueueCapacity
      /\ QueueCapacity \in Nat
      /\ queue = submitEfd + left + (IF notify THEN 1 ELSE 0)
  BY <1>1, Sizes DEF Inv, CountInv, Types
<1>3. queue > 0 /\ left' \in Nat
  <2>1. CASE notify
    BY <1>1, <1>2, <2>1
  <2>2. CASE ~notify
    BY <1>1, <1>2, <2>2
  <2> QED BY <2>1, <2>2
<1>4. queue' = queue - 1 /\ queue' \in 0 .. QueueCapacity /\ (pc' = "assign" <=> left' > 0)
  BY <1>1, <1>2, <1>3
<1>5. Types' /\ HandlerInv'
  BY <1>1, <1>3, <1>4 DEF Inv, Types, HandlerInv, AtWorker, InStatus
<1>6. CountInv'
  <2>1. queue' = submitEfd' + left' + (IF notify' THEN 1 ELSE 0)
    BY <1>1, <1>2, <1>4
  <2> QED BY <1>1, <1>4, <2>1 DEF Inv, CountInv
<1>7. MonitorInv' /\ ChildInv'
  BY <1>1, WorkersStay
<1> QED BY <1>5, <1>6, <1>7 DEF Inv

\* The other handlers begin.
LEMMA HandleInv ==
    ASSUME Inv, HandleControl \/ HandleSignal \/ HandleTimer
    PROVE  Inv'
<1>1. /\ UNCHANGED <<ret, left, queue, submitEfd, notify, sig, w, orphans, marked>>
      /\ pc = "dispatch" /\ batch' \subseteq batch
      /\ (controlEfd' = 0 \/ controlEfd' = controlEfd)
      /\ \/ pc' \in {"dispatch", "sigread"} /\ slot' = slot
         \/ pc' = "scan" /\ slot' = 1
  BY DEF HandleControl, HandleSignal, HandleTimer, Handle, taskVars, stopVars, ghosts
<1>2. 1 \in Workers
  BY Sizes
<1>3. Types'
  BY <1>1, <1>2 DEF Inv, Types, AtWorker
<1>4. HandlerInv'
  BY <1>1, <1>2 DEF Inv, HandlerInv, AtWorker, InStatus
<1>5. CountInv'
  BY <1>1, CountStaysElsewhere
<1>6. MonitorInv' /\ ChildInv'
  BY <1>1, WorkersStay
<1> QED BY <1>3, <1>4, <1>5, <1>6 DEF Inv

\* handle_signal_event reads a signal and finds the worker it is of, if that is
\* still the child of its slot.
LEMMA ReadSignalInv == ASSUME Inv, ReadSignal PROVE Inv'
<1>1. /\ UNCHANGED <<batch, left, queue, submitEfd, notify, controlEfd, w, orphans, marked>>
      /\ pc = "sigread"
  BY DEF ReadSignal, taskVars, ghosts
<1>2. PICK s \in sig :
         /\ sig' = sig \ {s}
         /\ IF s[1] # 0 /\ w[s[1]].child # "none" /\ w[s[1]].start = s[2]
            THEN slot' = s[1] /\ pc' = "status" /\ ret' = "sigread"
            ELSE UNCHANGED <<slot, pc, ret>>
  BY DEF ReadSignal
<1>3. \/ slot' \in Workers /\ pc' = "status" /\ ret' = "sigread"
      \/ UNCHANGED <<slot, pc, ret>>
  BY <1>2 DEF Inv, HandlerInv
<1>4. Types'
  BY <1>1, <1>3 DEF Inv, Types, AtWorker
<1>5. HandlerInv'
  BY <1>1, <1>2, <1>3 DEF Inv, HandlerInv, AtWorker, InStatus
<1>6. CountInv'
  BY <1>1, <1>3, CountStaysElsewhere
<1>7. MonitorInv' /\ ChildInv'
  BY <1>1, <1>3, WorkersStay
<1> QED BY <1>4, <1>5, <1>6, <1>7 DEF Inv

\* The scan of the timer's handler.
LEMMA ScanInv == ASSUME Inv, Scan PROVE Inv'
<1>1. /\ UNCHANGED <<batch, left, queue, submitEfd, notify, controlEfd, sig, w, orphans, marked>>
      /\ pc = "scan" /\ slot \in Workers
      /\ \/ pc' = "status" /\ ret' = "scan" /\ slot' = slot
         \/ NextSlot /\ ret' = ret
  BY DEF Scan, taskVars, stopVars, ghosts, Inv, HandlerInv, AtWorker
<1>2. \/ pc' = "status" /\ ret' = "scan" /\ slot' \in Workers
      \/ /\ pc' \in {"scan", "dispatch"} /\ slot' \in Workers \cup {0} /\ ret' = ret
         /\ pc' \in AtWorker => slot' \in Workers
  BY <1>1, NextSlotEffect
<1>3. Types'
  BY <1>1, <1>2 DEF Inv, Types, AtWorker
<1>4. HandlerInv'
  BY <1>1, <1>2 DEF Inv, HandlerInv, AtWorker, InStatus
<1>5. CountInv'
  BY <1>1, <1>2, CountStaysElsewhere
<1>6. MonitorInv' /\ ChildInv'
  BY <1>1, <1>2, WorkersStay
<1> QED BY <1>3, <1>4, <1>5, <1>6 DEF Inv

-----------------------------------------------------------------------------
(* handle_worker_status_event, worker_stop and the restart *)

\* A worker that is not alive is stopped, or started anew right away when its
\* monitor has been faster.
LEMMA StatusCheckInv == ASSUME Inv, StatusCheck PROVE Inv'
<1>0. /\ pc = "status" /\ slot \in Workers /\ w \in [Workers -> WorkerType] /\ slot # 0
      /\ w[slot] \in WorkerType
  BY Sizes DEF StatusCheck, Inv, HandlerInv, Types, AtWorker
<1>1. UNCHANGED <<batch, left, queue, submitEfd, notify, controlEfd, sig, orphans, marked>>
  BY DEF StatusCheck, taskVars, stopVars, ghosts
<1>2. CASE Alive(slot) /\ Return /\ UNCHANGED w
  <2>1. /\ slot' \in Workers \cup {0} /\ pc' \in {"scan", "dispatch", "sigread"}
        /\ pc' \in AtWorker => slot' \in Workers
        /\ ret' = "dispatch"
    BY <1>0, <1>2, ReturnEffect DEF InStatus
  <2>2. Types' /\ HandlerInv'
    BY <1>1, <1>2, <2>1 DEF Inv, Types, HandlerInv, AtWorker, InStatus
  <2>3. CountInv'
    BY <1>0, <1>1, <2>1, CountStaysElsewhere
  <2>4. MonitorInv' /\ ChildInv'
    BY <1>0, <1>1, <1>2, <2>1, WorkersStay
  <2> QED BY <2>2, <2>3, <2>4 DEF Inv
<1>3. CASE /\ w[slot].st = "RUNNING" /\ pc' = "stopping" /\ UNCHANGED <<slot, ret>>
           /\ w' = [w EXCEPT ![slot].st = "STOPPING"]
  <2>1. /\ w' \in [Workers -> WorkerType] /\ w'[slot].st = "STOPPING"
        /\ \A j \in Workers \ {slot} : w'[j] = w[j]
    BY <1>0, <1>3 DEF WorkerType
  <2>2. Types' /\ HandlerInv'
    BY <1>0, <1>1, <1>3, <2>1 DEF Inv, Types, HandlerInv, AtWorker, InStatus
  <2>3. CountInv'
    BY <1>0, <1>1, <1>3, CountStaysElsewhere
  <2>4. MonitorInv'
    BY <1>0, <1>3, <2>1 DEF Inv, MonitorInv
  <2>5. ChildInv'
    BY <1>0, <1>1, <1>3, <2>1 DEF Inv, ChildInv
  <2> QED BY <2>2, <2>3, <2>4, <2>5 DEF Inv
<1>4. CASE w[slot].st # "RUNNING" /\ pc' = "restart" /\ UNCHANGED <<w, slot, ret>>
  <2>1. Types' /\ HandlerInv'
    BY <1>0, <1>1, <1>4 DEF Inv, Types, HandlerInv, AtWorker, InStatus
  <2>2. CountInv'
    BY <1>0, <1>1, <1>4, CountStaysElsewhere
  <2>3. MonitorInv' /\ ChildInv'
    BY <1>0, <1>1, <1>4 DEF Inv, MonitorInv, ChildInv
  <2> QED BY <2>1, <2>2, <2>3 DEF Inv
<1> QED BY <1>2, <1>3, <1>4 DEF StatusCheck

\* worker_stop waits for the child ...
LEMMA WorkerReapInv == ASSUME Inv, WorkerReap PROVE Inv'
<1>0. /\ pc = "stopping" /\ pc' = "join" /\ slot \in Workers /\ w \in [Workers -> WorkerType]
      /\ w[slot].st # "RUNNING"
  BY DEF WorkerReap, Inv, HandlerInv, Types, AtWorker, ChildInv
<1>1. /\ UNCHANGED <<batch, slot, ret, left, queue, submitEfd, notify, controlEfd, orphans, marked>>
      /\ w' = [w EXCEPT ![slot].child = "none", ![slot].monRun = FALSE]
      /\ sig' = sig \/ Raise(slot)
  BY DEF WorkerReap, taskVars, stopVars, ghosts
<1>2. /\ w' \in [Workers -> WorkerType]
      /\ w'[slot].child = "none" /\ w'[slot].st = w[slot].st
      /\ \A j \in Workers \ {slot} : w'[j] = w[j]
  BY <1>0, <1>1 DEF WorkerType
<1>3. Types'
  BY <1>0, <1>1, <1>2 DEF Inv, Types, AtWorker
<1>4. HandlerInv'
  <2>1. \A s \in sig' : s[1] # 0 => s[1] \in Workers
    BY <1>0, <1>1, RaiseEffect DEF Inv, HandlerInv
  <2> QED BY <1>0, <1>1, <2>1 DEF Inv, HandlerInv, AtWorker, InStatus
<1>5. CountInv'
  BY <1>0, <1>1, CountStaysElsewhere
<1>6. MonitorInv'
  BY <1>0, <1>1, <1>2 DEF Inv, MonitorInv
<1>7. ChildInv'
  BY <1>0, <1>1, <1>2 DEF Inv, ChildInv
<1> QED BY <1>3, <1>4, <1>5, <1>6, <1>7 DEF Inv

\* ... and for its monitor.
LEMMA WorkerJoinInv == ASSUME Inv, WorkerJoin PROVE Inv'
<1>0. /\ pc = "join" /\ pc' = "restart" /\ slot \in Workers /\ w \in [Workers -> WorkerType]
      /\ w[slot].mon = "out" /\ w[slot].child = "none"
  BY DEF WorkerJoin, Inv, HandlerInv, Types, AtWorker, ChildInv
<1>1. /\ UNCHANGED <<batch, slot, ret, left, queue, submitEfd, notify, controlEfd, sig, orphans, marked>>
      /\ w' = [w EXCEPT ![slot].st = "STOPPED"]
  BY DEF WorkerJoin, taskVars, stopVars, ghosts
<1>2. /\ w' \in [Workers -> WorkerType] /\ w'[slot].child = "none"
      /\ w'[slot].mon = "out" /\ w'[slot].st = "STOPPED"
      /\ \A j \in Workers \ {slot} : w'[j] = w[j]
  BY <1>0, <1>1 DEF WorkerType
<1>3. Types'
  BY <1>0, <1>1, <1>2 DEF Inv, Types, AtWorker
<1>4. HandlerInv'
  BY <1>0, <1>1 DEF Inv, HandlerInv, AtWorker, InStatus
<1>5. CountInv'
  BY <1>0, <1>1, CountStaysElsewhere
<1>6. MonitorInv'
  BY <1>0, <1>1, <1>2 DEF Inv, MonitorInv
<1>7. ChildInv'
  BY <1>0, <1>1, <1>2 DEF Inv, ChildInv
<1> QED BY <1>3, <1>4, <1>5, <1>6, <1>7 DEF Inv

\* The structure starts anew: what it loses was given up by its monitor, and what
\* it starts with is RUNNING, or has neither child nor monitor.
LEMMA WorkerRestartInv == ASSUME Inv, WorkerRestart PROVE Inv'
<1>0. /\ pc = "restart" /\ slot \in Workers /\ w \in [Workers -> WorkerType] /\ Return
      /\ w[slot] \in WorkerType /\ w[slot].start \in 1 .. MaxStarts /\ MaxStarts \in Nat
      /\ w[slot].st # "RUNNING"
  BY Sizes DEF WorkerRestart, Inv, HandlerInv, Types, AtWorker, ChildInv, WorkerType
<1>1. /\ UNCHANGED <<batch, left, queue, submitEfd, notify, controlEfd, sig, marked>>
      /\ orphans' = IF w[slot].child = "none" THEN orphans
                    ELSE orphans \cup {<<slot, w[slot].start>>}
  BY DEF WorkerRestart, taskVars, stopVars
<1>2. PICK x : /\ w' = [w EXCEPT ![slot] = x]
               /\ x \in {Dead(w[slot].start), [Dead(w[slot].start) EXCEPT !.st = "ERROR"]}
                     \cup (IF w[slot].start < MaxStarts
                           THEN {Started(w[slot].start + 1), Unwatched(w[slot].start + 1)} ELSE {})
  BY DEF WorkerRestart
<1>3. /\ x \in WorkerType
      /\ \/ x.st = "RUNNING"
         \/ x.child = "none" /\ x.mon = "out"
  <2>1. CASE x = Dead(w[slot].start) \/ x = [Dead(w[slot].start) EXCEPT !.st = "ERROR"]
    BY <1>0, <2>1 DEF Dead, Started, WorkerType
  <2>2. CASE /\ w[slot].start < MaxStarts
             /\ x = Started(w[slot].start + 1) \/ x = Unwatched(w[slot].start + 1)
    <3>1. w[slot].start + 1 \in 1 .. MaxStarts
      BY <1>0, <2>2
    <3>2. /\ Started(w[slot].start + 1) \in WorkerType
          /\ Started(w[slot].start + 1).st = "RUNNING"
      BY <3>1 DEF Started, WorkerType
    <3>3. /\ Unwatched(w[slot].start + 1) \in WorkerType
          /\ Unwatched(w[slot].start + 1).st = "RUNNING"
      BY <3>2 DEF Unwatched, WorkerType
    <3> QED BY <2>2, <3>2, <3>3
  <2> QED BY <1>2, <2>1, <2>2
<1>4. /\ slot' \in Workers \cup {0} /\ pc' \in {"scan", "dispatch", "sigread"}
      /\ pc' \in AtWorker => slot' \in Workers
      /\ ret' = "dispatch"
  BY <1>0, ReturnEffect DEF InStatus
<1>5. /\ w' \in [Workers -> WorkerType] /\ w'[slot] = x
      /\ \A j \in Workers \ {slot} : w'[j] = w[j]
  BY <1>0, <1>2, <1>3
<1>6. Types'
  BY <1>1, <1>4, <1>5 DEF Inv, Types, AtWorker
<1>7. HandlerInv'
  BY <1>1, <1>4 DEF Inv, HandlerInv, InStatus
<1>8. CountInv'
  BY <1>0, <1>1, <1>4, CountStaysElsewhere
<1>9. MonitorInv'
  BY <1>0, <1>3, <1>5 DEF Inv, MonitorInv
<1>10. ChildInv'
  <2>1. \A j \in Workers : w'[j].child # "none" /\ w'[j].st # "RUNNING" =>
           <<j, w'[j].start>> \in marked
    BY <1>0, <1>3, <1>5 DEF Inv, ChildInv
  <2>2. orphans' \subseteq marked
    BY <1>0, <1>1 DEF Inv, ChildInv
  <2> QED BY <1>1, <1>4, <2>1, <2>2 DEF ChildInv
<1> QED BY <1>6, <1>7, <1>8, <1>9, <1>10 DEF Inv

-----------------------------------------------------------------------------
(* The theorems *)

LEMMA InitInv == Init => Inv
<1> SUFFICES ASSUME Init PROVE Inv
  OBVIOUS
<1>1. \A i \in Workers : w[i] = Started(1)
  BY DEF Init
<1>2. Started(1) \in WorkerType
  BY Sizes DEF Started, WorkerType
<1>3. Types
  <2>1. /\ pc = "dispatch" /\ batch = {} /\ ret = "dispatch" /\ slot = 0 /\ left = 0
        /\ queue = 0 /\ submitEfd = 0 /\ controlEfd = 0 /\ notify = FALSE
    BY DEF Init
  <2>2. w \in [Workers -> WorkerType]
    BY <1>2 DEF Init
  <2>3. queue \in 0 .. QueueCapacity
    BY <2>1, Sizes
  <2> QED BY <2>1, <2>2, <2>3 DEF Types
<1>4. HandlerInv
  BY DEF Init, HandlerInv, AtWorker, InStatus
<1>5. CountInv
  BY DEF Init, CountInv
<1>6. MonitorInv /\ ChildInv
  BY <1>1 DEF Init, MonitorInv, ChildInv, Started
<1> QED BY <1>3, <1>4, <1>5, <1>6 DEF Inv

LEMMA NextInv == Inv /\ [Next]_vars => Inv'
<1> SUFFICES ASSUME Inv, [Next]_vars PROVE Inv'
  OBVIOUS
<1>1. CASE UNCHANGED vars
  BY <1>1 DEF vars, Inv, Types, HandlerInv, CountInv, MonitorInv, ChildInv
<1>2. CASE LoopStep
  BY <1>2, EpollWaitInv, HandleTaskSubmitInv, AssignInv, HandleInv, ReadSignalInv, ScanInv,
     StatusCheckInv, WorkerReapInv, WorkerJoinInv, WorkerRestartInv DEF LoopStep
<1>3. CASE Submit \/ TimerFires \/ Terminate \/ \E s \in Stoppers : Stop(s)
  BY <1>3, OutsideInv
<1>4. ASSUME NEW i \in Workers, ChildExit(i) \/ HeartbeatOld(i) \/ Monitor(i) PROVE Inv'
  BY <1>4, ChildStepInv, MonitorStepInv
<1> QED BY <1>1, <1>2, <1>3, <1>4 DEF Next

\* The loop, the monitors and the submitter keep the invariant.
THEOREM Invariance == Spec => []Inv
<1>1. Init => Inv
  BY InitInv
<1>2. Inv /\ [Next]_vars => Inv'
  BY NextInv
<1> QED BY <1>1, <1>2, PTL DEF Spec

\* Every task in the queue is announced exactly once, counted by the eventfd, by
\* handle_task_submit_event or by the submitter who has not written yet: no task is
\* left for the next submission and no notification finds the queue empty.
THEOREM EveryTaskAnnounced == Spec => []TasksCounted
<1>1. Inv => TasksCounted
  <2> SUFFICES ASSUME Inv PROVE TasksCounted
    OBVIOUS
  <2>1. slot \in 0 .. Cardinality(Workers) + 1
    BY Sizes DEF Inv, Types
  <2>2. \A i \in Workers : w[i].start \in 1 .. MaxStarts
    BY DEF Inv, Types, WorkerType
  <2>3. TypeOK
    BY <2>1, <2>2 DEF Inv, Types, TypeOK
  <2> QED BY <2>3 DEF Inv, CountInv, TasksCounted
<1> QED BY <1>1, Invariance, PTL

\* worker_restart never drops a child that neither worker_stop has waited for nor the
\* worker's monitor has given up, and the structure it starts anew has no monitor of
\* the old child in it.
THEOREM RestartsInOrder == Spec => []RestartOrderly
<1>1. Inv => RestartOrderly
  <2> SUFFICES ASSUME Inv PROVE RestartOrderly
    OBVIOUS
  <2>1. pc = "restart" => w[slot].mon = "out"
    BY DEF Inv, HandlerInv, AtWorker, MonitorInv, ChildInv
  <2> QED BY <2>1 DEF Inv, ChildInv, RestartOrderly
<1> QED BY <1>1, Invariance, PTL

-----------------------------------------------------------------------------
(* Metrics.  Places of a recording: past the addition to the count, past    *)
(* the one to the total, past the loop for the minimum.                     *)
COUNTED == RECORDING \ {"count"}
TOTALLED == COUNTED \ {"total"}
MINNED == {"loadmax", "casmax"}
MPlaces == {"idle", "timer"} \cup RECORDING \cup RESETTING \cup OBSERVING \cup HRESETTING

TrackerRecord == [count : Nat, total : Nat, min : Nat, max : Nat]
MetricsTypes ==
    /\ names \in Seq(Names \cup {"cut"}) /\ Len(names) <= MaxLatencies
    /\ trk \in [Trackers -> TrackerRecord] /\ ref \in [Trackers -> TrackerRecord]
    /\ mpc \in [Recorders -> MPlaces] /\ id \in [Recorders -> 0..MaxLatencies]
    /\ value \in [Recorders -> Nat] /\ cur \in [Recorders -> Nat]
    /\ all \in [Recorders -> BOOLEAN]
    /\ buckets \in [DOMAIN Boundaries -> Nat] /\ hcount \in Nat /\ beyond \in Nat
    /\ \A t \in Recorders : mpc[t] \in {"timer"} \cup RECORDING \cup RESETTING => id[t] \in DOMAIN names
NamesApart == \A i, j \in DOMAIN names : names[i] = names[j] => i = j \/ names[i] = "cut"

(* What the recordings under way have added to tracker i already.           *)
In(i, L, t) == mpc[t] \in L /\ id[t] = i
CountsOf(i) == [t \in Recorders |-> IF In(i, COUNTED, t) THEN 1 ELSE 0]
TotalsOf(i) == [t \in Recorders |-> IF In(i, TOTALLED, t) THEN value[t] ELSE 0]

(* A tracker that no reset is inside of: it holds what ref holds and what   *)
(* the recordings under way added; its minimum is the least of the          *)
(* finished recordings and of those past their loop, and what a recording   *)
(* loaded has not become better since.                                      *)
Recording(i) ==
    /\ trk[i].count = ref[i].count + Sum(CountsOf(i))
    /\ trk[i].total = ref[i].total + Sum(TotalsOf(i))
    /\ trk[i].min <= ref[i].min /\ trk[i].max = ref[i].max
    /\ \A t \in Recorders : In(i, MINNED, t) => trk[i].min <= value[t]
    /\ trk[i].min = ref[i].min \/ \E t \in Recorders : In(i, MINNED, t) /\ trk[i].min = value[t]
    /\ \A t \in Recorders : In(i, {"casmin"}, t) => trk[i].min <= cur[t]
    /\ \A t \in Recorders : In(i, {"casmax"}, t) => cur[t] <= trk[i].max

(* A tracker that is reset by t alone, as far as t has come. *)
Resetting(i, t) ==
    /\ In(i, RESETTING, t)
    /\ \A u \in Recorders : In(i, RECORDING \cup RESETTING, u) => u = t
    /\ mpc[t] # "rcount" => trk[i].count = 0
    /\ mpc[t] \in {"rmin", "rmax"} => trk[i].total = 0
    /\ mpc[t] = "rmax" => trk[i].min = UINT64_MAX

TrackerInv(i) ==
    \/ (\A t \in Recorders : ~In(i, RESETTING, t)) /\ Recording(i)
    \/ \E t \in Recorders : Resetting(i, t)

(* The same for the histogram. *)
Observers == [t \in Recorders |-> IF mpc[t] = "htotal" THEN 1 ELSE 0]
HistInv ==
    \/ /\ \A t \in Recorders : mpc[t] \notin HRESETTING
       /\ hcount + Sum(Observers) = Sum(buckets) + beyond
    \/ \E t \in Recorders :
          /\ mpc[t] \in HRESETTING
          /\ \A u \in Recorders : mpc[u] \in OBSERVING \cup HRESETTING => u = t
          /\ mpc[t] = "hrtotal" => Sum(buckets) + beyond = 0

MetricsInv ==
    /\ MetricsTypes /\ NamesApart
    /\ \A i \in Trackers : i \notin mixed => TrackerInv(i)
    /\ 0 \notin mixed => HistInv

LEMMA MetricsInvInit == MetricsInit => MetricsInv
<1> SUFFICES ASSUME MetricsInit PROVE MetricsInv
  OBVIOUS
<1> USE MetricsAssumption DEF MetricsInit
<1>1. MetricsTypes /\ NamesApart
  <2>1. Fresh \in TrackerRecord
    BY DEF Fresh, TrackerRecord
  <2>2. /\ names \in Seq(Names \cup {"cut"}) /\ Len(names) <= MaxLatencies /\ DOMAIN names = {}
        /\ trk \in [Trackers -> TrackerRecord] /\ ref \in [Trackers -> TrackerRecord]
    BY <2>1
  <2>3. /\ mpc \in [Recorders -> MPlaces] /\ all \in [Recorders -> BOOLEAN]
        /\ value \in [Recorders -> Nat] /\ cur \in [Recorders -> Nat]
        /\ id \in [Recorders -> 0..MaxLatencies]
    BY DEF MPlaces
  <2>4. /\ buckets \in [DOMAIN Boundaries -> Nat] /\ hcount \in Nat /\ beyond \in Nat
    OBVIOUS
  <2>5. \A t \in Recorders : mpc[t] \notin {"timer"} \cup RECORDING \cup RESETTING
    BY DEF RECORDING, RESETTING
  <2> QED
    BY <2>2, <2>3, <2>4, <2>5 DEF MetricsTypes, NamesApart
<1>2. \A t \in Recorders : mpc[t] = "idle" /\ value[t] = 0
  OBVIOUS
<1>3. ASSUME NEW i \in Trackers PROVE TrackerInv(i)
  <2>1. \A t \in Recorders : \A L : "idle" \notin L => ~In(i, L, t)
    BY <1>2 DEF In
  <2>2. Sum(CountsOf(i)) = 0 /\ Sum(TotalsOf(i)) = 0
    <3>1. /\ DOMAIN CountsOf(i) = Recorders /\ \A t \in Recorders : CountsOf(i)[t] = 0
          /\ DOMAIN TotalsOf(i) = Recorders /\ \A t \in Recorders : TotalsOf(i)[t] = 0
      BY <1>2, <2>1 DEF CountsOf, TotalsOf, TOTALLED, COUNTED, RECORDING
    <3> QED
      BY <3>1, SumOfZeros
  <2>3. /\ trk[i] = ref[i] /\ trk[i].count = 0 /\ trk[i].total = 0
        /\ trk[i].min \in Int /\ trk[i].max \in Int
    BY DEF Fresh
  <2>4. \A t \in Recorders : ~In(i, RESETTING, t) /\ ~In(i, MINNED, t)
                            /\ ~In(i, {"casmin"}, t) /\ ~In(i, {"casmax"}, t)
    BY <2>1 DEF RESETTING, MINNED
  <2> QED
    BY <2>2, <2>3, <2>4 DEF TrackerInv, Recording
<1>4. HistInv
  <2>1. Sum(Observers) = 0
    BY <1>2, SumOfZeros DEF Observers
  <2>2. Sum(buckets) = 0
    <3>1. IsFiniteSet(DOMAIN Boundaries)
      BY FS_Interval
    <3> QED
      BY <3>1, SumOfZeros
  <2>3. hcount = 0 /\ beyond = 0
    OBVIOUS
  <2> QED
    BY <1>2, <2>1, <2>2, <2>3 DEF HistInv, HRESETTING
<1> QED
  BY <1>1, <1>3, <1>4 DEF MetricsInv

-----------------------------------------------------------------------------
(* A step of t leaves the others where they are. *)
Others(t) == \A u \in Recorders \ {t} : /\ mpc'[u] = mpc[u] /\ id'[u] = id[u]
                                        /\ value'[u] = value[u] /\ cur'[u] = cur[u]

LEMMA SharesChange ==
    ASSUME MetricsTypes, MetricsTypes', NEW t \in Recorders, Others(t), NEW i
    PROVE  /\ Sum(CountsOf(i)) \in Int /\ Sum(TotalsOf(i)) \in Int
           /\ Sum(CountsOf(i))' = Sum(CountsOf(i)) - CountsOf(i)[t] + CountsOf(i)'[t]
           /\ Sum(TotalsOf(i))' = Sum(TotalsOf(i)) - TotalsOf(i)[t] + TotalsOf(i)'[t]
<1> USE DEF In
<1>1. /\ CountsOf(i) \in [Recorders -> Int] /\ CountsOf(i)' \in [Recorders -> Int]
      /\ \A u \in Recorders \ {t} : CountsOf(i)'[u] = CountsOf(i)[u]
  BY DEF CountsOf, Others
<1>2. /\ TotalsOf(i) \in [Recorders -> Int] /\ TotalsOf(i)' \in [Recorders -> Int]
      /\ \A u \in Recorders \ {t} : TotalsOf(i)'[u] = TotalsOf(i)[u]
  BY DEF TotalsOf, Others, MetricsTypes
<1>3. \A f, g \in [Recorders -> Int] :
         (\A u \in Recorders \ {t} : g[u] = f[u])
            => Sum(f) \in Int /\ Sum(g) = Sum(f) - f[t] + g[t]
  BY SumChanged, MetricsAssumption
<1>4. Sum(CountsOf(i))' = Sum(CountsOf(i)') /\ Sum(TotalsOf(i))' = Sum(TotalsOf(i)')
  OBVIOUS
<1> HIDE DEF In
<1> QED
  BY <1>1, <1>2, <1>3, <1>4

(* A tracker that t is not inside of, before or after. *)
LEMMA TrackerFrame ==
    ASSUME MetricsTypes, MetricsTypes', NEW t \in Recorders, Others(t), NEW i,
           trk'[i] = trk[i], ref'[i] = ref[i],
           ~In(i, RECORDING \cup RESETTING, t), ~In(i, RECORDING \cup RESETTING, t)',
           TrackerInv(i)
    PROVE  TrackerInv(i)'
<1>1. \A u \in Recorders, L \in SUBSET (RECORDING \cup RESETTING) :
         /\ In(i, L, u)' <=> In(i, L, u)
         /\ In(i, L, u) => mpc'[u] = mpc[u] /\ value'[u] = value[u] /\ cur'[u] = cur[u]
  BY DEF In, Others
<1>2. CountsOf(i)' = CountsOf(i) /\ TotalsOf(i)' = TotalsOf(i)
  BY <1>1 DEF CountsOf, TotalsOf, TOTALLED, COUNTED
<1>3. Sum(CountsOf(i))' = Sum(CountsOf(i)) /\ Sum(TotalsOf(i))' = Sum(TotalsOf(i))
  BY <1>2
<1>4. \A L \in {RECORDING \cup RESETTING, RESETTING, MINNED, {"casmin"}, {"casmax"}} :
         L \in SUBSET (RECORDING \cup RESETTING)
  BY DEF RECORDING, MINNED
<1>5. CASE (\A u \in Recorders : ~In(i, RESETTING, u)) /\ Recording(i)
  <2>1. Recording(i)'
    BY <1>1, <1>3, <1>4, <1>5 DEF Recording
  <2>2. \A u \in Recorders : ~In(i, RESETTING, u)'
    BY <1>1, <1>4, <1>5
  <2> QED
    BY <2>1, <2>2 DEF TrackerInv
<1>6. ASSUME NEW u \in Recorders, Resetting(i, u) PROVE TrackerInv(i)'
  <2>1. Resetting(i, u)'
    BY <1>1, <1>4, <1>6 DEF Resetting
  <2> QED
    BY <2>1 DEF TrackerInv
<1> QED
  BY <1>5, <1>6 DEF TrackerInv

-----------------------------------------------------------------------------
(* Types and names. *)

Next1(t) == \/ PerfTimerStart(t) \/ PerfTimerEnd(t) \/ Record(t)
            \/ LatencyReset(t) \/ ResetAll(t) \/ ResetStep(t)
            \/ Observe(t) \/ ObserveTotal(t) \/ HistogramReset(t) \/ HistogramResetStep(t)

(* The last part of the types: where a tracker is worked on it is one.      *)
AtTracker == {"timer"} \cup RECORDING \cup RESETTING
Located == \A t \in Recorders : mpc[t] \in AtTracker => id[t] \in DOMAIN names

LEMMA Bucket == \A x : BucketOf(x) \in DOMAIN Boundaries \cup {0}
<1> SUFFICES ASSUME NEW x PROVE BucketOf(x) \in DOMAIN Boundaries \cup {0}
  OBVIOUS
<1> DEFINE B == {b \in DOMAIN Boundaries : x <= Boundaries[b]}
<1>1. CASE B = {}
  BY <1>1 DEF BucketOf
<1>2. CASE B # {}
  <2>1. B \in SUBSET Nat
    BY MetricsAssumption
  <2>2. \E b \in B : \A c \in B : b <= c
    BY <1>2, <2>1, LeastOf
  <2>3. Min(B) \in B
    BY <2>2 DEF Min
  <2> QED
    BY <1>2, <2>3 DEF BucketOf
<1> QED
  BY <1>1, <1>2

LEMMA LeastOfTwo ==
    ASSUME NEW a \in Nat, NEW b \in Nat
    PROVE  /\ Min({a, b}) = (IF a <= b THEN a ELSE b) /\ Max({a, b}) = (IF a <= b THEN b ELSE a)
<1>1. \A y \in {a, b} : (IF a <= b THEN a ELSE b) <= y
  OBVIOUS
<1>2. \A y \in {a, b} : (IF a <= b THEN b ELSE a) >= y
  OBVIOUS
<1>3. Min({a, b}) \in {a, b} /\ \A y \in {a, b} : Min({a, b}) <= y
  <2>1. \E z \in {a, b} : \A y \in {a, b} : z <= y
    BY <1>1
  <2> QED
    BY <2>1 DEF Min
<1>4. Max({a, b}) \in {a, b} /\ \A y \in {a, b} : Max({a, b}) >= y
  <2>1. \E z \in {a, b} : \A y \in {a, b} : z >= y
    BY <1>2
  <2> QED
    BY <2>1 DEF Max
<1> QED
  BY <1>1, <1>2, <1>3, <1>4

(* metrics_latency_register leaves what was there, and adds a name that was *)
(* not, unless it is cut.                                                   *)
LEMMA Registered ==
    ASSUME MetricsTypes, NamesApart, NEW n \in Names, NEW i \in 0..MaxLatencies, Register(n, i)
    PROVE  /\ names' \in Seq(Names \cup {"cut"}) /\ Len(names') <= MaxLatencies
           /\ DOMAIN names \subseteq DOMAIN names' /\ (i # 0 => i \in DOMAIN names')
           /\ NamesApart'
<1>1. /\ names \in Seq(Names \cup {"cut"}) /\ Len(names) \in Nat /\ DOMAIN names = 1..Len(names)
      /\ Len(names) <= MaxLatencies /\ MaxLatencies \in Nat
  BY MetricsAssumption DEF MetricsTypes
<1>2. CASE UNCHANGED names /\ (i = 0 \/ i \in DOMAIN names)
  <2>1. NamesApart'
    BY <1>2 DEF NamesApart
  <2> QED
    BY <1>1, <1>2, <2>1
<1>3. CASE /\ Len(names) < MaxLatencies /\ \A j \in DOMAIN names : names[j] # n
           /\ names' = Append(names, Stored(n)) /\ i = Len(names')
  <2>1. /\ names' \in Seq(Names \cup {"cut"}) /\ Len(names') = Len(names) + 1
        /\ DOMAIN names' = 1..Len(names) + 1
        /\ \A j \in DOMAIN names : names'[j] = names[j]
        /\ names'[Len(names) + 1] = Stored(n)
    BY <1>1, <1>3 DEF Stored
  <2>2. \A j \in DOMAIN names : names[j] = Stored(n) => Stored(n) = "cut"
    BY <1>3 DEF Stored
  <2>3. NamesApart'
    BY <1>1, <2>1, <2>2 DEF NamesApart
  <2> QED
    BY <1>1, <1>3, <2>1, <2>3
<1> QED
  BY <1>2, <1>3 DEF Register

(* A store to one field of a tracker. *)
LEMMA FieldStored ==
    ASSUME NEW T \in [Trackers -> TrackerRecord], NEW i \in Trackers, NEW n \in Nat
    PROVE  /\ [T EXCEPT ![i].count = n] \in [Trackers -> TrackerRecord]
           /\ [T EXCEPT ![i].total = n] \in [Trackers -> TrackerRecord]
           /\ [T EXCEPT ![i].min = n] \in [Trackers -> TrackerRecord]
           /\ [T EXCEPT ![i].max = n] \in [Trackers -> TrackerRecord]
<1>1. T[i] \in TrackerRecord
  OBVIOUS
<1>2. /\ [T[i] EXCEPT !.count = n] \in TrackerRecord
      /\ [T[i] EXCEPT !.total = n] \in TrackerRecord
      /\ [T[i] EXCEPT !.min = n] \in TrackerRecord
      /\ [T[i] EXCEPT !.max = n] \in TrackerRecord
  BY <1>1 DEF TrackerRecord
<1> QED
  BY <1>2

LEMMA MetricsTypesStep ==
    ASSUME MetricsTypes, NamesApart, NEW t \in Recorders, Next1(t)
    PROVE  MetricsTypes' /\ NamesApart'
<1> USE MetricsAssumption
<1>a. /\ names \in Seq(Names \cup {"cut"}) /\ Len(names) \in Nat /\ DOMAIN names = 1..Len(names)
      /\ Len(names) <= MaxLatencies /\ DOMAIN names \subseteq Trackers
      /\ trk \in [Trackers -> TrackerRecord] /\ ref \in [Trackers -> TrackerRecord]
      /\ mpc \in [Recorders -> MPlaces] /\ id \in [Recorders -> 0..MaxLatencies]
      /\ value \in [Recorders -> Nat] /\ cur \in [Recorders -> Nat]
      /\ all \in [Recorders -> BOOLEAN]
      /\ buckets \in [DOMAIN Boundaries -> Nat] /\ hcount \in Nat /\ beyond \in Nat
      /\ Located
  BY DEF MetricsTypes, Trackers, Located, AtTracker
<1>b. Values \subseteq Nat /\ UINT64_MAX \in Nat
  OBVIOUS
<1>c. ASSUME UNCHANGED <<trk, ref, names, all, cur>>,
             mpc' \in [Recorders -> MPlaces], id' \in [Recorders -> 0..MaxLatencies],
             value' \in [Recorders -> Nat], Located',
             buckets' \in [DOMAIN Boundaries -> Nat], hcount' \in Nat, beyond' \in Nat
      PROVE  MetricsTypes' /\ NamesApart'
  BY <1>a, <1>c DEF MetricsTypes, NamesApart, Located, AtTracker
<1>1. CASE PerfTimerStart(t)
  <2>1. PICK n \in Names, i \in 0 .. MaxLatencies :
           /\ Register(n, i) /\ id' = [id EXCEPT ![t] = i]
           /\ mpc' = [mpc EXCEPT ![t] = IF i = 0 THEN "idle" ELSE "timer"]
    BY <1>1 DEF PerfTimerStart, StepTo
  <2>2. /\ names' \in Seq(Names \cup {"cut"}) /\ Len(names') <= MaxLatencies
        /\ DOMAIN names \subseteq DOMAIN names' /\ (i # 0 => i \in DOMAIN names')
        /\ NamesApart'
    BY <2>1, Registered
  <2>3. UNCHANGED <<trk, buckets, hcount, value, cur, all, ref, beyond>>
    BY <1>1 DEF PerfTimerStart, hist, ghost
  <2>4. mpc' \in [Recorders -> MPlaces] /\ id' \in [Recorders -> 0..MaxLatencies]
    BY <1>a, <2>1 DEF MPlaces
  <2>5. Located'
    BY <1>a, <2>1, <2>2 DEF Located, AtTracker, RECORDING, RESETTING
  <2> QED
    BY <1>a, <2>2, <2>3, <2>4, <2>5 DEF MetricsTypes, Located, AtTracker
<1>2. CASE PerfTimerEnd(t)
  <2>1. PICK x \in Values : value' = [value EXCEPT ![t] = x]
    BY <1>2 DEF PerfTimerEnd
  <2>2. mpc[t] = "timer" /\ mpc' = [mpc EXCEPT ![t] = "count"]
    BY <1>2 DEF PerfTimerEnd, StepTo
  <2>3. UNCHANGED <<names, trk, buckets, hcount, id, cur, all, ref, beyond>>
    BY <1>2 DEF PerfTimerEnd, hist
  <2>4. mpc' \in [Recorders -> MPlaces] /\ value' \in [Recorders -> Nat]
    BY <1>a, <1>b, <2>1, <2>2 DEF MPlaces, RECORDING
  <2>5. Located'
    BY <1>a, <2>2, <2>3 DEF Located, AtTracker
  <2> QED
    BY <1>a, <1>c, <2>3, <2>4, <2>5
<1>3. CASE Record(t)
  <2>1. mpc[t] \in RECORDING /\ id[t] \in Trackers /\ id[t] \in DOMAIN names
    <3>1. mpc[t] \in RECORDING
      BY <1>3 DEF Record, RecordAdd, RecordLoad, RecordMin, RecordMax, RECORDING
    <3> QED
      BY <1>a, <3>1 DEF Located, AtTracker
  <2>2. PICK l \in {"idle"} \cup RECORDING : mpc' = [mpc EXCEPT ![t] = l]
    <3>1. UNCHANGED mpc => mpc' = [mpc EXCEPT ![t] = mpc[t]]
      BY <1>a
    <3> QED
      BY <1>3, <2>1, <3>1 DEF Record, RecordAdd, RecordLoad, RecordMin, RecordMax, RECORDING, StepTo
  <2>3. trk' \in [Trackers -> TrackerRecord] /\ cur' \in [Recorders -> Nat]
    <3>1. /\ trk[id[t]] \in TrackerRecord /\ value[t] \in Nat
          /\ trk[id[t]].count + 1 \in Nat /\ trk[id[t]].total + value[t] \in Nat
          /\ trk[id[t]].min \in Nat /\ trk[id[t]].max \in Nat
      <4>1. trk[id[t]] \in TrackerRecord /\ value[t] \in Nat
        BY <1>a, <2>1
      <4>2. /\ trk[id[t]].count \in Nat /\ trk[id[t]].total \in Nat
            /\ trk[id[t]].min \in Nat /\ trk[id[t]].max \in Nat
        BY <4>1 DEF TrackerRecord
      <4>3. \A a, b \in Nat : a + 1 \in Nat /\ a + b \in Nat
        OBVIOUS
      <4> QED
        BY <4>1, <4>2, <4>3, Zenon
    <3>2. CASE RecordAdd(t) /\ UNCHANGED cur
      <4>1. CASE mpc[t] = "count"
        <5>1. PICK n \in Nat : trk' = [trk EXCEPT ![id[t]].count = n]
          BY <3>1, <3>2, <4>1 DEF RecordAdd
        <5> QED
          BY <1>a, <2>1, <3>2, <5>1, FieldStored
      <4>2. CASE mpc[t] = "total"
        <5>1. PICK n \in Nat : trk' = [trk EXCEPT ![id[t]].total = n]
          BY <3>1, <3>2, <4>2 DEF RecordAdd
        <5> QED
          BY <1>a, <2>1, <3>2, <5>1, FieldStored
      <4> QED
        BY <3>2, <4>1, <4>2 DEF RecordAdd
    <3>3. CASE RecordLoad(t) /\ UNCHANGED trk
      BY <1>a, <2>1, <3>1, <3>3 DEF RecordLoad
    <3>4. CASE RecordMin(t)
      <4>1. \/ UNCHANGED trk
            \/ trk' = [trk EXCEPT ![id[t]].min = value[t]]
        BY <3>4 DEF RecordMin
      <4>2. UNCHANGED cur \/ cur' = [cur EXCEPT ![t] = trk[id[t]].min]
        BY <3>4 DEF RecordMin
      <4>3. trk' \in [Trackers -> TrackerRecord]
        <5>1. CASE trk' = [trk EXCEPT ![id[t]].min = value[t]]
          BY <1>a, <2>1, <3>1, <5>1, FieldStored
        <5> QED
          BY <1>a, <4>1, <5>1
      <4> QED
        BY <1>a, <3>1, <4>2, <4>3
    <3>5. CASE RecordMax(t)
      <4>1. \/ UNCHANGED trk
            \/ trk' = [trk EXCEPT ![id[t]].max = value[t]]
        BY <3>5 DEF RecordMax
      <4>2. cur' = [cur EXCEPT ![t] = 0] \/ cur' = [cur EXCEPT ![t] = trk[id[t]].max]
        BY <3>5 DEF RecordMax
      <4>3. trk' \in [Trackers -> TrackerRecord]
        <5>1. CASE trk' = [trk EXCEPT ![id[t]].max = value[t]]
          BY <1>a, <2>1, <3>1, <5>1, FieldStored
        <5> QED
          BY <1>a, <4>1, <5>1
      <4>4. cur' \in [Recorders -> Nat]
        <5>1. CASE cur' = [cur EXCEPT ![t] = 0]
          BY <1>a, <5>1
        <5>2. CASE cur' = [cur EXCEPT ![t] = trk[id[t]].max]
          BY <1>a, <3>1, <5>2
        <5> QED
          BY <4>2, <5>1, <5>2
      <4> QED
        BY <4>3, <4>4
    <3> QED
      BY <1>3, <3>2, <3>3, <3>4, <3>5 DEF Record
  <2>4. ref' \in [Trackers -> TrackerRecord]
    <3>1. ref[id[t]] \in TrackerRecord /\ value[t] \in Nat
      BY <1>a, <2>1
    <3>2. [count |-> ref[id[t]].count + 1, total |-> ref[id[t]].total + value[t],
           min |-> Min({ref[id[t]].min, value[t]}),
           max |-> Max({ref[id[t]].max, value[t]})] \in TrackerRecord
      <4>1. /\ Min({ref[id[t]].min, value[t]}) \in Nat
            /\ Max({ref[id[t]].max, value[t]}) \in Nat
        BY <3>1, LeastOfTwo DEF TrackerRecord
      <4>2. ref[id[t]].count + 1 \in Nat /\ ref[id[t]].total + value[t] \in Nat
        <5>1. ref[id[t]].count \in Nat /\ ref[id[t]].total \in Nat
          BY <3>1 DEF TrackerRecord
        <5> QED
          BY <3>1, <5>1
      <4> QED
        BY <4>1, <4>2 DEF TrackerRecord
    <3> QED
      BY <1>3, <1>a, <2>1, <3>2 DEF Record
  <2>5. /\ id' \in [Recorders -> 0..MaxLatencies] /\ value' \in [Recorders -> Nat]
        /\ \A u \in Recorders : mpc'[u] # "idle" => id'[u] = id[u]
    BY <1>3, <1>a, <2>2 DEF Record, Local
  <2>6. UNCHANGED <<names, buckets, hcount, all, beyond>>
    BY <1>3 DEF Record, hist
  <2>7. mpc' \in [Recorders -> MPlaces]
    BY <1>a, <2>2 DEF MPlaces
  <2>8. Located'
    BY <1>a, <2>1, <2>2, <2>5, <2>6 DEF Located, AtTracker, RESETTING, RECORDING
  <2> QED
    BY <1>a, <2>3, <2>4, <2>5, <2>6, <2>7, <2>8 DEF MetricsTypes, NamesApart, Located, AtTracker
<1>d. ASSUME NEW i \in DOMAIN names, UNCHANGED names,
             id' = [id EXCEPT ![t] = i], mpc' = [mpc EXCEPT ![t] = "rcount"]
      PROVE  /\ mpc' \in [Recorders -> MPlaces] /\ id' \in [Recorders -> 0..MaxLatencies]
             /\ Located'
  BY <1>a, <1>d DEF MPlaces, RESETTING, Located, AtTracker, Trackers
<1>e. ASSUME UNCHANGED names, mpc' = [mpc EXCEPT ![t] = "hrbuckets"], id' = [id EXCEPT ![t] = 0]
      PROVE  /\ mpc' \in [Recorders -> MPlaces] /\ id' \in [Recorders -> 0..MaxLatencies]
             /\ Located'
  BY <1>a, <1>e DEF MPlaces, HRESETTING, Located, AtTracker, RECORDING, RESETTING
<1>4. CASE LatencyReset(t)
  <2>1. PICK i \in DOMAIN names : id' = [id EXCEPT ![t] = i] /\ mpc' = [mpc EXCEPT ![t] = "rcount"]
    BY <1>4 DEF LatencyReset, BeginReset, StepTo
  <2>2. UNCHANGED <<names, trk, buckets, hcount, value, cur, all, ref, beyond>>
    BY <1>4 DEF LatencyReset, hist
  <2> QED
    BY <1>a, <1>c, <1>d, <2>1, <2>2
<1>5. CASE ResetAll(t)
  <2>1. /\ UNCHANGED <<names, trk, buckets, hcount, value, cur, ref, beyond>>
        /\ all' \in [Recorders -> BOOLEAN]
    BY <1>a, <1>5 DEF ResetAll, hist
  <2>2. /\ mpc' \in [Recorders -> MPlaces] /\ id' \in [Recorders -> 0..MaxLatencies]
        /\ Located'
    <3>1. CASE names = << >>
      BY <1>5, <1>e, <2>1, <3>1 DEF ResetAll, BeginHistReset, StepTo
    <3>2. CASE names # << >>
      <4>1. 1 \in DOMAIN names
        BY <1>a, <3>2
      <4> QED
        BY <1>5, <1>d, <2>1, <3>2, <4>1 DEF ResetAll, BeginReset, StepTo
    <3> QED
      BY <3>1, <3>2
  <2> QED
    BY <1>a, <2>1, <2>2 DEF MetricsTypes, NamesApart, Located, AtTracker
<1>6. CASE ResetStep(t)
  <2>1. mpc[t] \in RESETTING /\ id[t] \in Trackers /\ id[t] \in DOMAIN names
    <3>1. mpc[t] \in RESETTING
      BY <1>6 DEF ResetStep, RESETTING
    <3> QED
      BY <1>a, <3>1 DEF Located, AtTracker
  <2>2. UNCHANGED <<names, buckets, hcount, value, cur, all, beyond>>
    BY <1>6 DEF ResetStep, hist
  <2>3. ref' \in [Trackers -> TrackerRecord]
    BY <1>6, <1>a, <1>b, <2>1 DEF ResetStep, Fresh, TrackerRecord
  <2>4. trk' \in [Trackers -> TrackerRecord]
    <3>1. trk[id[t]] \in TrackerRecord
      BY <1>a, <2>1
    <3>2. \A f \in {"count", "total", "min", "max"} :
            [trk EXCEPT ![id[t]][f] = Fresh[f]] \in [Trackers -> TrackerRecord]
      <4>1. \A f \in {"count", "total", "min", "max"} : Fresh[f] \in Nat
        BY <1>b DEF Fresh
      <4> QED
        BY <1>a, <2>1, <3>1, <4>1, FieldStored
    <3>3. [trk EXCEPT ![id[t]].max = 0] \in [Trackers -> TrackerRecord]
      BY <1>a, <2>1, <3>1 DEF TrackerRecord
    <3> QED
      BY <1>6, <3>2, <3>3 DEF ResetStep, ResetStore
  <2>5. /\ mpc' \in [Recorders -> MPlaces] /\ id' \in [Recorders -> 0..MaxLatencies]
        /\ Located'
    <3>1. CASE \E l \in RESETTING \cup {"idle"}, f \in {"count", "total", "min", "max"} :
                 ResetStore(t, f, l)
      <4>1. PICK l \in RESETTING \cup {"idle"} :
               mpc' = [mpc EXCEPT ![t] = l] /\ id' = Local(id, t)
        BY <3>1 DEF ResetStore, StepTo
      <4>2. /\ id' \in [Recorders -> 0..MaxLatencies] /\ mpc' \in [Recorders -> MPlaces]
            /\ \A u \in Recorders : mpc'[u] # "idle" => id'[u] = id[u]
        BY <1>a, <4>1 DEF Local, MPlaces
      <4> QED
        BY <1>a, <2>1, <2>2, <4>1, <4>2 DEF Located, AtTracker, RECORDING, RESETTING
    <3>2. CASE IF id[t] < Len(names) THEN BeginReset(t, id[t] + 1) ELSE BeginHistReset(t)
      <4>1. CASE id[t] < Len(names)
        <5>1. id[t] + 1 \in DOMAIN names
          BY <1>a, <2>1, <4>1
        <5> QED
          BY <1>d, <2>2, <3>2, <4>1, <5>1 DEF BeginReset, StepTo
      <4>2. CASE ~(id[t] < Len(names))
        BY <1>e, <2>2, <3>2, <4>2 DEF BeginHistReset, StepTo
      <4> QED
        BY <4>1, <4>2
    <3> QED
      BY <1>6, <3>1, <3>2 DEF ResetStep, RESETTING
  <2> QED
    BY <1>a, <2>2, <2>3, <2>4, <2>5 DEF MetricsTypes, NamesApart, Located, AtTracker
<1>7. CASE Observe(t)
  <2>1. PICK x \in Values :
          /\ value' = [value EXCEPT ![t] = x] /\ mpc' = [mpc EXCEPT ![t] = "htotal"]
          /\ buckets' = IF BucketOf(x) = 0 THEN buckets ELSE [buckets EXCEPT ![BucketOf(x)] = @ + 1]
          /\ beyond' = IF BucketOf(x) = 0 THEN beyond + 1 ELSE beyond
    BY <1>7 DEF Observe, StepTo
  <2>2. UNCHANGED <<names, trk, hcount, id, cur, all, ref>>
    BY <1>7 DEF Observe
  <2>3. buckets' \in [DOMAIN Boundaries -> Nat] /\ beyond' \in Nat
    <3>1. BucketOf(x) \in DOMAIN Boundaries \cup {0}
      BY Bucket
    <3> QED
      BY <1>a, <2>1, <3>1
  <2>4. mpc' \in [Recorders -> MPlaces] /\ value' \in [Recorders -> Nat]
    BY <1>a, <1>b, <2>1 DEF MPlaces, OBSERVING
  <2>5. Located'
    BY <1>a, <2>1, <2>2 DEF Located, AtTracker, RECORDING, RESETTING
  <2> QED
    BY <1>a, <1>c, <2>2, <2>3, <2>4, <2>5
<1>8. CASE ObserveTotal(t)
  <2>1. mpc' = [mpc EXCEPT ![t] = "idle"] /\ hcount' = hcount + 1 /\ value' = Local(value, t)
        /\ UNCHANGED <<names, trk, buckets, id, cur, all, ref, beyond>>
    BY <1>8 DEF ObserveTotal, StepTo, ghost
  <2>2. mpc' \in [Recorders -> MPlaces] /\ value' \in [Recorders -> Nat] /\ hcount' \in Nat
    BY <1>a, <2>1 DEF MPlaces, Local
  <2>3. Located'
    BY <1>a, <2>1 DEF Located, AtTracker, RECORDING, RESETTING
  <2> QED
    BY <1>a, <1>c, <2>1, <2>2, <2>3
<1>9. CASE HistogramReset(t)
  <2>1. mpc' = [mpc EXCEPT ![t] = "hrbuckets"] /\ id' = [id EXCEPT ![t] = 0]
    BY <1>9 DEF HistogramReset, BeginHistReset, StepTo
  <2>2. UNCHANGED <<names, trk, buckets, hcount, value, cur, all, ref, beyond>>
    BY <1>9 DEF HistogramReset, hist
  <2> QED
    BY <1>a, <1>c, <1>e, <2>1, <2>2
<1>10. CASE HistogramResetStep(t)
  <2>1. PICK l \in {"hrtotal", "idle"} : mpc' = [mpc EXCEPT ![t] = l]
    BY <1>10 DEF HistogramResetStep, StepTo
  <2>2. UNCHANGED <<names, trk, id, value, cur, ref>>
    BY <1>10 DEF HistogramResetStep
  <2>3. /\ buckets' \in [DOMAIN Boundaries -> Nat] /\ hcount' \in Nat /\ beyond' \in Nat
        /\ all' \in [Recorders -> BOOLEAN]
    <3>1. \/ /\ buckets' = [b \in DOMAIN Boundaries |-> 0] /\ beyond' = 0
             /\ UNCHANGED <<hcount, all>>
          \/ /\ hcount' = 0 /\ all' = [all EXCEPT ![t] = FALSE] /\ UNCHANGED <<buckets, beyond>>
      BY <1>10 DEF HistogramResetStep
    <3>2. CASE /\ buckets' = [b \in DOMAIN Boundaries |-> 0] /\ beyond' = 0
               /\ UNCHANGED <<hcount, all>>
      BY <1>a, <3>2
    <3>3. CASE hcount' = 0 /\ all' = [all EXCEPT ![t] = FALSE] /\ UNCHANGED <<buckets, beyond>>
      <4>1. all' \in [Recorders -> BOOLEAN]
        BY <1>a, <3>3, Zenon
      <4> QED
        BY <1>a, <3>3, <4>1
    <3> QED
      BY <3>1, <3>2, <3>3
  <2>4. mpc' \in [Recorders -> MPlaces]
    BY <1>a, <2>1 DEF MPlaces, HRESETTING
  <2>5. Located'
    BY <1>a, <2>1, <2>2 DEF Located, AtTracker, RECORDING, RESETTING
  <2> QED
    BY <1>a, <2>2, <2>3, <2>4, <2>5 DEF MetricsTypes, NamesApart, Located, AtTracker
<1> QED
  BY <1>1, <1>2, <1>3, <1>4, <1>5, <1>6, <1>7, <1>8, <1>9, <1>10 DEF Next1

-----------------------------------------------------------------------------
(* Recordings. *)

(* Where somebody records, nobody resets. *)
LEMMA RecordingOf ==
    ASSUME NEW t \in Recorders, NEW i, In(i, RECORDING, t), TrackerInv(i)
    PROVE  Recording(i) /\ \A u \in Recorders : ~In(i, RESETTING, u)
<1>1. \A u \in Recorders : ~Resetting(i, u)
  BY DEF Resetting, In, RECORDING, RESETTING
<1> QED
  BY <1>1 DEF TrackerInv

(* What is known of tracker i in a step of t, a recording of it. *)
LEMMA RecordFrame ==
    ASSUME MetricsTypes, MetricsTypes', NEW t \in Recorders, Others(t), NEW i \in Trackers,
           In(i, RECORDING, t), mpc'[t] \in {"idle"} \cup RECORDING,
           \A u \in Recorders : ~In(i, RESETTING, u)
    PROVE  /\ \A u \in Recorders : ~In(i, RESETTING, u)'
           /\ \A u \in Recorders \ {t}, L \in {MINNED, {"casmin"}, {"casmax"}} :
                 /\ In(i, L, u)' <=> In(i, L, u)
                 /\ value'[u] = value[u] /\ cur'[u] = cur[u]
           /\ \A u \in Recorders : value[u] \in Nat /\ cur[u] \in Nat /\ cur'[u] \in Nat
           /\ trk[i].count \in Nat /\ trk[i].total \in Nat /\ trk[i].min \in Nat /\ trk[i].max \in Nat
           /\ ref[i].count \in Nat /\ ref[i].total \in Nat /\ ref[i].min \in Nat /\ ref[i].max \in Nat
<1>1. \A u \in Recorders : ~In(i, RESETTING, u)'
  BY DEF In, Others, RESETTING, RECORDING
<1>2. trk[i] \in TrackerRecord /\ ref[i] \in TrackerRecord
  BY DEF MetricsTypes
<1> QED
  BY <1>1, <1>2 DEF In, Others, MetricsTypes, TrackerRecord

(* A step of t that adds dc to the count, dt to the total: the recording    *)
(* goes on, and its shares grow by as much.                                 *)
LEMMA SumsKept ==
    ASSUME MetricsTypes, MetricsTypes', NEW t \in Recorders, Others(t), NEW i \in Trackers,
           Recording(i),
           trk'[i].count - ref'[i].count - CountsOf(i)'[t]
             = trk[i].count - ref[i].count - CountsOf(i)[t],
           trk'[i].total - ref'[i].total - TotalsOf(i)'[t]
             = trk[i].total - ref[i].total - TotalsOf(i)[t]
    PROVE  /\ trk'[i].count = ref'[i].count + Sum(CountsOf(i))'
           /\ trk'[i].total = ref'[i].total + Sum(TotalsOf(i))'
<1>1. /\ trk[i] \in TrackerRecord /\ ref[i] \in TrackerRecord
      /\ trk'[i] \in TrackerRecord /\ ref'[i] \in TrackerRecord
  BY DEF MetricsTypes
<1>2. /\ trk[i].count \in Int /\ ref[i].count \in Int /\ trk'[i].count \in Int /\ ref'[i].count \in Int
      /\ trk[i].total \in Int /\ ref[i].total \in Int /\ trk'[i].total \in Int /\ ref'[i].total \in Int
  BY <1>1 DEF TrackerRecord
<1>3. /\ CountsOf(i)[t] \in Int /\ CountsOf(i)'[t] \in Int
      /\ TotalsOf(i)[t] \in Int /\ TotalsOf(i)'[t] \in Int
  BY DEF CountsOf, TotalsOf, MetricsTypes
<1>4. /\ Sum(CountsOf(i)) \in Int /\ Sum(TotalsOf(i)) \in Int
      /\ Sum(CountsOf(i))' = Sum(CountsOf(i)) - CountsOf(i)[t] + CountsOf(i)'[t]
      /\ Sum(TotalsOf(i))' = Sum(TotalsOf(i)) - TotalsOf(i)[t] + TotalsOf(i)'[t]
  BY SharesChange
<1>5. trk[i].count = ref[i].count + Sum(CountsOf(i)) /\ trk[i].total = ref[i].total + Sum(TotalsOf(i))
  BY DEF Recording
<1>6. ASSUME NEW a \in Int, NEW a1 \in Int, NEW r \in Int, NEW r1 \in Int, NEW c \in Int, NEW c1 \in Int,
             NEW s \in Int, a1 - r1 - c1 = a - r - c, a = r + s
      PROVE  a1 = r1 + (s - c + c1)
  BY <1>6
<1>7. trk'[i].count = ref'[i].count + Sum(CountsOf(i))'
  BY <1>2, <1>3, <1>4, <1>5, <1>6
<1>8. trk'[i].total = ref'[i].total + Sum(TotalsOf(i))'
  BY <1>2, <1>3, <1>4, <1>5, <1>6
<1> QED
  BY <1>7, <1>8

(* The shares of t itself. *)
LEMMA ShareOf ==
    ASSUME NEW t \in Recorders, NEW i
    PROVE  /\ CountsOf(i)[t] = IF In(i, COUNTED, t) THEN 1 ELSE 0
           /\ CountsOf(i)'[t] = IF In(i, COUNTED, t)' THEN 1 ELSE 0
           /\ TotalsOf(i)[t] = IF In(i, TOTALLED, t) THEN value[t] ELSE 0
           /\ TotalsOf(i)'[t] = IF In(i, TOTALLED, t)' THEN value'[t] ELSE 0
  BY DEF CountsOf, TotalsOf

(* A step of a recording on its own tracker. *)
LEMMA RecordSelf ==
    ASSUME MetricsTypes, MetricsTypes', NEW t \in Recorders, Record(t),
           NEW i \in Trackers, i = id[t], TrackerInv(i)
    PROVE  TrackerInv(i)' /\ Others(t)
<1>a. mpc[t] \in RECORDING /\ In(i, RECORDING, t)
  BY DEF Record, RecordAdd, RecordLoad, RecordMin, RecordMax, RECORDING, In
<1>b. Recording(i) /\ \A u \in Recorders : ~In(i, RESETTING, u)
  BY <1>a, RecordingOf
<1>c. PICK l \in {"idle"} \cup RECORDING : mpc' = [mpc EXCEPT ![t] = l]
  <2>1. UNCHANGED mpc => mpc' = [mpc EXCEPT ![t] = mpc[t]]
    BY DEF MetricsTypes
  <2> QED
    BY <1>a, <2>1 DEF Record, RecordAdd, RecordLoad, RecordMin, RecordMax, RECORDING, StepTo
<1>d. mpc'[t] = l /\ mpc[t] # "idle"
  BY <1>a, <1>c DEF MetricsTypes, RECORDING
<1>e. \A u \in Recorders \ {t} : cur'[u] = cur[u]
  BY DEF Record, RecordAdd, RecordLoad, RecordMin, RecordMax, MetricsTypes
<1>f. /\ id' = [id EXCEPT ![t] = IF l = "idle" THEN 0 ELSE id[t]]
      /\ value' = [value EXCEPT ![t] = IF l = "idle" THEN 0 ELSE value[t]]
  BY <1>d DEF Record, Local
<1>g. Others(t)
  BY <1>c, <1>e, <1>f DEF Others, MetricsTypes
<1> SUFFICES TrackerInv(i)'
  BY <1>g
<1>h. l # "idle" => id'[t] = i /\ value'[t] = value[t] /\ ref' = ref
  BY <1>d, <1>f DEF Record, MetricsTypes
<1>i. /\ trk \in [Trackers -> TrackerRecord] /\ trk[i] \in TrackerRecord
      /\ ref \in [Trackers -> TrackerRecord] /\ ref[i] \in TrackerRecord
  BY DEF MetricsTypes
<1>j. i \in Trackers /\ i = id[t] /\ i # 0
  BY DEF Trackers
<1> USE DEF In
<1>k. /\ \A u \in Recorders : ~In(i, RESETTING, u)'
      /\ \A u \in Recorders \ {t}, L \in {MINNED, {"casmin"}, {"casmax"}} :
            /\ In(i, L, u)' <=> In(i, L, u)
            /\ value'[u] = value[u] /\ cur'[u] = cur[u]
      /\ \A u \in Recorders : value[u] \in Nat /\ cur[u] \in Nat /\ cur'[u] \in Nat
      /\ trk[i].count \in Nat /\ trk[i].total \in Nat /\ trk[i].min \in Nat /\ trk[i].max \in Nat
      /\ ref[i].count \in Nat /\ ref[i].total \in Nat /\ ref[i].min \in Nat /\ ref[i].max \in Nat
  <2> HIDE DEF In
  <2>1. mpc'[t] \in {"idle"} \cup RECORDING
    BY <1>d
  <2> QED
    BY <1>a, <1>b, <1>g, <1>j, <2>1, RecordFrame
<1>n. /\ trk[i].max = ref[i].max /\ trk[i].min <= ref[i].min
      /\ \A u \in Recorders : In(i, MINNED, u) => trk[i].min <= value[u]
      /\ trk[i].min = ref[i].min \/ \E u \in Recorders : In(i, MINNED, u) /\ trk[i].min = value[u]
      /\ \A u \in Recorders : In(i, {"casmin"}, u) => trk[i].min <= cur[u]
      /\ \A u \in Recorders : In(i, {"casmax"}, u) => cur[u] <= trk[i].max
  BY <1>b DEF Recording
<1>l. ASSUME trk'[i].count - ref'[i].count - CountsOf(i)'[t]
               = trk[i].count - ref[i].count - CountsOf(i)[t],
             trk'[i].total - ref'[i].total - TotalsOf(i)'[t]
               = trk[i].total - ref[i].total - TotalsOf(i)[t],
             trk'[i].min \in Nat, trk'[i].max \in Nat,
             trk'[i].min <= trk[i].min, trk[i].max <= trk'[i].max,
             trk'[i].min <= ref'[i].min, trk'[i].max = ref'[i].max,
             In(i, MINNED, t)' => trk'[i].min <= value'[t],
             In(i, {"casmin"}, t)' => trk'[i].min <= cur'[t],
             In(i, {"casmax"}, t)' => cur'[t] <= trk'[i].max,
             \/ trk'[i].min = ref'[i].min
             \/ In(i, MINNED, t)' /\ trk'[i].min = value'[t]
             \/ \E u \in Recorders \ {t} : In(i, MINNED, u) /\ trk'[i].min = value[u]
      PROVE  TrackerInv(i)'
  <2> HIDE DEF In
  <2>1. /\ trk'[i].count = ref'[i].count + Sum(CountsOf(i))'
        /\ trk'[i].total = ref'[i].total + Sum(TotalsOf(i))'
    BY <1>b, <1>g, <1>j, <1>l, SumsKept
  <2>2. \A u \in Recorders : In(i, MINNED, u)' => trk'[i].min <= value'[u]
    <3> SUFFICES ASSUME NEW u \in Recorders, u # t, In(i, MINNED, u)' PROVE trk'[i].min <= value'[u]
      BY <1>l
    <3>1. In(i, MINNED, u) /\ value'[u] = value[u] /\ value[u] \in Nat
      BY <1>k
    <3> QED
      BY <1>k, <1>l, <1>n, <3>1
  <2>3. \A u \in Recorders : In(i, {"casmin"}, u)' => trk'[i].min <= cur'[u]
    <3> SUFFICES ASSUME NEW u \in Recorders, u # t, In(i, {"casmin"}, u)' PROVE trk'[i].min <= cur'[u]
      BY <1>l
    <3>1. In(i, {"casmin"}, u) /\ cur'[u] = cur[u] /\ cur[u] \in Nat
      BY <1>k
    <3> QED
      BY <1>k, <1>l, <1>n, <3>1
  <2>4. \A u \in Recorders : In(i, {"casmax"}, u)' => cur'[u] <= trk'[i].max
    <3> SUFFICES ASSUME NEW u \in Recorders, u # t, In(i, {"casmax"}, u)' PROVE cur'[u] <= trk'[i].max
      BY <1>l
    <3>1. In(i, {"casmax"}, u) /\ cur'[u] = cur[u] /\ cur[u] \in Nat
      BY <1>k
    <3> QED
      BY <1>k, <1>l, <1>n, <3>1
  <2>5. trk'[i].min = ref'[i].min \/ \E u \in Recorders : In(i, MINNED, u)' /\ trk'[i].min = value'[u]
    BY <1>k, <1>l
  <2>6. Recording(i)'
    BY <1>l, <2>1, <2>2, <2>3, <2>4, <2>5 DEF Recording
  <2> QED
    BY <1>k, <2>6 DEF TrackerInv
<1>m. /\ CountsOf(i)[t] = IF In(i, COUNTED, t) THEN 1 ELSE 0
      /\ CountsOf(i)'[t] = IF In(i, COUNTED, t)' THEN 1 ELSE 0
      /\ TotalsOf(i)[t] = IF In(i, TOTALLED, t) THEN value[t] ELSE 0
      /\ TotalsOf(i)'[t] = IF In(i, TOTALLED, t)' THEN value'[t] ELSE 0
  <2> HIDE DEF In
  <2> QED
    BY ShareOf
<1> USE DEF COUNTED, TOTALLED, MINNED, RECORDING
<1>o. ASSUME trk'[i].min = trk[i].min, ref'[i].min = ref[i].min, In(i, MINNED, t) => In(i, MINNED, t)',
             value'[t] = value[t]
      PROVE  \/ trk'[i].min = ref'[i].min
             \/ In(i, MINNED, t)' /\ trk'[i].min = value'[t]
             \/ \E u \in Recorders \ {t} : In(i, MINNED, u) /\ trk'[i].min = value[u]
  <2> HIDE DEF In
  <2> QED
    BY <1>n, <1>o
<1>1. CASE mpc[t] = "count"
  <2>1. RecordAdd(t) /\ UNCHANGED cur
    BY <1>1 DEF Record, RecordLoad, RecordMin, RecordMax
  <2>2. l = "total" /\ trk'[i] = [trk[i] EXCEPT !.count = trk[i].count + 1]
    BY <1>1, <1>d, <1>i, <1>j, <2>1 DEF RecordAdd, StepTo, MetricsTypes
  <2>3. /\ trk'[i].count = trk[i].count + 1 /\ trk'[i].total = trk[i].total
        /\ trk'[i].min = trk[i].min /\ trk'[i].max = trk[i].max /\ ref'[i] = ref[i]
    BY <1>h, <1>i, <2>2 DEF TrackerRecord
  <2>4. /\ CountsOf(i)[t] = 0 /\ CountsOf(i)'[t] = 1 /\ TotalsOf(i)[t] = 0 /\ TotalsOf(i)'[t] = 0
    BY <1>1, <1>d, <1>h, <1>j, <1>m, <2>2
  <2>5. ~In(i, MINNED, t)' /\ ~In(i, {"casmin"}, t)' /\ ~In(i, {"casmax"}, t)' /\ ~In(i, MINNED, t)
    BY <1>1, <1>d, <2>2
  <2> HIDE DEF In, COUNTED, TOTALLED, MINNED, RECORDING
  <2>6. /\ trk'[i].count - ref'[i].count - CountsOf(i)'[t]
             = trk[i].count - ref[i].count - CountsOf(i)[t]
        /\ trk'[i].total - ref'[i].total - TotalsOf(i)'[t]
             = trk[i].total - ref[i].total - TotalsOf(i)[t]
    BY <1>k, <2>3, <2>4
  <2>7. /\ trk'[i].min \in Nat /\ trk'[i].max \in Nat
        /\ trk'[i].min <= trk[i].min /\ trk[i].max <= trk'[i].max
        /\ trk'[i].min <= ref'[i].min /\ trk'[i].max = ref'[i].max
    BY <1>k, <1>n, <2>3
  <2>8. \/ trk'[i].min = ref'[i].min
        \/ In(i, MINNED, t)' /\ trk'[i].min = value'[t]
        \/ \E u \in Recorders \ {t} : In(i, MINNED, u) /\ trk'[i].min = value[u]
    BY <1>h, <1>o, <2>2, <2>3, <2>5
  <2> QED
    BY <1>l, <2>5, <2>6, <2>7, <2>8
<1>2. CASE mpc[t] = "total"
  <2>1. RecordAdd(t) /\ UNCHANGED cur
    BY <1>2 DEF Record, RecordLoad, RecordMin, RecordMax
  <2>2. l = "loadmin" /\ trk'[i] = [trk[i] EXCEPT !.total = trk[i].total + value[t]]
    BY <1>2, <1>d, <1>i, <1>j, <2>1 DEF RecordAdd, StepTo, MetricsTypes
  <2>3. /\ trk'[i].count = trk[i].count /\ trk'[i].total = trk[i].total + value[t]
        /\ trk'[i].min = trk[i].min /\ trk'[i].max = trk[i].max /\ ref'[i] = ref[i]
    BY <1>h, <1>i, <2>2 DEF TrackerRecord
  <2>4. /\ CountsOf(i)[t] = 1 /\ CountsOf(i)'[t] = 1 /\ TotalsOf(i)[t] = 0 /\ TotalsOf(i)'[t] = value[t]
    BY <1>2, <1>d, <1>h, <1>j, <1>m, <2>2
  <2>5. ~In(i, MINNED, t)' /\ ~In(i, {"casmin"}, t)' /\ ~In(i, {"casmax"}, t)' /\ ~In(i, MINNED, t)
    BY <1>2, <1>d, <2>2
  <2> HIDE DEF In, COUNTED, TOTALLED, MINNED, RECORDING
  <2> QED
    BY <1>h, <1>k, <1>l, <1>n, <1>o, <2>2, <2>3, <2>4, <2>5
<1>3. CASE mpc[t] = "loadmin"
  <2>1. l = "casmin" /\ cur' = [cur EXCEPT ![t] = trk[i].min] /\ UNCHANGED trk
    BY <1>3, <1>d, <1>j DEF Record, RecordAdd, RecordLoad, RecordMin, RecordMax, StepTo, MetricsTypes
  <2>2. cur'[t] = trk[i].min /\ trk'[i] = trk[i] /\ ref'[i] = ref[i]
    BY <1>h, <2>1 DEF MetricsTypes
  <2>3. /\ CountsOf(i)[t] = 1 /\ CountsOf(i)'[t] = 1
        /\ TotalsOf(i)[t] = value[t] /\ TotalsOf(i)'[t] = value[t]
    BY <1>3, <1>d, <1>h, <1>j, <1>m, <2>1
  <2>4. ~In(i, MINNED, t)' /\ ~In(i, {"casmax"}, t)' /\ ~In(i, MINNED, t)
    BY <1>3, <1>d, <2>1
  <2> HIDE DEF In, COUNTED, TOTALLED, MINNED, RECORDING
  <2> QED
    BY <1>h, <1>k, <1>l, <1>n, <1>o, <2>1, <2>2, <2>3, <2>4
<1>4. CASE mpc[t] = "casmin"
  <2>1. RecordMin(t)
    BY <1>4 DEF Record, RecordAdd, RecordLoad, RecordMax
  <2>2. trk[i].min <= cur[t]
    BY <1>4, <1>j, <1>n
  <2>3. ~In(i, MINNED, t) /\ CountsOf(i)[t] = 1 /\ TotalsOf(i)[t] = value[t]
    BY <1>4, <1>j, <1>m
  <2>4. CASE value[t] >= cur[t] /\ StepTo(t, "loadmax") /\ UNCHANGED <<trk, cur>>
    <3>1. l = "loadmax" /\ trk'[i] = trk[i] /\ ref'[i] = ref[i]
      BY <1>d, <1>h, <2>4 DEF StepTo, MetricsTypes
    <3>2. CountsOf(i)'[t] = 1 /\ TotalsOf(i)'[t] = value[t]
      BY <1>d, <1>h, <1>j, <1>m, <3>1
    <3>3. ~In(i, {"casmin"}, t)' /\ ~In(i, {"casmax"}, t)' /\ trk[i].min <= value[t]
      BY <1>d, <1>k, <2>2, <2>4, <3>1
    <3> HIDE DEF In, COUNTED, TOTALLED, MINNED, RECORDING
    <3> QED
      BY <1>h, <1>k, <1>l, <1>n, <1>o, <2>3, <3>1, <3>2, <3>3
  <2>5. CASE /\ value[t] < cur[t] /\ trk[id[t]].min = cur[t]
             /\ trk' = [trk EXCEPT ![id[t]].min = value[t]]
             /\ StepTo(t, "loadmax") /\ UNCHANGED cur
    <3>1. l = "loadmax" /\ trk'[i] = [trk[i] EXCEPT !.min = value[t]] /\ ref'[i] = ref[i]
      BY <1>d, <1>h, <1>i, <1>j, <2>5 DEF StepTo, MetricsTypes
    <3>2. /\ trk'[i].count = trk[i].count /\ trk'[i].total = trk[i].total
          /\ trk'[i].min = value[t] /\ trk'[i].max = trk[i].max
      BY <1>i, <3>1 DEF TrackerRecord
    <3>3. CountsOf(i)'[t] = 1 /\ TotalsOf(i)'[t] = value[t]
      BY <1>d, <1>h, <1>j, <1>m, <3>1
    <3>4. ~In(i, {"casmin"}, t)' /\ ~In(i, {"casmax"}, t)' /\ In(i, MINNED, t)'
      BY <1>d, <1>h, <1>j, <3>1
    <3>5. value[t] <= trk[i].min /\ value[t] <= ref[i].min /\ value'[t] = value[t]
      BY <1>h, <1>j, <1>k, <1>n, <2>5, <3>1
    <3> HIDE DEF In, COUNTED, TOTALLED, MINNED, RECORDING
    <3> QED
      BY <1>k, <1>l, <1>n, <2>3, <3>1, <3>2, <3>3, <3>4, <3>5
  <2>6. CASE /\ value[t] < cur[t] /\ cur' = [cur EXCEPT ![t] = trk[id[t]].min]
             /\ UNCHANGED <<trk, mpc>>
    <3>1. l = "casmin" /\ cur'[t] = trk[i].min /\ trk'[i] = trk[i] /\ ref'[i] = ref[i]
      BY <1>4, <1>d, <1>h, <1>j, <2>6 DEF MetricsTypes
    <3>2. CountsOf(i)'[t] = 1 /\ TotalsOf(i)'[t] = value[t]
      BY <1>d, <1>h, <1>j, <1>m, <3>1
    <3>3. ~In(i, MINNED, t)' /\ ~In(i, {"casmax"}, t)'
      BY <1>d, <3>1
    <3> HIDE DEF In, COUNTED, TOTALLED, MINNED, RECORDING
    <3> QED
      BY <1>h, <1>k, <1>l, <1>n, <1>o, <2>3, <3>1, <3>2, <3>3
  <2> QED
    BY <2>1, <2>4, <2>5, <2>6 DEF RecordMin
<1>5. CASE mpc[t] = "loadmax"
  <2>1. l = "casmax" /\ cur' = [cur EXCEPT ![t] = trk[i].max] /\ UNCHANGED trk
    BY <1>5, <1>d, <1>j DEF Record, RecordAdd, RecordLoad, RecordMin, RecordMax, StepTo, MetricsTypes
  <2>2. cur'[t] = trk[i].max /\ trk'[i] = trk[i] /\ ref'[i] = ref[i]
    BY <1>h, <2>1 DEF MetricsTypes
  <2>3. /\ CountsOf(i)[t] = 1 /\ CountsOf(i)'[t] = 1
        /\ TotalsOf(i)[t] = value[t] /\ TotalsOf(i)'[t] = value[t]
    BY <1>5, <1>d, <1>h, <1>j, <1>m, <2>1
  <2>4. In(i, MINNED, t)' /\ In(i, MINNED, t) /\ ~In(i, {"casmin"}, t)'
    BY <1>5, <1>d, <1>h, <1>j, <2>1
  <2> HIDE DEF In, COUNTED, TOTALLED, MINNED, RECORDING
  <2> QED
    BY <1>h, <1>k, <1>l, <1>n, <1>o, <2>1, <2>2, <2>3, <2>4
<1>6. CASE mpc[t] = "casmax"
  <2>1. RecordMax(t)
    BY <1>6 DEF Record, RecordAdd, RecordLoad, RecordMin
  <2>2. cur[t] <= trk[i].max
    BY <1>6, <1>j, <1>n
  <2>3. In(i, MINNED, t) /\ CountsOf(i)[t] = 1 /\ TotalsOf(i)[t] = value[t] /\ trk[i].min <= value[t]
    BY <1>6, <1>j, <1>m, <1>n
  <2>4. CASE value[t] > cur[t] /\ cur' = [cur EXCEPT ![t] = trk[id[t]].max] /\ UNCHANGED <<trk, mpc>>
    <3>1. l = "casmax" /\ cur'[t] = trk[i].max /\ trk'[i] = trk[i] /\ ref'[i] = ref[i]
      BY <1>6, <1>d, <1>h, <1>j, <2>4 DEF MetricsTypes
    <3>2. CountsOf(i)'[t] = 1 /\ TotalsOf(i)'[t] = value[t]
      BY <1>d, <1>h, <1>j, <1>m, <3>1
    <3>3. ~In(i, {"casmin"}, t)' /\ In(i, MINNED, t)'
      BY <1>d, <1>h, <1>j, <3>1
    <3> HIDE DEF In, COUNTED, TOTALLED, MINNED, RECORDING
    <3> QED
      BY <1>h, <1>k, <1>l, <1>n, <1>o, <2>3, <3>1, <3>2, <3>3
  <2>5. CASE /\ \/ value[t] <= cur[t] /\ UNCHANGED trk
                \/ /\ value[t] > cur[t] /\ trk[id[t]].max = cur[t]
                   /\ trk' = [trk EXCEPT ![id[t]].max = value[t]]
             /\ StepTo(t, "idle")
    <3>1. l = "idle"
      BY <1>d, <2>5 DEF StepTo, MetricsTypes
    <3>2. ref' = [ref EXCEPT ![i] = [count |-> ref[i].count + 1, total |-> ref[i].total + value[t],
                                     min |-> Min({ref[i].min, value[t]}),
                                     max |-> Max({ref[i].max, value[t]})]]
      BY <1>d, <1>j, <3>1 DEF Record
    <3>3. /\ ref'[i].count = ref[i].count + 1 /\ ref'[i].total = ref[i].total + value[t]
          /\ ref'[i].min = (IF ref[i].min <= value[t] THEN ref[i].min ELSE value[t])
          /\ ref'[i].max = (IF ref[i].max <= value[t] THEN value[t] ELSE ref[i].max)
      <4>1. ref[i].min \in Nat /\ ref[i].max \in Nat /\ value[t] \in Nat
        BY <1>k
      <4>2. /\ ref'[i].count = ref[i].count + 1 /\ ref'[i].total = ref[i].total + value[t]
            /\ ref'[i].min = Min({ref[i].min, value[t]}) /\ ref'[i].max = Max({ref[i].max, value[t]})
        BY <1>i, <3>2
      <4> QED
        BY <4>1, <4>2, LeastOfTwo
    <3>4. /\ trk'[i].count = trk[i].count /\ trk'[i].total = trk[i].total /\ trk'[i].min = trk[i].min
          /\ trk'[i].max = (IF ref[i].max <= value[t] THEN value[t] ELSE ref[i].max)
      <4>1. CASE value[t] <= cur[t] /\ UNCHANGED trk
        BY <1>k, <1>n, <2>2, <4>1
      <4>2. CASE /\ value[t] > cur[t] /\ trk[id[t]].max = cur[t]
                 /\ trk' = [trk EXCEPT ![id[t]].max = value[t]]
        <5>1. trk'[i] = [trk[i] EXCEPT !.max = value[t]]
          BY <1>i, <1>j, <4>2
        <5>2. /\ trk'[i].count = trk[i].count /\ trk'[i].total = trk[i].total
              /\ trk'[i].min = trk[i].min /\ trk'[i].max = value[t]
          BY <1>i, <5>1 DEF TrackerRecord
        <5>3. ref[i].max < value[t]
          BY <1>j, <1>n, <4>2
        <5> QED
          BY <1>k, <5>2, <5>3
      <4> QED
        BY <2>5, <4>1, <4>2
    <3>5. /\ CountsOf(i)'[t] = 0 /\ TotalsOf(i)'[t] = 0
          /\ ~In(i, MINNED, t)' /\ ~In(i, {"casmin"}, t)' /\ ~In(i, {"casmax"}, t)'
      BY <1>d, <1>m, <3>1
    <3>6. \/ trk'[i].min = ref'[i].min
          \/ \E u \in Recorders \ {t} : In(i, MINNED, u) /\ trk'[i].min = value[u]
      <4> HIDE DEF In, COUNTED, TOTALLED, MINNED, RECORDING
      <4> QED
        BY <1>k, <1>n, <2>3, <3>3, <3>4
    <3>7. value[t] \in Nat /\ trk'[i].max \in Nat /\ trk[i].max <= trk'[i].max
          /\ trk'[i].min <= ref'[i].min
      BY <1>k, <1>n, <2>3, <3>3, <3>4
    <3> HIDE DEF In, COUNTED, TOTALLED, MINNED, RECORDING
    <3>8. /\ trk'[i].count - ref'[i].count - CountsOf(i)'[t]
               = trk[i].count - ref[i].count - CountsOf(i)[t]
          /\ trk'[i].total - ref'[i].total - TotalsOf(i)'[t]
               = trk[i].total - ref[i].total - TotalsOf(i)[t]
      BY <1>k, <2>3, <3>3, <3>4, <3>5, <3>7
    <3> QED
      BY <1>k, <1>l, <3>3, <3>4, <3>5, <3>6, <3>7, <3>8
  <2> QED
    BY <2>1, <2>4, <2>5 DEF RecordMax
<1> QED
  BY <1>a, <1>1, <1>2, <1>3, <1>4, <1>5, <1>6

-----------------------------------------------------------------------------
(* Resets, and the beginning of a recording. *)

LEMMA ResettingOf ==
    ASSUME NEW t \in Recorders, NEW i, In(i, RESETTING, t), TrackerInv(i)
    PROVE  Resetting(i, t)
<1>1. PICK u \in Recorders : Resetting(i, u)
  BY DEF TrackerInv
<1>2. In(i, RECORDING \cup RESETTING, t)
  BY DEF In
<1>3. u = t
  BY <1>1, <1>2 DEF Resetting
<1> QED
  BY <1>1, <1>3

LEMMA ResetBegins ==
    ASSUME NEW t \in Recorders, NEW i, Others(t), In(i, {"rcount"}, t)',
           \A u \in Recorders : ~In(i, RECORDING \cup RESETTING, u)
    PROVE  TrackerInv(i)'
<1>1. Resetting(i, t)'
  BY DEF Resetting, In, Others, RESETTING
<1> QED
  BY <1>1 DEF TrackerInv

(* One of the first three stores. *)
LEMMA ResetGoesOn ==
    ASSUME MetricsTypes, NEW t \in Recorders, NEW i, Others(t), In(i, RESETTING, t), TrackerInv(i),
           id'[t] = id[t],
           \/ mpc[t] = "rcount" /\ mpc'[t] = "rtotal" /\ trk'[i].count = 0
           \/ mpc[t] = "rtotal" /\ mpc'[t] = "rmin" /\ trk'[i].count = trk[i].count /\ trk'[i].total = 0
           \/ /\ mpc[t] = "rmin" /\ mpc'[t] = "rmax" /\ trk'[i].count = trk[i].count
              /\ trk'[i].total = trk[i].total /\ trk'[i].min = UINT64_MAX
    PROVE  TrackerInv(i)'
<1>1. Resetting(i, t)
  BY ResettingOf
<1>2. Resetting(i, t)'
  BY <1>1 DEF Resetting, In, Others, RESETTING, RECORDING
<1> QED
  BY <1>2 DEF TrackerInv

(* The last: the tracker is as new. *)
LEMMA ResetEnds ==
    ASSUME MetricsTypes, MetricsTypes', NEW t \in Recorders, NEW i \in Trackers, Others(t),
           In(i, {"rmax"}, t), TrackerInv(i), ~In(i, RECORDING \cup RESETTING, t)',
           trk'[i].count = trk[i].count, trk'[i].total = trk[i].total, trk'[i].min = trk[i].min,
           trk'[i].max = 0, ref'[i] = Fresh
    PROVE  TrackerInv(i)'
<1>1. Resetting(i, t)
  <2>1. In(i, RESETTING, t)
    BY DEF In, RESETTING
  <2> QED
    BY <2>1, ResettingOf
<1>2. \A u \in Recorders : ~In(i, RECORDING \cup RESETTING, u)'
  BY <1>1 DEF Resetting, In, Others
<1>3. Sum(CountsOf(i))' = 0 /\ Sum(TotalsOf(i))' = 0
  <2>1. /\ DOMAIN CountsOf(i)' = Recorders /\ DOMAIN TotalsOf(i)' = Recorders
        /\ \A u \in Recorders : CountsOf(i)'[u] = 0 /\ TotalsOf(i)'[u] = 0
    BY <1>2 DEF CountsOf, TotalsOf, In, TOTALLED, COUNTED
  <2>2. \A f : DOMAIN f = Recorders /\ (\A u \in Recorders : f[u] = 0) => Sum(f) = 0
    BY SumOfZeros, MetricsAssumption
  <2> QED
    BY <2>1, <2>2
<1>4. trk'[i].count = 0 /\ trk'[i].total = 0 /\ trk'[i].min = UINT64_MAX
  BY <1>1 DEF Resetting, In
<1>5. /\ ref'[i].count = 0 /\ ref'[i].total = 0 /\ ref'[i].min = UINT64_MAX /\ ref'[i].max = 0
      /\ UINT64_MAX \in Nat
  BY MetricsAssumption DEF Fresh
<1>6. \A u \in Recorders : /\ ~In(i, RESETTING, u)' /\ ~In(i, MINNED, u)'
                           /\ ~In(i, {"casmin"}, u)' /\ ~In(i, {"casmax"}, u)'
  BY <1>2 DEF In, MINNED, RECORDING
<1>7. Recording(i)'
  BY <1>3, <1>4, <1>5, <1>6 DEF Recording
<1> QED
  BY <1>6, <1>7 DEF TrackerInv

(* perf_timer_end on a tracker nobody resets. *)
LEMMA RecordBegins ==
    ASSUME MetricsTypes, MetricsTypes', NEW t \in Recorders, NEW i \in Trackers, Others(t),
           mpc[t] = "timer", In(i, {"count"}, t)', TrackerInv(i),
           \A u \in Recorders : ~In(i, RESETTING, u), UNCHANGED <<trk, ref>>
    PROVE  TrackerInv(i)'
<1>1. Recording(i)
  BY DEF TrackerInv, Resetting
<1>2. /\ CountsOf(i)[t] = 0 /\ CountsOf(i)'[t] = 0 /\ TotalsOf(i)[t] = 0 /\ TotalsOf(i)'[t] = 0
  BY DEF CountsOf, TotalsOf, In, TOTALLED, COUNTED, RECORDING
<1>3. /\ trk'[i].count = ref'[i].count + Sum(CountsOf(i))'
      /\ trk'[i].total = ref'[i].total + Sum(TotalsOf(i))'
  BY <1>1, <1>2, SumsKept
<1>4. \A u \in Recorders, L \in {RESETTING, MINNED, {"casmin"}, {"casmax"}} :
         /\ In(i, L, u)' <=> In(i, L, u)
         /\ In(i, L, u) => value'[u] = value[u] /\ cur'[u] = cur[u]
  BY DEF In, Others, RESETTING, MINNED
<1>5. Recording(i)'
  BY <1>1, <1>3, <1>4 DEF Recording
<1> QED
  BY <1>4, <1>5 DEF TrackerInv

-----------------------------------------------------------------------------
(* A step, tracker by tracker. *)

LEMMA NobodyInside ==
    ASSUME NEW i \in Trackers, NEW L
    PROVE  Inside(i, L) = {} <=> \A u \in Recorders : ~In(i, L, u)
  BY DEF Inside, In, Trackers

(* The beginning of a reset of tracker j by t, which was at no tracker or   *)
(* has just finished another one.                                           *)
LEMMA TrackerBeginReset ==
    ASSUME MetricsTypes, MetricsTypes', NEW t \in Recorders, NEW j \in Trackers, BeginReset(t, j),
           UNCHANGED <<value, cur>>,
           NEW i \in Trackers, i \notin mixed', i \notin mixed => TrackerInv(i),
           \/ mpc[t] = "idle" /\ UNCHANGED <<trk, ref>>
           \/ /\ mpc[t] = "rmax" /\ id[t] # j /\ id[t] \in Trackers
              /\ trk' = [trk EXCEPT ![id[t]].max = 0] /\ ref' = [ref EXCEPT ![id[t]] = Fresh]
    PROVE  TrackerInv(i)'
<1>1. /\ id' = [id EXCEPT ![t] = j] /\ mpc' = [mpc EXCEPT ![t] = "rcount"]
      /\ mixed' = IF Inside(j, RECORDING \cup RESETTING) = {} THEN mixed \ {j} ELSE mixed \cup {j}
  BY DEF BeginReset, StepTo
<1>2. Others(t) /\ id'[t] = j /\ mpc'[t] = "rcount"
  BY <1>1 DEF Others, MetricsTypes
<1>3. CASE i = j
  <2>1. Inside(j, RECORDING \cup RESETTING) = {}
    BY <1>1, <1>3
  <2>2. \A u \in Recorders : ~In(i, RECORDING \cup RESETTING, u)
    BY <1>3, <2>1, NobodyInside
  <2>3. In(i, {"rcount"}, t)'
    BY <1>2, <1>3 DEF In
  <2> QED
    BY <1>2, <2>2, <2>3, ResetBegins
<1>4. CASE i # j
  <2>1. TrackerInv(i) /\ ~In(i, RECORDING \cup RESETTING, t)'
    BY <1>1, <1>2, <1>4 DEF In
  <2>2. CASE mpc[t] = "rmax" /\ id[t] = i
    <3>1. trk[i] \in TrackerRecord /\ trk'[i] = [trk[i] EXCEPT !.max = 0] /\ ref'[i] = Fresh
      BY <2>2 DEF MetricsTypes
    <3>2. /\ trk'[i].count = trk[i].count /\ trk'[i].total = trk[i].total
          /\ trk'[i].min = trk[i].min /\ trk'[i].max = 0
      BY <3>1 DEF TrackerRecord
    <3>3. In(i, {"rmax"}, t)
      BY <2>2 DEF In
    <3> QED
      BY <1>2, <2>1, <3>1, <3>2, <3>3, ResetEnds
  <2>3. CASE ~(mpc[t] = "rmax" /\ id[t] = i)
    <3>1. ~In(i, RECORDING \cup RESETTING, t)
      BY <2>3 DEF In, RECORDING, RESETTING
    <3>2. trk'[i] = trk[i] /\ ref'[i] = ref[i]
      BY <2>3 DEF MetricsTypes
    <3> QED
      BY <1>2, <2>1, <3>1, <3>2, TrackerFrame
  <2> QED
    BY <2>2, <2>3
<1> QED
  BY <1>3, <1>4

(* Steps of t that are about no tracker. *)
LEMMA TrackerElsewhere ==
    ASSUME MetricsTypes, MetricsTypes', NEW t \in Recorders, Others(t), NEW i \in Trackers,
           TrackerInv(i), UNCHANGED <<trk, ref>>,
           mpc[t] \notin RECORDING \cup RESETTING, mpc'[t] \notin RECORDING \cup RESETTING
    PROVE  TrackerInv(i)'
<1>1. ~In(i, RECORDING \cup RESETTING, t) /\ ~In(i, RECORDING \cup RESETTING, t)'
  BY DEF In
<1> QED
  BY <1>1, TrackerFrame

LEMMA TrackerStep ==
    ASSUME MetricsTypes, MetricsTypes', NEW t \in Recorders, Next1(t),
           NEW i \in Trackers, i \notin mixed', i \notin mixed => TrackerInv(i)
    PROVE  TrackerInv(i)'
<1>a. /\ mpc \in [Recorders -> MPlaces] /\ id \in [Recorders -> 0..MaxLatencies]
      /\ value \in [Recorders -> Nat] /\ cur \in [Recorders -> Nat]
      /\ trk \in [Trackers -> TrackerRecord] /\ ref \in [Trackers -> TrackerRecord]
      /\ \A u \in Recorders : mpc[u] \in {"timer"} \cup RECORDING \cup RESETTING => id[u] \in DOMAIN names
  BY DEF MetricsTypes
<1>b. DOMAIN names \subseteq Trackers /\ DOMAIN names = 1..Len(names) /\ Len(names) \in Nat
      /\ Len(names) <= MaxLatencies
  BY MetricsAssumption DEF MetricsTypes, Trackers
<1>1. CASE PerfTimerStart(t)
  <2>1. /\ UNCHANGED <<trk, ref, mixed, value, cur>> /\ mpc[t] = "idle"
        /\ \E l \in {"idle", "timer"} : mpc' = [mpc EXCEPT ![t] = l]
        /\ \E j \in 0..MaxLatencies : id' = [id EXCEPT ![t] = j]
    BY <1>1 DEF PerfTimerStart, StepTo, ghost, Begin
  <2>2. Others(t) /\ mpc'[t] \in {"idle", "timer"}
    BY <1>a, <2>1 DEF Others
  <2> QED
    BY <2>1, <2>2, TrackerElsewhere DEF RECORDING, RESETTING
<1>2. CASE PerfTimerEnd(t)
  <2>1. /\ mpc[t] = "timer" /\ mpc' = [mpc EXCEPT ![t] = "count"]
        /\ \E x \in Values : value' = [value EXCEPT ![t] = x]
        /\ UNCHANGED <<trk, ref, id, cur>>
        /\ mixed' = mixed \cup {j \in {id[t]} : Inside(j, RESETTING) # {}}
    BY <1>2 DEF PerfTimerEnd, StepTo
  <2>2. Others(t) /\ mpc'[t] = "count" /\ id'[t] = id[t] /\ i \notin mixed
    BY <1>a, <2>1 DEF Others
  <2>3. CASE i = id[t]
    <3>1. Inside(i, RESETTING) = {} /\ In(i, {"count"}, t)'
      BY <2>1, <2>2, <2>3 DEF In
    <3> QED
      BY <2>1, <2>2, <3>1, NobodyInside, RecordBegins
  <2>4. CASE i # id[t]
    <3>1. ~In(i, RECORDING \cup RESETTING, t) /\ ~In(i, RECORDING \cup RESETTING, t)'
      BY <2>1, <2>2, <2>4 DEF In
    <3> QED
      BY <2>1, <2>2, <3>1, TrackerFrame
  <2> QED
    BY <2>3, <2>4
<1>3. CASE Record(t)
  <2>1. mixed' = mixed
    BY <1>3 DEF Record
  <2>2. mpc[t] \in RECORDING /\ id[t] \in Trackers
    <3>1. mpc[t] \in RECORDING
      BY <1>3 DEF Record, RecordAdd, RecordLoad, RecordMin, RecordMax, RECORDING
    <3> QED
      BY <1>a, <1>b, <3>1
  <2>3. CASE i = id[t]
    BY <1>3, <2>1, <2>3, RecordSelf
  <2>4. CASE i # id[t]
    <3>1. Others(t) /\ (mpc'[t] = "idle" \/ id'[t] = id[t])
      <4>1. \E l : mpc' = [mpc EXCEPT ![t] = l]
        <5>1. UNCHANGED mpc => mpc' = [mpc EXCEPT ![t] = mpc[t]]
          BY <1>a
        <5> QED
          BY <1>3, <5>1 DEF Record, RecordAdd, RecordLoad, RecordMin, RecordMax, StepTo
      <4>2. \A u \in Recorders \ {t} : cur'[u] = cur[u]
        BY <1>3, <1>a DEF Record, RecordAdd, RecordLoad, RecordMin, RecordMax
      <4>3. id' = Local(id, t) /\ value' = Local(value, t)
        BY <1>3 DEF Record
      <4> QED
        BY <1>a, <4>1, <4>2, <4>3 DEF Others, Local
    <3>2. trk'[i] = trk[i] /\ ref'[i] = ref[i]
      BY <1>3, <1>a, <2>2, <2>4 DEF Record, RecordAdd, RecordLoad, RecordMin, RecordMax
    <3>3. ~In(i, RECORDING \cup RESETTING, t) /\ ~In(i, RECORDING \cup RESETTING, t)'
      BY <2>4, <3>1 DEF In, RECORDING, RESETTING
    <3> QED
      BY <2>1, <3>1, <3>2, <3>3, TrackerFrame
  <2> QED
    BY <2>3, <2>4
<1>4. CASE LatencyReset(t)
  <2>1. PICK j \in DOMAIN names : BeginReset(t, j)
    BY <1>4 DEF LatencyReset
  <2>2. mpc[t] = "idle" /\ UNCHANGED <<trk, ref, value, cur>> /\ j \in Trackers
    BY <1>4, <1>b DEF LatencyReset, Begin
  <2> QED
    BY <2>1, <2>2, TrackerBeginReset
<1>h. ASSUME BeginHistReset(t), UNCHANGED <<value, cur>>, mpc[t] = "idle", UNCHANGED <<trk, ref>>
      PROVE  TrackerInv(i)'
  <2>1. /\ mpc' = [mpc EXCEPT ![t] = "hrbuckets"] /\ id' = [id EXCEPT ![t] = 0]
        /\ i \notin mixed
    BY <1>h DEF BeginHistReset, StepTo, Trackers
  <2>2. Others(t) /\ mpc'[t] = "hrbuckets"
    BY <1>a, <1>h, <2>1 DEF Others
  <2> QED
    BY <1>h, <2>1, <2>2, TrackerElsewhere DEF RECORDING, RESETTING
<1>5. CASE ResetAll(t)
  <2>1. mpc[t] = "idle" /\ UNCHANGED <<trk, ref, value, cur>>
    BY <1>5 DEF ResetAll, Begin
  <2>2. CASE names = << >>
    BY <1>5, <1>h, <2>1, <2>2 DEF ResetAll
  <2>3. CASE names # << >>
    <3>1. BeginReset(t, 1) /\ 1 \in Trackers
      BY <1>5, <1>b, <2>3, MetricsAssumption DEF ResetAll, Trackers, MetricsTypes
    <3> QED
      BY <2>1, <3>1, TrackerBeginReset
  <2> QED
    BY <2>2, <2>3
<1>6. CASE ResetStep(t)
  <2>a. mpc[t] \in RESETTING /\ id[t] \in Trackers /\ id[t] \in DOMAIN names
    <3>1. mpc[t] \in RESETTING
      BY <1>6 DEF ResetStep, RESETTING
    <3> QED
      BY <1>a, <1>b, <3>1
  <2>b. UNCHANGED <<value, cur>> /\ trk[i] \in TrackerRecord /\ trk[id[t]] \in TrackerRecord
    BY <1>6, <1>a, <2>a DEF ResetStep
  <2>1. ASSUME NEW f \in {"count", "total", "min"}, NEW l \in RESETTING, ResetStore(t, f, l),
               mpc[t] # "rmax",
               \/ mpc[t] = "rcount" /\ l = "rtotal" /\ f = "count"
               \/ mpc[t] = "rtotal" /\ l = "rmin" /\ f = "total"
               \/ mpc[t] = "rmin" /\ l = "rmax" /\ f = "min"
        PROVE  TrackerInv(i)'
    <3>1. /\ mpc' = [mpc EXCEPT ![t] = l] /\ id' = Local(id, t) /\ i \notin mixed
          /\ trk' = [trk EXCEPT ![id[t]][f] = Fresh[f]] /\ ref' = ref
      BY <1>6, <2>1 DEF ResetStore, StepTo, ResetStep
    <3>2. Others(t) /\ mpc'[t] = l /\ id'[t] = id[t]
      BY <1>a, <2>b, <3>1 DEF Others, Local, RESETTING
    <3>3. CASE i = id[t]
      <4>1. trk'[i] = [trk[i] EXCEPT ![f] = Fresh[f]]
        BY <1>a, <3>1, <3>3
      <4>2. /\ mpc[t] = "rcount" => trk'[i].count = 0
            /\ mpc[t] = "rtotal" => trk'[i].count = trk[i].count /\ trk'[i].total = 0
            /\ mpc[t] = "rmin" => /\ trk'[i].count = trk[i].count
                                  /\ trk'[i].total = trk[i].total /\ trk'[i].min = UINT64_MAX
        BY <2>1, <2>b, <4>1 DEF TrackerRecord, Fresh
      <4>3. In(i, RESETTING, t)
        BY <2>a, <3>3 DEF In
      <4> QED
        BY <2>1, <3>1, <3>2, <4>2, <4>3, ResetGoesOn
    <3>4. CASE i # id[t]
      <4>1. trk'[i] = trk[i] /\ ref'[i] = ref[i]
        BY <1>a, <3>1, <3>4
      <4>2. ~In(i, RECORDING \cup RESETTING, t) /\ ~In(i, RECORDING \cup RESETTING, t)'
        BY <3>2, <3>4 DEF In
      <4> QED
        BY <3>1, <3>2, <4>1, <4>2, TrackerFrame
    <3> QED
      BY <3>3, <3>4
  <2>2. ASSUME mpc[t] = "rmax", Others(t), mpc'[t] \notin RECORDING \cup RESETTING, i \notin mixed,
               trk' = [trk EXCEPT ![id[t]].max = 0], ref' = [ref EXCEPT ![id[t]] = Fresh]
        PROVE  TrackerInv(i)'
    <3>1. ~In(i, RECORDING \cup RESETTING, t)'
      BY <2>2 DEF In
    <3>2. CASE i = id[t]
      <4>1. trk'[i] = [trk[i] EXCEPT !.max = 0] /\ ref'[i] = Fresh /\ In(i, {"rmax"}, t)
        BY <1>a, <2>2, <3>2 DEF In
      <4>2. /\ trk'[i].count = trk[i].count /\ trk'[i].total = trk[i].total
            /\ trk'[i].min = trk[i].min /\ trk'[i].max = 0
        BY <2>b, <4>1 DEF TrackerRecord
      <4> QED
        BY <2>2, <3>1, <4>1, <4>2, ResetEnds
    <3>3. CASE i # id[t]
      <4>1. trk'[i] = trk[i] /\ ref'[i] = ref[i] /\ ~In(i, RECORDING \cup RESETTING, t)
        BY <1>a, <2>2, <3>3 DEF In
      <4> QED
        BY <2>2, <3>1, <4>1, TrackerFrame
    <3> QED
      BY <3>2, <3>3
  <2>3. CASE mpc[t] = "rcount"
    BY <1>6, <2>1, <2>3 DEF ResetStep, RESETTING
  <2>4. CASE mpc[t] = "rtotal"
    BY <1>6, <2>1, <2>4 DEF ResetStep, RESETTING
  <2>5. CASE mpc[t] = "rmin"
    BY <1>6, <2>1, <2>5 DEF ResetStep, RESETTING
  <2>6. CASE mpc[t] = "rmax" /\ ~all[t]
    <3>1. ResetStore(t, "max", "idle") /\ ref' = [ref EXCEPT ![id[t]] = Fresh]
      BY <1>6, <2>6 DEF ResetStep
    <3>2. /\ trk' = [trk EXCEPT ![id[t]].max = 0] /\ i \notin mixed
          /\ mpc' = [mpc EXCEPT ![t] = "idle"] /\ id' = Local(id, t)
      BY <3>1 DEF ResetStore, StepTo, Fresh
    <3>3. Others(t) /\ mpc'[t] = "idle"
      BY <1>a, <2>b, <3>2 DEF Others, Local
    <3> QED
      BY <2>2, <2>6, <3>1, <3>2, <3>3 DEF RECORDING, RESETTING
  <2>7. CASE mpc[t] = "rmax" /\ all[t]
    <3>1. /\ trk' = [trk EXCEPT ![id[t]].max = 0] /\ ref' = [ref EXCEPT ![id[t]] = Fresh]
          /\ IF id[t] < Len(names) THEN BeginReset(t, id[t] + 1) ELSE BeginHistReset(t)
      BY <1>6, <2>7 DEF ResetStep
    <3>2. CASE id[t] < Len(names)
      <4>1. BeginReset(t, id[t] + 1)
        BY <3>1, <3>2
      <4>2. PICK j \in Trackers : j = id[t] + 1
        BY <1>b, <2>a, <3>2
      <4>3. BeginReset(t, j) /\ id[t] # j
        BY <2>a, <4>1, <4>2 DEF Trackers
      <4> QED
        BY <2>7, <2>a, <2>b, <3>1, <4>3, TrackerBeginReset
    <3>3. CASE ~(id[t] < Len(names))
      <4>1. /\ mpc' = [mpc EXCEPT ![t] = "hrbuckets"] /\ id' = [id EXCEPT ![t] = 0]
            /\ i \notin mixed
        BY <3>1, <3>3 DEF BeginHistReset, StepTo, Trackers
      <4>2. Others(t) /\ mpc'[t] = "hrbuckets"
        BY <1>a, <2>b, <4>1 DEF Others
      <4> QED
        BY <2>2, <2>7, <3>1, <4>1, <4>2 DEF RECORDING, RESETTING
    <3> QED
      BY <3>2, <3>3
  <2> QED
    BY <2>a, <2>3, <2>4, <2>5, <2>6, <2>7 DEF RESETTING
<1>7. CASE Observe(t)
  <2>1. /\ mpc[t] = "idle" /\ mpc' = [mpc EXCEPT ![t] = "htotal"]
        /\ \E x \in Values : value' = [value EXCEPT ![t] = x]
        /\ UNCHANGED <<trk, ref, id, cur>> /\ i \notin mixed
    BY <1>7 DEF Observe, Begin, StepTo, Trackers
  <2>2. Others(t) /\ mpc'[t] = "htotal"
    BY <1>a, <2>1 DEF Others
  <2> QED
    BY <2>1, <2>2, TrackerElsewhere DEF RECORDING, RESETTING
<1>8. CASE ObserveTotal(t)
  <2>1. /\ mpc[t] = "htotal" /\ mpc' = [mpc EXCEPT ![t] = "idle"] /\ value' = Local(value, t)
        /\ UNCHANGED <<trk, ref, id, cur, mixed>>
    BY <1>8 DEF ObserveTotal, StepTo, ghost
  <2>2. Others(t) /\ mpc'[t] = "idle"
    BY <1>a, <2>1 DEF Others, Local
  <2> QED
    BY <2>1, <2>2, TrackerElsewhere DEF RECORDING, RESETTING
<1>9. CASE HistogramReset(t)
  <2>1. mpc[t] = "idle" /\ UNCHANGED <<trk, ref, value, cur>> /\ BeginHistReset(t)
    BY <1>9 DEF HistogramReset, Begin
  <2> QED
    BY <1>h, <2>1
<1>10. CASE HistogramResetStep(t)
  <2>1. /\ mpc[t] \in {"hrbuckets", "hrtotal"}
        /\ \E l \in {"hrtotal", "idle"} : mpc' = [mpc EXCEPT ![t] = l]
        /\ UNCHANGED <<trk, ref, id, value, cur, mixed>>
    BY <1>10 DEF HistogramResetStep, StepTo
  <2>2. Others(t) /\ mpc'[t] \in {"hrtotal", "idle"}
    BY <1>a, <2>1 DEF Others
  <2> QED
    BY <2>1, <2>2, TrackerElsewhere DEF RECORDING, RESETTING
<1> QED
  BY <1>1, <1>2, <1>3, <1>4, <1>5, <1>6, <1>7, <1>8, <1>9, <1>10 DEF Next1

-----------------------------------------------------------------------------
(* The histogram. *)
HPlaces == OBSERVING \cup HRESETTING

LEMMA ObserversChange ==
    ASSUME MetricsTypes, NEW t \in Recorders, \A u \in Recorders \ {t} : mpc'[u] = mpc[u]
    PROVE  /\ Sum(Observers) \in Int
           /\ Sum(Observers)' = Sum(Observers) - (IF mpc[t] = "htotal" THEN 1 ELSE 0)
                                              + (IF mpc'[t] = "htotal" THEN 1 ELSE 0)
<1>1. /\ Observers \in [Recorders -> Int] /\ Observers' \in [Recorders -> Int]
      /\ \A u \in Recorders \ {t} : Observers'[u] = Observers[u]
      /\ Observers[t] = (IF mpc[t] = "htotal" THEN 1 ELSE 0)
      /\ Observers'[t] = (IF mpc'[t] = "htotal" THEN 1 ELSE 0)
  BY DEF Observers
<1>a. IsFiniteSet(Recorders)
  BY MetricsAssumption
<1>2. \A f, g \in [Recorders -> Int] :
         (\A u \in Recorders \ {t} : g[u] = f[u])
            => Sum(f) \in Int /\ Sum(g) = Sum(f) - f[t] + g[t]
  BY <1>a, SumChanged
<1>3. Sum(Observers)' = Sum(Observers')
  OBVIOUS
<1> QED
  BY <1>1, <1>2, <1>3

LEMMA BucketSums ==
    ASSUME MetricsTypes
    PROVE  /\ Sum(buckets) \in Int
           /\ \A b \in DOMAIN Boundaries :
                 buckets' = [buckets EXCEPT ![b] = buckets[b] + 1] => Sum(buckets)' = Sum(buckets) + 1
           /\ buckets' = [b \in DOMAIN Boundaries |-> 0] => Sum(buckets)' = 0
<1> DEFINE D == DOMAIN Boundaries
<1>1. IsFiniteSet(D)
  BY MetricsAssumption, FS_Interval
<1>2. buckets \in [D -> Nat] /\ buckets \in [D -> Int]
  BY DEF MetricsTypes
<1>3. Sum(buckets) \in Int
  BY <1>1, <1>2, SumInt
<1>4. ASSUME NEW b \in D, buckets' = [buckets EXCEPT ![b] = buckets[b] + 1]
      PROVE  Sum(buckets)' = Sum(buckets) + 1
  <2>1. \A f, g \in [D -> Int] :
           (\A c \in D \ {b} : g[c] = f[c]) => Sum(g) = Sum(f) - f[b] + g[b]
    BY <1>1, SumChanged
  <2>2. /\ buckets' \in [D -> Int] /\ buckets'[b] = buckets[b] + 1 /\ buckets[b] \in Int
        /\ \A c \in D \ {b} : buckets'[c] = buckets[c]
    BY <1>2, <1>4
  <2>3. Sum(buckets)' = Sum(buckets')
    OBVIOUS
  <2> QED
    BY <1>2, <1>3, <2>1, <2>2, <2>3
<1>5. ASSUME buckets' = [b \in D |-> 0] PROVE Sum(buckets)' = 0
  <2>1. \A f : DOMAIN f = D /\ (\A b \in D : f[b] = 0) => Sum(f) = 0
    BY <1>1, SumOfZeros
  <2>2. DOMAIN buckets' = D /\ \A b \in D : buckets'[b] = 0
    BY <1>5
  <2>3. Sum(buckets)' = Sum(buckets')
    OBVIOUS
  <2> QED
    BY <2>1, <2>2, <2>3
<1> QED
  BY <1>3, <1>4, <1>5

(* Steps that are not about the histogram. *)
LEMMA HistFrame ==
    ASSUME MetricsTypes, NEW t \in Recorders, \A u \in Recorders \ {t} : mpc'[u] = mpc[u],
           mpc[t] \notin HPlaces, mpc'[t] \notin HPlaces, HistInv,
           UNCHANGED <<buckets, hcount, beyond>>
    PROVE  HistInv'
<1>1. Sum(Observers)' = Sum(Observers) /\ Sum(buckets)' = Sum(buckets)
  <2>1. Observers' = Observers
    BY DEF Observers, HPlaces, OBSERVING
  <2> QED
    BY <2>1
<1>2. \A u \in Recorders : mpc'[u] \in HPlaces \/ mpc[u] \in HPlaces => mpc'[u] = mpc[u]
  OBVIOUS
<1> QED
  BY <1>1, <1>2 DEF HistInv, HPlaces

(* The beginning of a reset of it. *)
LEMMA HistBeginReset ==
    ASSUME MetricsTypes, NEW t \in Recorders, BeginHistReset(t), mpc[t] \notin HPlaces, 0 \notin mixed'
    PROVE  HistInv'
<1>1. mpc' = [mpc EXCEPT ![t] = "hrbuckets"] /\ Inside(0, OBSERVING \cup HRESETTING) = {}
  BY DEF BeginHistReset, StepTo
<1>2. \A u \in Recorders : mpc[u] \notin OBSERVING \cup HRESETTING
  BY <1>1 DEF Inside
<1>3. mpc'[t] = "hrbuckets" /\ \A u \in Recorders \ {t} : mpc'[u] = mpc[u]
  BY <1>1 DEF MetricsTypes
<1> QED
  BY <1>2, <1>3 DEF HistInv, HRESETTING

LEMMA BeginResetFrame ==
    ASSUME MetricsTypes, NEW t \in Recorders, NEW j \in Trackers, BeginReset(t, j),
           mpc[t] \notin HPlaces, 0 \notin mixed', 0 \notin mixed => HistInv,
           UNCHANGED <<buckets, hcount, beyond>>
    PROVE  HistInv'
<1>1. mpc' = [mpc EXCEPT ![t] = "rcount"] /\ 0 \notin mixed
  BY DEF BeginReset, StepTo, Trackers
<1>2. mpc'[t] = "rcount" /\ \A u \in Recorders \ {t} : mpc'[u] = mpc[u]
  BY <1>1 DEF MetricsTypes
<1> QED
  BY <1>1, <1>2, HistFrame DEF HPlaces, OBSERVING, HRESETTING

LEMMA HistStep ==
    ASSUME MetricsTypes, NEW t \in Recorders, Next1(t), 0 \notin mixed', 0 \notin mixed => HistInv
    PROVE  HistInv'
<1>a. /\ mpc \in [Recorders -> MPlaces] /\ hcount \in Nat /\ beyond \in Nat
      /\ \A u \in Recorders : mpc[u] \in {"timer"} \cup RECORDING \cup RESETTING => id[u] \in DOMAIN names
  BY DEF MetricsTypes
<1>b. DOMAIN names \subseteq Trackers /\ DOMAIN names = 1..Len(names) /\ Len(names) \in Nat
      /\ Len(names) <= MaxLatencies /\ 0 \notin Trackers
  BY MetricsAssumption DEF MetricsTypes, Trackers
<1>c. ASSUME NEW l, l \notin HPlaces, mpc' = [mpc EXCEPT ![t] = l], mpc[t] \notin HPlaces,
             0 \notin mixed, UNCHANGED <<buckets, hcount, beyond>>
      PROVE  HistInv'
  <2>1. mpc'[t] = l /\ \A u \in Recorders \ {t} : mpc'[u] = mpc[u]
    BY <1>a, <1>c
  <2> QED
    BY <1>c, <2>1, HistFrame
<1>1. CASE PerfTimerStart(t)
  <2>1. PICK l \in {"idle", "timer"} : mpc' = [mpc EXCEPT ![t] = l]
    BY <1>1 DEF PerfTimerStart, StepTo
  <2>2. l \notin HPlaces
    BY DEF HPlaces, OBSERVING, HRESETTING
  <2> QED
    BY <1>1, <1>c, <2>1, <2>2 DEF PerfTimerStart, Begin, ghost, hist, HPlaces, OBSERVING, HRESETTING
<1>2. CASE PerfTimerEnd(t)
  <2>1. mpc' = [mpc EXCEPT ![t] = "count"] /\ mpc[t] \notin HPlaces /\ "count" \notin HPlaces
        /\ UNCHANGED <<buckets, hcount, beyond>> /\ 0 \notin mixed
    BY <1>2 DEF PerfTimerEnd, StepTo, hist, HPlaces, OBSERVING, HRESETTING
  <2> QED
    BY <1>c, <2>1
<1>3. CASE Record(t)
  <2>1. PICK l \in {"idle"} \cup RECORDING : mpc' = [mpc EXCEPT ![t] = l]
    <3>1. UNCHANGED mpc => mpc' = [mpc EXCEPT ![t] = mpc[t]]
      BY <1>a
    <3> QED
      BY <1>3, <3>1 DEF Record, RecordAdd, RecordLoad, RecordMin, RecordMax, RECORDING, StepTo
  <2>2. mpc[t] \notin HPlaces /\ l \notin HPlaces
    BY <1>3 DEF Record, RecordAdd, RecordLoad, RecordMin, RecordMax, RECORDING, HPlaces, OBSERVING,
                HRESETTING
  <2>3. UNCHANGED <<buckets, hcount, beyond, mixed>>
    BY <1>3 DEF Record, hist
  <2> QED
    BY <1>c, <2>1, <2>2, <2>3
<1>4. CASE LatencyReset(t)
  <2>1. PICK j \in DOMAIN names : BeginReset(t, j)
    BY <1>4 DEF LatencyReset
  <2>2. mpc[t] \notin HPlaces /\ UNCHANGED <<buckets, hcount, beyond>> /\ j \in Trackers
    BY <1>4, <1>b DEF LatencyReset, Begin, hist, HPlaces, OBSERVING, HRESETTING
  <2> QED
    BY <2>1, <2>2, BeginResetFrame
<1>5. CASE ResetAll(t)
  <2>1. mpc[t] \notin HPlaces /\ UNCHANGED <<buckets, hcount, beyond>>
    BY <1>5 DEF ResetAll, Begin, hist, HPlaces, OBSERVING, HRESETTING
  <2>2. CASE names = << >>
    BY <1>5, <2>1, <2>2, HistBeginReset DEF ResetAll
  <2>3. CASE names # << >>
    <3>1. BeginReset(t, 1) /\ 1 \in Trackers
      BY <1>5, <1>b, <2>3, MetricsAssumption DEF ResetAll, Trackers, MetricsTypes
    <3> QED
      BY <2>1, <3>1, BeginResetFrame
  <2> QED
    BY <2>2, <2>3
<1>6. CASE ResetStep(t)
  <2>1. /\ mpc[t] \in RESETTING /\ id[t] \in DOMAIN names /\ mpc[t] \notin HPlaces
        /\ UNCHANGED <<buckets, hcount, beyond>>
    BY <1>6, <1>a DEF ResetStep, hist, RESETTING, HPlaces, OBSERVING, HRESETTING
  <2>2. CASE \E l \in RESETTING \cup {"idle"}, f \in {"count", "total", "min", "max"} :
                ResetStore(t, f, l)
    <3>1. PICK l \in RESETTING \cup {"idle"} : mpc' = [mpc EXCEPT ![t] = l] /\ UNCHANGED mixed
      BY <2>2 DEF ResetStore, StepTo
    <3>2. l \notin HPlaces
      BY <3>1 DEF RESETTING, HPlaces, OBSERVING, HRESETTING
    <3> QED
      BY <1>c, <2>1, <3>1, <3>2
  <2>3. CASE IF id[t] < Len(names) THEN BeginReset(t, id[t] + 1) ELSE BeginHistReset(t)
    <3>1. CASE id[t] < Len(names)
      <4>1. PICK j \in Trackers : j = id[t] + 1
        BY <1>b, <2>1, <3>1
      <4>2. BeginReset(t, j)
        BY <2>3, <3>1, <4>1
      <4> QED
        BY <2>1, <4>2, BeginResetFrame
    <3>2. CASE ~(id[t] < Len(names))
      BY <2>1, <2>3, <3>2, HistBeginReset
    <3> QED
      BY <3>1, <3>2
  <2> QED
    BY <1>6, <2>2, <2>3 DEF ResetStep, RESETTING
<1>7. CASE Observe(t)
  <2>1. PICK x \in Values :
          /\ mpc' = [mpc EXCEPT ![t] = "htotal"]
          /\ buckets' = IF BucketOf(x) = 0 THEN buckets ELSE [buckets EXCEPT ![BucketOf(x)] = @ + 1]
          /\ beyond' = IF BucketOf(x) = 0 THEN beyond + 1 ELSE beyond
    BY <1>7 DEF Observe, StepTo
  <2>2. /\ mpc[t] = "idle" /\ hcount' = hcount /\ 0 \notin mixed /\ Inside(0, HRESETTING) = {}
    BY <1>7 DEF Observe, Begin
  <2>3. \A u \in Recorders : mpc[u] \notin HRESETTING
    BY <2>2 DEF Inside
  <2>4. mpc'[t] = "htotal" /\ \A u \in Recorders \ {t} : mpc'[u] = mpc[u]
    BY <1>a, <2>1
  <2>5. Sum(Observers) \in Int /\ Sum(Observers)' = Sum(Observers) + 1
    <3>1. /\ Sum(Observers) \in Int
          /\ Sum(Observers)' = Sum(Observers) - (IF mpc[t] = "htotal" THEN 1 ELSE 0)
                                              + (IF mpc'[t] = "htotal" THEN 1 ELSE 0)
      BY <2>4, ObserversChange
    <3> QED
      BY <2>2, <2>4, <3>1
  <2>6. Sum(buckets)' + beyond' = Sum(buckets) + beyond + 1
    <3>1. BucketOf(x) \in DOMAIN Boundaries \cup {0} /\ Sum(buckets) \in Int
      BY Bucket, BucketSums
    <3>2. CASE BucketOf(x) = 0
      <4>1. Sum(buckets)' = Sum(buckets)
        BY <2>1, <3>2
      <4> QED
        BY <1>a, <2>1, <3>1, <3>2, <4>1
    <3>3. CASE BucketOf(x) # 0
      <4>1. PICK b \in DOMAIN Boundaries : b = BucketOf(x)
        BY <3>1, <3>3
      <4>2. buckets' = [buckets EXCEPT ![b] = buckets[b] + 1]
        BY <2>1, <3>3, <4>1
      <4>3. Sum(buckets)' = Sum(buckets) + 1
        BY <4>2, BucketSums
      <4> QED
        BY <1>a, <2>1, <3>1, <3>3, <4>3
    <3> QED
      BY <3>2, <3>3
  <2>7. hcount + Sum(Observers) = Sum(buckets) + beyond
    BY <2>2, <2>3 DEF HistInv
  <2>8. \A u \in Recorders : mpc'[u] \notin HRESETTING
    BY <2>3, <2>4 DEF HRESETTING
  <2>9. hcount' + Sum(Observers)' = Sum(buckets)' + beyond'
    BY <1>a, <2>2, <2>5, <2>6, <2>7, BucketSums
  <2> QED
    BY <2>8, <2>9 DEF HistInv
<1>8. CASE ObserveTotal(t)
  <2>1. /\ mpc[t] = "htotal" /\ mpc' = [mpc EXCEPT ![t] = "idle"] /\ hcount' = hcount + 1
        /\ UNCHANGED <<buckets, beyond, mixed>>
    BY <1>8 DEF ObserveTotal, StepTo, ghost
  <2>2. mpc'[t] = "idle" /\ \A u \in Recorders \ {t} : mpc'[u] = mpc[u]
    BY <1>a, <2>1
  <2>3. Sum(Observers) \in Int /\ Sum(Observers)' = Sum(Observers) - 1
    <3>1. /\ Sum(Observers) \in Int
          /\ Sum(Observers)' = Sum(Observers) - (IF mpc[t] = "htotal" THEN 1 ELSE 0)
                                              + (IF mpc'[t] = "htotal" THEN 1 ELSE 0)
      BY <2>2, ObserversChange
    <3> QED
      BY <2>1, <2>2, <3>1
  <2>4. /\ \A u \in Recorders : mpc[u] \notin HRESETTING
        /\ hcount + Sum(Observers) = Sum(buckets) + beyond
    BY <2>1 DEF HistInv, OBSERVING, HRESETTING
  <2>5. Sum(buckets)' = Sum(buckets)
    BY <2>1
  <2>6. hcount' + Sum(Observers)' = Sum(buckets)' + beyond'
    BY <1>a, <2>1, <2>3, <2>4, <2>5, BucketSums
  <2>7. \A u \in Recorders : mpc'[u] \notin HRESETTING
    BY <2>2, <2>4 DEF HRESETTING
  <2> QED
    BY <2>6, <2>7 DEF HistInv
<1>9. CASE HistogramReset(t)
  <2>1. mpc[t] \notin HPlaces /\ BeginHistReset(t)
    BY <1>9 DEF HistogramReset, Begin, HPlaces, OBSERVING, HRESETTING
  <2> QED
    BY <2>1, HistBeginReset
<1>10. CASE HistogramResetStep(t)
  <2>1. mpc[t] \in HRESETTING /\ 0 \notin mixed
    BY <1>10 DEF HistogramResetStep, HRESETTING
  <2>2. /\ \A u \in Recorders : mpc[u] \in OBSERVING \cup HRESETTING => u = t
        /\ mpc[t] = "hrtotal" => Sum(buckets) + beyond = 0
    BY <2>1 DEF HistInv
  <2>3. CASE /\ mpc[t] = "hrbuckets" /\ mpc' = [mpc EXCEPT ![t] = "hrtotal"]
             /\ buckets' = [b \in DOMAIN Boundaries |-> 0] /\ beyond' = 0
    <3>1. mpc'[t] = "hrtotal" /\ \A u \in Recorders \ {t} : mpc'[u] = mpc[u]
      BY <1>a, <2>3
    <3>2. Sum(buckets)' = 0
      BY <2>3, BucketSums
    <3>3. Sum(buckets)' + beyond' = 0
      BY <2>3, <3>2
    <3> QED
      BY <2>2, <3>1, <3>3 DEF HistInv, HRESETTING
  <2>4. CASE /\ mpc[t] = "hrtotal" /\ mpc' = [mpc EXCEPT ![t] = "idle"]
             /\ hcount' = 0 /\ UNCHANGED <<buckets, beyond>>
    <3>1. mpc'[t] = "idle" /\ \A u \in Recorders \ {t} : mpc'[u] = mpc[u]
      BY <1>a, <2>4
    <3>2. \A u \in Recorders : mpc'[u] \notin OBSERVING \cup HRESETTING
      BY <2>2, <3>1 DEF OBSERVING, HRESETTING
    <3>3. Sum(Observers)' = 0
      <4>1. \A f : DOMAIN f = Recorders /\ (\A u \in Recorders : f[u] = 0) => Sum(f) = 0
        BY SumOfZeros, MetricsAssumption
      <4>2. DOMAIN Observers' = Recorders /\ \A u \in Recorders : Observers'[u] = 0
        BY <3>2 DEF Observers, OBSERVING
      <4>3. Sum(Observers)' = Sum(Observers')
        OBVIOUS
      <4> QED
        BY <4>1, <4>2, <4>3
    <3>4. Sum(buckets)' + beyond' = 0
      <4>1. Sum(buckets)' = Sum(buckets)
        BY <2>4
      <4> QED
        BY <2>2, <2>4, <4>1
    <3> QED
      BY <2>4, <3>2, <3>3, <3>4 DEF HistInv
  <2> QED
    BY <1>10, <2>3, <2>4 DEF HistogramResetStep, StepTo
<1> QED
  BY <1>1, <1>2, <1>3, <1>4, <1>5, <1>6, <1>7, <1>8, <1>9, <1>10 DEF Next1

-----------------------------------------------------------------------------
LEMMA MetricsInvNext == MetricsInv /\ [MetricsNext]_metricsVars => MetricsInv'
<1>1. ASSUME MetricsInv, NEW t \in Recorders, Next1(t) PROVE MetricsInv'
  <2>1. MetricsTypes' /\ NamesApart'
    BY <1>1, MetricsTypesStep DEF MetricsInv
  <2>2. ASSUME NEW i \in Trackers, i \notin mixed' PROVE TrackerInv(i)'
    BY <1>1, <2>1, <2>2, TrackerStep DEF MetricsInv
  <2>3. 0 \notin mixed' => HistInv'
    BY <1>1, HistStep DEF MetricsInv
  <2> QED
    BY <2>1, <2>2, <2>3 DEF MetricsInv
<1>2. ASSUME MetricsInv, UNCHANGED metricsVars PROVE MetricsInv'
  <2>1. MetricsTypes' /\ NamesApart' /\ mixed' = mixed
    BY <1>2 DEF MetricsInv, metricsVars, MetricsTypes, NamesApart
  <2>2. HistInv => HistInv'
    <3>1. Observers' = Observers
      BY <1>2 DEF Observers, metricsVars
    <3>2. Sum(Observers)' = Sum(Observers) /\ Sum(buckets)' = Sum(buckets)
      BY <1>2, <3>1 DEF metricsVars
    <3> QED
      BY <1>2, <3>2 DEF HistInv, metricsVars
  <2>3. ASSUME NEW i \in Trackers, TrackerInv(i) PROVE TrackerInv(i)'
    <3>1. \A u \in Recorders : \A L : In(i, L, u)' <=> In(i, L, u)
      BY <1>2 DEF In, metricsVars
    <3>2. CountsOf(i)' = CountsOf(i) /\ TotalsOf(i)' = TotalsOf(i)
      BY <1>2 DEF CountsOf, TotalsOf, In, metricsVars
    <3>3. Sum(CountsOf(i))' = Sum(CountsOf(i)) /\ Sum(TotalsOf(i))' = Sum(TotalsOf(i))
      BY <3>2
    <3>4. Recording(i)' <=> Recording(i)
      BY <1>2, <3>1, <3>3 DEF Recording, metricsVars
    <3>5. \A u \in Recorders : Resetting(i, u)' <=> Resetting(i, u)
      BY <1>2, <3>1 DEF Resetting, metricsVars
    <3> QED
      BY <2>3, <3>1, <3>4, <3>5 DEF TrackerInv
  <2> QED
    BY <1>2, <2>1, <2>2, <2>3 DEF MetricsInv
<1> QED
  BY <1>1, <1>2 DEF MetricsNext, Next1

-----------------------------------------------------------------------------
(* Whatever the interleaving of metrics_latency_record's atomic operations, *)
(* a tracker that nobody is inside of holds the number, the sum, the least  *)
(* and the greatest of what was recorded since its last reset, unless a     *)
(* reset overlapped a recording; and names of the table that were not cut   *)
(* are different.                                                           *)
THEOREM TrackersExact == MetricsSpec => []TrackerExact
<1>1. MetricsInv => TrackerExact
  <2> SUFFICES ASSUME MetricsInv PROVE TrackerExact
    OBVIOUS
  <2>1. MetricsTypes
    BY DEF MetricsInv
  <2>2. ASSUME NEW i \in Trackers \ mixed, Inside(i, RECORDING \cup RESETTING) = {}
        PROVE  trk[i] = ref[i]
    <3>1. \A u \in Recorders : ~In(i, RECORDING \cup RESETTING, u)
      BY <2>2, NobodyInside
    <3>2. \A u \in Recorders : /\ ~In(i, RESETTING, u) /\ ~In(i, COUNTED, u)
                               /\ ~In(i, TOTALLED, u) /\ ~In(i, MINNED, u)
      BY <3>1 DEF In, COUNTED, TOTALLED, MINNED, RECORDING
    <3>3. Recording(i)
      BY <2>2, <3>2 DEF MetricsInv, TrackerInv, Resetting
    <3>4. Sum(CountsOf(i)) = 0 /\ Sum(TotalsOf(i)) = 0
      <4>1. IsFiniteSet(Recorders)
        BY MetricsAssumption
      <4>2. /\ DOMAIN CountsOf(i) = Recorders /\ \A u \in Recorders : CountsOf(i)[u] = 0
            /\ DOMAIN TotalsOf(i) = Recorders /\ \A u \in Recorders : TotalsOf(i)[u] = 0
        BY <3>2 DEF CountsOf, TotalsOf
      <4> QED
        BY <4>1, <4>2, SumOfZeros
    <3>5. trk[i] \in TrackerRecord /\ ref[i] \in TrackerRecord
      BY <2>1, <2>2 DEF MetricsTypes
    <3>6. /\ trk[i].count = ref[i].count /\ trk[i].total = ref[i].total
          /\ trk[i].min = ref[i].min /\ trk[i].max = ref[i].max
      BY <3>2, <3>3, <3>4, <3>5 DEF Recording, TrackerRecord
    <3> QED
      BY <3>5, <3>6 DEF TrackerRecord
  <2>3. \A t \in Recorders : mpc[t] = "timer" => id[t] \in DOMAIN names
    BY <2>1 DEF MetricsTypes
  <2> QED
    BY <2>2, <2>3 DEF MetricsInv, NamesApart, TrackerExact
<1> QED
  BY <1>1, MetricsInvInit, MetricsInvNext, PTL DEF MetricsSpec

(* The callers between the two updates, counted and summed. *)
LEMMA ObserversCounted ==
    ASSUME MetricsTypes
    PROVE  Sum(Observers) = Cardinality(Inside(0, OBSERVING))
<1> DEFINE P == Inside(0, OBSERVING)
           g == [X \in SUBSET Recorders |-> Cardinality(X \cap P)]
<1>1. IsFiniteSet(Recorders)
  BY MetricsAssumption
<1>2. \A t \in Recorders : t \in P <=> mpc[t] = "htotal"
  BY DEF Inside, OBSERVING
<1>3. P \subseteq Recorders
  BY DEF Inside
<1> HIDE DEF P
<1>4. \A X \in SUBSET Recorders : IsFiniteSet(X \cap P) /\ Cardinality(X \cap P) \in Nat
  <2> SUFFICES ASSUME NEW X \in SUBSET Recorders
               PROVE  IsFiniteSet(X \cap P) /\ Cardinality(X \cap P) \in Nat
    OBVIOUS
  <2>1. X \cap P \subseteq Recorders
    OBVIOUS
  <2> QED
    BY <1>1, <2>1, FS_Subset, FS_CardinalityType
<1>5. ASSUME NEW X \in SUBSET Recorders, NEW x \in X
      PROVE  g[X] = Observers[x] + g[X \ {x}]
  <2>1. g[X] = Cardinality(X \cap P) /\ g[X \ {x}] = Cardinality((X \ {x}) \cap P)
    OBVIOUS
  <2>a. Cardinality(X \cap P) \in Nat /\ IsFiniteSet(X \cap P)
    BY <1>4
  <2> HIDE DEF g
  <2>2. CASE x \in P
    <3>1. (X \ {x}) \cap P = (X \cap P) \ {x} /\ x \in X \cap P
      BY <2>2
    <3>2. Cardinality((X \cap P) \ {x}) = Cardinality(X \cap P) - 1
      BY <2>a, <3>1, FS_RemoveElement
    <3>3. Observers[x] = 1
      BY <1>2, <2>2 DEF Observers
    <3>4. g[X] = Cardinality(X \cap P) /\ g[X \ {x}] = Cardinality(X \cap P) - 1
      BY <2>1, <3>1, <3>2
    <3> QED
      BY <2>a, <3>3, <3>4
  <2>3. CASE x \notin P
    <3>1. (X \ {x}) \cap P = X \cap P
      BY <2>3
    <3>2. Observers[x] = 0
      BY <1>2, <2>3 DEF Observers
    <3>3. g[X] = Cardinality(X \cap P) /\ g[X \ {x}] = Cardinality(X \cap P)
      BY <2>1, <3>1
    <3> QED
      BY <2>a, <3>2, <3>3
  <2> QED
    BY <2>2, <2>3
<1>6. g \in [SUBSET Recorders -> Int] /\ g[{}] = 0
  <2>1. {} \cap P = {} /\ Cardinality({}) = 0
    BY FS_EmptySet
  <2> QED
    BY <1>4, <2>1
<1>7. g[Recorders] = Cardinality(P)
  <2>1. Recorders \cap P = P
    BY <1>3
  <2> QED
    BY <2>1
<1> HIDE DEF g
<1>8. Additive(g, Observers, Recorders)
  BY <1>5, <1>6 DEF Additive
<1>9. Sum(Observers) = g[Recorders]
  BY <1>1, <1>8, SumIs DEF Observers
<1> QED
  BY <1>7, <1>9 DEF P

(* What metrics_histogram_get sees under the mutex is at most one           *)
(* observation short for each caller of metrics_histogram_observe that is   *)
(* between its two updates, however observations interleave, unless a reset *)
(* overlapped one.                                                          *)
THEOREM HistogramCounts == MetricsSpec => []HistogramSound
<1>1. MetricsInv => HistogramSound
  <2> SUFFICES ASSUME MetricsInv, Inside(0, HRESETTING) = {}, 0 \notin mixed
               PROVE  hcount + Cardinality(Inside(0, OBSERVING))
                        = MapThenSumSet(LAMBDA b : buckets[b], DOMAIN Boundaries) + beyond
    BY DEF HistogramSound
  <2>1. HistInv /\ MetricsTypes
    BY DEF MetricsInv
  <2>2. \A t \in Recorders : mpc[t] \notin HRESETTING
    BY DEF Inside
  <2>3. hcount + Sum(Observers) = Sum(buckets) + beyond
    BY <2>1, <2>2 DEF HistInv
  <2>4. Sum(Observers) = Cardinality(Inside(0, OBSERVING))
    BY <2>1, ObserversCounted
  <2>5. DOMAIN buckets = DOMAIN Boundaries
    BY <2>1 DEF MetricsTypes
  <2>6. MapThenSumSet(LAMBDA b : buckets[b], DOMAIN Boundaries) = Sum(buckets)
    BY <2>5, MapThenSumIsSum
  <2> QED
    BY <2>3, <2>4, <2>6
<1> QED
  BY <1>1, MetricsInvInit, MetricsInvNext, PTL DEF MetricsSpec
=============================================================================

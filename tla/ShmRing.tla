------------------------------ MODULE ShmRing ------------------------------
(***************************************************************************)
(* The ring of shared_memory.c in new_ProcessPool: slots in shared memory, *)
(* a process-shared mutex that is not robust, and two condition variables  *)
(* of which each call signals one waiter.                                  *)
(*                                                                         *)
(* Memory is an array of cells: a slot has SlotSize of them                *)
(* (MAX_TASK_DATA_SIZE), the first holds the size, the rest the data.  The *)
(* size check lets an item of SlotSize cells in, so that with its header   *)
(* it reaches one cell into the next slot.                                 *)
(*                                                                         *)
(* Everything below runs under the mutex, so a step ends where it matters  *)
(* to the others that a process dies, sleeps or leaves: the copy of an     *)
(* item, which nobody sees before its position is stored, is one step; the *)
(* store, the signal and the unlock are one each.  A process that dies     *)
(* takes no step any more and keeps what it had: the mutex, its place at a *)
(* condition variable.                                                     *)
(* shm_validate and shm_repair, which take no mutex, find positions below  *)
(* queue_size in every state (RingIntact) and so change nothing.           *)
(***************************************************************************)
EXTENDS Integers, Sequences, FiniteSets

CONSTANTS
    Producers, Consumers,   \* processes
    Items,                  \* what is sent
    ItemSize,               \* item -> data_size, in cells
    BufSize,                \* consumer -> *data_size of its buffer
    QueueSize,              \* shm->queue_size
    SlotSize,               \* MAX_TASK_DATA_SIZE, in cells
    MaxCrashes,             \* bound: processes that die
    NULL

ASSUME ShmRingAssumption ==
    /\ QueueSize \in Nat \ {0}
    /\ SlotSize \in Nat /\ SlotSize > 1
    /\ ItemSize \in [Items -> 1 .. SlotSize]
    /\ BufSize \in [Consumers -> Nat] /\ MaxCrashes \in Nat
    /\ Producers \cap Consumers = {}
    /\ IsFiniteSet(Producers) /\ IsFiniteSet(Consumers)
    /\ NULL \notin Items \cup Producers \cup Consumers

VARIABLES
    ppos, cpos,     \* producer_pos, consumer_pos
    cells,          \* the slots, and one cell behind the last
    mutex,          \* the process that holds shm->mutex, or NULL
    pc,
    item,           \* process -> item it sends, or has copied out
    mode,           \* process -> "wait" | "timed" | "try", the call it makes
    dead,           \* processes that died
    refused,        \* since the ring was last found empty, a buffer was too
                    \* small for the item while others slept
    handed          \* what the last successful dequeue returned

vars == <<ppos, cpos, cells, mutex, pc, item, mode, dead, refused, handed>>
ring == <<ppos, cpos, cells>>
call == <<item, mode>>
ghost == <<dead, refused, handed>>

Procs == Producers \cup Consumers
Cell == 0 .. QueueSize * SlotSize

(* shm_create, then worker_create sets queue_size. *)
Init ==
    /\ ppos = 0 /\ cpos = 0 /\ cells = [a \in Cell |-> NULL]
    /\ mutex = NULL /\ pc = [t \in Procs |-> "idle"]
    /\ item = [t \in Procs |-> NULL]
    /\ mode = [t \in Procs |-> "wait"]
    /\ dead = {} /\ refused = FALSE /\ handed = << >>

-----------------------------------------------------------------------------
NextPos(pos) == (pos + 1) % QueueSize

(* Slip: the ring is full when no slot at all is left. *)
IsFullLastSlot == ppos = cpos /\ cells[ppos * SlotSize] # NULL

(* shm_queue_is_full *)
IsFull == NextPos(ppos) = cpos

(* shm_queue_is_empty *)
IsEmpty == ppos = cpos

(* shm_queue_size *)
Size == IF ppos >= cpos THEN ppos - cpos ELSE QueueSize - cpos + ppos

Asleep(S) == {t \in S : pc[t] = "asleep"}

Goto(t, l) == pc' = [pc EXCEPT ![t] = l]

(* The mutex is taken: to test the ring, or after ETIMEDOUT to return -1.   *)
Lock(t) ==
    /\ mutex = NULL /\ mutex' = t
    /\ \/ pc[t] = "lock" /\ Goto(t, "test")
       \/ pc[t] = "timedout" /\ Goto(t, "unlock")
    /\ UNCHANGED <<ring, call, ghost>>

(* A full (empty) ring: the try form gives up, the other ones sleep. *)
GiveUpOrSleep(t) ==
    IF mode[t] = "try" THEN Goto(t, "unlock") /\ UNCHANGED mutex
                       ELSE Goto(t, "asleep") /\ mutex' = NULL

(* The wait returns without a signal. *)
SpuriousWake(t) ==
    /\ pc[t] = "asleep" /\ Goto(t, "lock")
    /\ UNCHANGED <<ring, mutex, call, ghost>>

(* pthread_cond_signal to the waiters in S: one gets up, if there is one.   *)
Signal(t, S) ==
    /\ pc[t] = "signal" /\ mutex = t
    /\ \/ Asleep(S) = {} /\ Goto(t, "unlock")
       \/ \E u \in Asleep(S) : pc' = [pc EXCEPT ![u] = "lock", ![t] = "unlock"]
    /\ UNCHANGED <<ring, mutex, call, ghost>>

(* The mutex is released, and the call returns. *)
Unlock(t) ==
    /\ pc[t] = "unlock" /\ mutex = t /\ mutex' = NULL /\ Goto(t, "idle")
    /\ mode' = [mode EXCEPT ![t] = "wait"] /\ item' = [item EXCEPT ![t] = NULL]
    /\ UNCHANGED <<ring, ghost>>

-----------------------------------------------------------------------------
(* Items in unread slots: the item is told by its first data cell. *)
SlotAt(i) == ((cpos + i) % QueueSize) * SlotSize
Contents == [i \in 1 .. Size |-> cells[SlotAt(i - 1) + 1]]

(* shm_queue_enqueue and shm_queue_try_enqueue are called (a trylock that   *)
(* fails changes nothing).                                                  *)
Enqueue(p) ==
    /\ pc[p] = "idle"
    /\ \E i \in Items : item' = [item EXCEPT ![p] = i]
    /\ \/ Goto(p, "lock") /\ UNCHANGED <<mode, mutex>>
       \/ /\ mutex = NULL /\ mutex' = p /\ Goto(p, "test")
          /\ mode' = [mode EXCEPT ![p] = "try"]
    /\ UNCHANGED <<ring, ghost>>

(* The test of the loop, and the slot is filled. *)
EnqueueWrite(p) ==
    /\ pc[p] = "test" /\ mutex = p
    /\ \/ IsFull /\ GiveUpOrSleep(p) /\ UNCHANGED cells
       \/ /\ ~IsFull /\ Goto(p, "publish") /\ UNCHANGED mutex
          /\ LET s == ppos * SlotSize  n == ItemSize[item[p]] IN
             cells' = [a \in Cell |-> IF a = s THEN n
                                      ELSE IF a \in s + 1 .. s + n THEN item[p]
                                      ELSE cells[a]]
    /\ UNCHANGED <<ppos, cpos, call, ghost>>

(* Slip: only the item that ends an empty ring is signalled. *)
EnqueuePublishQuiet(p) ==
    /\ pc[p] = "publish" /\ mutex = p
    /\ ppos' = NextPos(ppos) /\ Goto(p, IF IsEmpty THEN "signal" ELSE "unlock")
    /\ UNCHANGED <<cpos, cells, mutex, call, ghost>>

(* producer_pos is stored; a consumer is still to be signalled. *)
EnqueuePublish(p) ==
    /\ pc[p] = "publish" /\ mutex = p
    /\ ppos' = NextPos(ppos) /\ Goto(p, "signal")
    /\ UNCHANGED <<cpos, cells, mutex, call, ghost>>

-----------------------------------------------------------------------------
(* shm_queue_dequeue, with a timeout or without, and shm_queue_try_dequeue. *)
Dequeue(c) ==
    /\ pc[c] = "idle"
    /\ \/ /\ Goto(c, "lock") /\ UNCHANGED mutex
          /\ \E m \in {"wait", "timed"} : mode' = [mode EXCEPT ![c] = m]
       \/ /\ mutex = NULL /\ mutex' = c /\ Goto(c, "test")
          /\ mode' = [mode EXCEPT ![c] = "try"]
    /\ UNCHANGED <<ring, item, ghost>>

(* The test of the loop, and the data is copied; an item that is larger     *)
(* than the buffer stays, and whoever else sleeps is not told.              *)
DequeueRead(c) ==
    /\ pc[c] = "test" /\ mutex = c
    /\ \/ IsEmpty /\ GiveUpOrSleep(c) /\ refused' = FALSE /\ UNCHANGED item
       \/ /\ ~IsEmpty /\ cells[cpos * SlotSize] > BufSize[c] /\ Goto(c, "unlock")
          /\ refused' = (refused \/ Asleep(Consumers) # {}) /\ UNCHANGED <<mutex, item>>
       \/ /\ ~IsEmpty /\ cells[cpos * SlotSize] <= BufSize[c] /\ Goto(c, "publish")
          /\ item' = [item EXCEPT ![c] = cells[cpos * SlotSize + 1]]
          /\ UNCHANGED <<mutex, refused>>
    /\ UNCHANGED <<ring, mode, dead, handed>>

(* Slip: the position the producers have reached is stored. *)
DequeuePublishAll(c) ==
    /\ pc[c] = "publish" /\ mutex = c
    /\ cpos' = ppos /\ handed' = <<item[c]>> /\ Goto(c, "signal")
    /\ UNCHANGED <<ppos, cells, mutex, call, dead, refused>>

(* consumer_pos is stored; a producer is still to be signalled. *)
DequeuePublish(c) ==
    /\ pc[c] = "publish" /\ mutex = c
    /\ cpos' = NextPos(cpos) /\ handed' = <<item[c]>> /\ Goto(c, "signal")
    /\ UNCHANGED <<ppos, cells, mutex, call, dead, refused>>

(* ETIMEDOUT. *)
Timeout(c) ==
    /\ pc[c] = "asleep" /\ mode[c] = "timed" /\ Goto(c, "timedout")
    /\ UNCHANGED <<ring, mutex, call, ghost>>

(* A process dies, wherever it is. *)
Crash(t) ==
    /\ Cardinality(dead) < MaxCrashes /\ dead' = dead \cup {t}
    /\ UNCHANGED <<ring, mutex, pc, call, refused, handed>>

-----------------------------------------------------------------------------
ProducerStep(p) ==
    \/ Lock(p) \/ Enqueue(p) \/ EnqueueWrite(p) \/ EnqueuePublish(p)
    \/ Signal(p, Consumers) \/ Unlock(p) \/ SpuriousWake(p)
ConsumerStep(c) ==
    \/ Lock(c) \/ Dequeue(c) \/ DequeueRead(c) \/ DequeuePublish(c)
    \/ Signal(c, Producers) \/ Unlock(c) \/ SpuriousWake(c) \/ Timeout(c)

Next ==
    \/ \E p \in Producers \ dead : ProducerStep(p)
    \/ \E c \in Consumers \ dead : ConsumerStep(c)
    \/ \E t \in Procs \ dead : Crash(t)

Spec == Init /\ [][Next]_vars

-----------------------------------------------------------------------------
Places == {"idle", "lock", "test", "publish", "signal", "unlock", "asleep", "timedout"}
Critical == {"test", "publish", "signal", "unlock"}

TypeOK ==
    /\ ppos \in 0 .. QueueSize - 1 /\ cpos \in 0 .. QueueSize - 1
    /\ cells \in [Cell -> Items \cup 1 .. SlotSize \cup {NULL}]
    /\ mutex \in Procs \cup {NULL}
    /\ pc \in [Procs -> Places]
    /\ item \in [Procs -> Items \cup {NULL}]
    /\ mode \in [Procs -> {"wait", "timed", "try"}]
    /\ dead \subseteq Procs /\ refused \in BOOLEAN

(* An unread slot holds the size and the data of the item that was sent,    *)
(* whoever dies at whatever point of a critical section, with one exception *)
(* the code has: the last cell of an item of MAX_TASK_DATA_SIZE is the      *)
(* header of the slot behind it, and gone once that one is written.         *)
(* (shm_queue_enqueue)                                                       *)
RingIntact ==
    /\ TypeOK
    /\ \A t \in Procs : pc[t] \in Critical <=> mutex = t
    /\ \A i \in 1 .. Size : LET s == SlotAt(i - 1)  n == cells[s] IN
        /\ n = ItemSize[cells[s + 1]]
        /\ \A a \in s + 1 .. s + n :
             \/ cells[a] = Contents[i]
             \/ /\ n = SlotSize /\ a = s + n /\ a # QueueSize * SlotSize
                /\ i < Size \/ \E p \in Producers : pc[p] = "publish"

(* What the ring promises: a first-in first-out queue of queue_size - 1     *)
(* items for any number of producers and consumers, in which an item enters *)
(* when producer_pos is stored and leaves when consumer_pos is, also when   *)
(* the process that does it dies just before or after.                      *)
FIFO == INSTANCE TaskFIFO
          WITH Task <- Items, Bound <- QueueSize - 1, MaxBatch <- 1,
               q <- Contents
ImplementsFIFO == FIFO!Spec

(* No wake-up is lost: while a consumer sleeps, there are no more unread    *)
(* items than consumers on their way to take one and signals still to be    *)
(* given, and while a producer sleeps no more free slots than producers on  *)
(* their way and signals to come; exceptions are the two the code has, a    *)
(* signal that went to a process that died, or was not given because of its *)
(* death, and one to a process whose buffer was too small.  (the signal of  *)
(* one waiter per call)                                                     *)
Coming(S) ==
    {t \in S : pc[t] \in {"lock", "test", "publish"}}
      \cup {t \in Procs \ S : pc[t] = "signal"}
NoLostWakeup ==
    dead = {} =>
        /\ Asleep(Consumers) # {} /\ ~refused =>
             Size <= Cardinality(Coming(Consumers))
        /\ Asleep(Producers) # {} =>
             QueueSize - 1 - Size <= Cardinality(Coming(Producers))
============================================================================

---------------------------- MODULE LockfreeQueue ---------------------------
(***************************************************************************)
(* new_ProcessPool/src/core/lockfree_queue.c: the single-producer          *)
(* single-consumer ring of task pointers.  Every access to shared memory   *)
(* (a load of head or tail, a write, a read or the clearing of a slot, a   *)
(* store of head or tail) is a step of its own.  head and tail are         *)
(* sequentially consistent atomics, and both sides put a full fence before *)
(* the index store, so interleaving is the memory model.                   *)
(*                                                                         *)
(* head and tail are uint32_t: they run freely and wrap at IndexMod        *)
(* (2^32 in the code).  "& mask" is "% Capacity", since Capacity is a      *)
(* power of two.                                                           *)
(***************************************************************************)
EXTENDS Integers, Sequences

CONSTANTS Task,       \* the task pointers a producer may enqueue
          NULL,       \* the null pointer of a slot that holds no task
          Capacity,   \* number of slots, one of which always stays free
          IndexMod,   \* number of values of an index variable
          MaxBatch    \* the largest count or max_count a caller passes

ASSUME QueueAssumption ==
    /\ NULL \notin Task
    /\ Capacity \in Nat \ {0}
    /\ IndexMod \in Nat \ {0}
    /\ IndexMod % Capacity = 0
    /\ MaxBatch \in Nat \ {0}

VARIABLES
    head, tail,     \* the two shared indices
    tasks,          \* the shared slots
    pPc,            \* where the producer is
    pHead, pTail,   \* the indices it loaded
    pTasks,         \* the tasks it was given, cut to those it will write
    pI,             \* how many of them it has written
    cPc,            \* where the consumer is
    cHead, cTail,   \* the indices it loaded
    cMax,           \* how many tasks it asked for, then how many it will take
    cOut,           \* the tasks it has read from the slots so far
    returned        \* what its last successful call returned

sharedVars == <<head, tail, tasks>>
prodVars == <<pPc, pHead, pTail, pTasks, pI>>
consVars == <<cPc, cHead, cTail, cMax, cOut, returned>>
vars == <<head, tail, tasks, pPc, pHead, pTail, pTasks, pI,
          cPc, cHead, cTail, cMax, cOut, returned>>

Slots == 0..(Capacity - 1)
Index == 0..(IndexMod - 1)
Batches == UNION {[1..n -> Task] : n \in 1..MaxBatch}

Slot(i) == i % Capacity

Advance(i, n) == (i + n) % IndexMod

\* Slips: the end of the array is taken for an empty or for a full queue; the free
\* slot between tail and head is forgotten.
IsEmptyAtTheEnd(h, t) == Slot(h) = Slot(t) \/ Slot(h) + 1 = Capacity
IsFullAtTheEnd(h, t) == Slot(t) + 1 = Slot(h) \/ Slot(t) + 1 = Capacity
AvailableNoFreeSlot(h, t) == Capacity - ((t - h) % Capacity)

IsEmpty(h, t) == Slot(h) = Slot(t)
IsFull(h, t) == Slot(t + 1) = Slot(h)
Size(h, t) == (t - h) % Capacity
Available(h, t) == Capacity - Size(h, t) - 1
Least(m, n) == IF m < n THEN m ELSE n

-----------------------------------------------------------------------------
(* queue_create *)

Init ==
    /\ head = 0
    /\ tail = 0
    /\ tasks = [s \in Slots |-> NULL]
    /\ pPc = "idle"
    /\ pHead = 0
    /\ pTail = 0
    /\ pTasks = << >>
    /\ pI = 0
    /\ cPc = "idle"
    /\ cHead = 0
    /\ cTail = 0
    /\ cMax = 0
    /\ cOut = << >>
    /\ returned = << >>

-----------------------------------------------------------------------------
(* The producer: queue_enqueue and queue_enqueue_batch *)

\* The call begins and loads head.
StartEnqueue(pc, batch) ==
    /\ pPc = "idle"
    /\ pPc' = pc
    /\ pHead' = head
    /\ pTasks' = batch
    /\ pI' = 0
    /\ UNCHANGED <<sharedVars, pTail, consVars>>

Enqueue == \E t \in Task : StartEnqueue("enqueue", <<t>>)
EnqueueBatch == \E batch \in Batches : StartEnqueue("enqueue_batch", batch)

\* It loads tail, and either gives up on a full queue or goes on to write the n
\* tasks that fit.
EnqueueLoadTail(pc, n) ==
    /\ pPc = pc
    /\ pTail' = tail
    /\ pPc' = IF n = 0 THEN "idle" ELSE "write"
    /\ pTasks' = SubSeq(pTasks, 1, n)
    /\ UNCHANGED <<sharedVars, pHead, pI, consVars>>

EnqueueCheck ==
    EnqueueLoadTail("enqueue", IF IsFull(pHead, tail) THEN 0 ELSE 1)

\* Slip: the batch is not cut to the room there is.
EnqueueBatchUnchecked == EnqueueLoadTail("enqueue_batch", Len(pTasks))

EnqueueBatchCheck ==
    EnqueueLoadTail("enqueue_batch",
                    Least(Len(pTasks), Available(pHead, tail)))

EnqueueWrite ==
    /\ pPc = "write"
    /\ pI < Len(pTasks)
    /\ tasks' = [tasks EXCEPT ![Slot(pTail + pI)] = pTasks[pI + 1]]
    /\ pI' = pI + 1
    /\ UNCHANGED <<head, tail, pPc, pHead, pTail, pTasks, consVars>>

EnqueuePublish ==
    /\ pPc = "write"
    /\ pI = Len(pTasks)
    /\ tail' = Advance(pTail, Len(pTasks))
    /\ pPc' = "idle"
    /\ UNCHANGED <<head, tasks, pHead, pTail, pTasks, pI, consVars>>

-----------------------------------------------------------------------------
(* The consumer: queue_dequeue and queue_dequeue_batch *)

StartDequeue(pc, max) ==
    /\ cPc = "idle"
    /\ cPc' = pc
    /\ cHead' = head
    /\ cMax' = max
    /\ cOut' = << >>
    /\ UNCHANGED <<sharedVars, prodVars, cTail, returned>>

Dequeue == StartDequeue("dequeue", 1)
DequeueBatch == \E max \in 1..MaxBatch : StartDequeue("dequeue_batch", max)

DequeueLoadTail(pc, n) ==
    /\ cPc = pc
    /\ cTail' = tail
    /\ cPc' = IF n = 0 THEN "idle" ELSE "take"
    /\ cMax' = n
    /\ UNCHANGED <<sharedVars, prodVars, cHead, cOut, returned>>

\* Slip: no test for an empty queue.
DequeueUnchecked == DequeueLoadTail("dequeue", 1)

DequeueCheck ==
    DequeueLoadTail("dequeue", IF IsEmpty(cHead, tail) THEN 0 ELSE 1)

DequeueBatchCheck ==
    DequeueLoadTail("dequeue_batch", Least(cMax, Size(cHead, tail)))

DequeueTake ==
    /\ cPc = "take"
    /\ Len(cOut) < cMax
    /\ cOut' = Append(cOut, tasks[Slot(cHead + Len(cOut))])
    /\ cPc' = "clear"
    /\ UNCHANGED <<sharedVars, prodVars, cHead, cTail, cMax, returned>>

DequeueClear ==
    /\ cPc = "clear"
    /\ tasks' = [tasks EXCEPT ![Slot(cHead + Len(cOut) - 1)] = NULL]
    /\ cPc' = "take"
    /\ UNCHANGED <<head, tail, prodVars, cHead, cTail, cMax, cOut, returned>>

\* Slip: the caller is told of one task too few.
DequeuePublishShort ==
    /\ cPc = "take"
    /\ Len(cOut) = cMax
    /\ head' = Advance(cHead, cMax)
    /\ returned' = SubSeq(cOut, 1, cMax - 1)
    /\ cPc' = "idle"
    /\ UNCHANGED <<tail, tasks, prodVars, cHead, cTail, cMax, cOut>>

DequeuePublish ==
    /\ cPc = "take"
    /\ Len(cOut) = cMax
    /\ head' = Advance(cHead, cMax)
    /\ returned' = cOut
    /\ cPc' = "idle"
    /\ UNCHANGED <<tail, tasks, prodVars, cHead, cTail, cMax, cOut>>

-----------------------------------------------------------------------------
ProducerStep ==
    \/ Enqueue \/ EnqueueBatch \/ EnqueueCheck \/ EnqueueBatchCheck
    \/ EnqueueWrite \/ EnqueuePublish

ConsumerStep ==
    \/ Dequeue \/ DequeueBatch \/ DequeueCheck \/ DequeueBatchCheck
    \/ DequeueTake \/ DequeueClear \/ DequeuePublish

Next == ProducerStep \/ ConsumerStep

Spec == Init /\ [][Next]_vars

\* Both sides poll: the producer retries a full queue, the consumer an empty
\* one, as the master loop and the worker loop do.
FairSpec == Spec /\ WF_vars(ProducerStep) /\ WF_vars(ConsumerStep)

-----------------------------------------------------------------------------
(* What makes the queue correct *)

\* Every variable has the type its declaration gives it; a local index is an
\* index, and a call never handles more than MaxBatch tasks.
TypeOK ==
    /\ head \in Index /\ tail \in Index
    /\ tasks \in [Slots -> Task \cup {NULL}]
    /\ pPc \in {"idle", "enqueue", "enqueue_batch", "write"}
    /\ pHead \in Index /\ pTail \in Index
    /\ pTasks \in Seq(Task) /\ Len(pTasks) <= MaxBatch
    /\ pI \in 0..MaxBatch
    /\ cPc \in {"idle", "dequeue", "dequeue_batch", "take", "clear"}
    /\ cHead \in Index /\ cTail \in Index
    /\ cMax \in 0..MaxBatch
    /\ cOut \in Seq(Task) /\ Len(cOut) <= MaxBatch
    /\ returned \in Seq(Task)

\* The slot the producer is about to write holds no task: although it decided
\* that there is room from a head it loaded earlier, enqueue never overwrites a
\* pointer that has not been taken out (it would be lost).
NoOverwrite ==
    pPc = "write" /\ pI < Len(pTasks) => tasks[Slot(pTail + pI)] = NULL

\* The slot the consumer is about to read holds a task: dequeue never returns a
\* NULL to a caller that was told that there are tasks, at any wrap of the
\* indices, nor a slot whose write is still to come.
NoNullTaken ==
    cPc = "take" /\ Len(cOut) < cMax => tasks[Slot(cHead + Len(cOut))] # NULL

\* The producer's next slot is never one the consumer still has to read or to
\* clear, so the two plain (non-atomic) slot accesses cannot race: in
\* particular the "= NULL" of a dequeue cannot wipe out a task written into
\* the same slot one lap later.
NoSlotRace ==
    pPc = "write" /\ pI < Len(pTasks) =>
        /\ cPc = "take" => \A k \in Len(cOut)..(cMax - 1) :
                              Slot(cHead + k) # Slot(pTail + pI)
        /\ cPc = "clear" => \A k \in (Len(cOut) - 1)..(cMax - 1) :
                               Slot(cHead + k) # Slot(pTail + pI)

\* An index loaded earlier errs on the safe side only: the producer, with an old
\* head, never sees fewer tasks than there are, and the consumer, with an old
\* tail, never sees more.
StaleIndexSafe ==
    /\ pPc \in {"enqueue", "enqueue_batch", "write"} =>
           Size(pHead, tail) >= Size(head, tail)
    /\ cPc \in {"take", "clear"} => Size(cHead, cTail) <= Size(head, tail)

-----------------------------------------------------------------------------
(* Why it is correct: the inductive invariant *)

\* How many slots beyond tail the producer has filled, and how many from head on
\* the consumer has emptied, in the calls they are in.
Written == IF pPc = "write" THEN pI ELSE 0
Cleared == IF cPc = "take" THEN Len(cOut)
           ELSE IF cPc = "clear" THEN Len(cOut) - 1 ELSE 0

\* What the producer knows: nothing written before the check, and after it room
\* for all that it will write, whatever the consumer did since.
ProducerInv ==
    /\ pPc = "enqueue" => Len(pTasks) = 1
    /\ pPc \in {"enqueue", "enqueue_batch"} => pI = 0 /\ Len(pTasks) >= 1
    /\ pPc = "write" => /\ pTail = tail
                        /\ Len(pTasks) >= 1
                        /\ pI <= Len(pTasks)
                        /\ Size(head, tail) + Len(pTasks) < Capacity

\* What the consumer knows: head is its own, and after the check there are at
\* least the tasks that it will take.
ConsumerInv ==
    /\ cPc # "idle" => cHead = head
    /\ cPc \in {"dequeue", "dequeue_batch"} => cOut = << >> /\ cMax >= 1
    /\ cPc \in {"take", "clear"} => /\ cMax >= 1
                                    /\ cMax <= Size(cHead, cTail)
                                    /\ Len(cOut) <= cMax
    /\ cPc = "clear" => Len(cOut) >= 1

\* The whole ring, counted from head: emptied slots, tasks, slots that are
\* filled but not published, and empty slots, in this order and nothing else.
RingInv ==
    \A d \in Slots :
        /\ d < Cleared => tasks[Slot(head + d)] = NULL
        /\ Cleared <= d /\ d < Size(head, tail) => tasks[Slot(head + d)] \in Task
        /\ Size(head, tail) <= d /\ d < Size(head, tail) + Written =>
              tasks[Slot(head + d)] = pTasks[d - Size(head, tail) + 1]
        /\ Size(head, tail) + Written <= d => tasks[Slot(head + d)] = NULL

\* The inductive invariant of queue_enqueue, queue_dequeue and their batch forms:
\* at every step, the slots between and around the two indices hold exactly what
\* both sides take for granted there.
Inv == TypeOK /\ StaleIndexSafe /\ ProducerInv /\ ConsumerInv /\ RingInv

-----------------------------------------------------------------------------
(* The queue implements TaskFIFO *)

\* The tasks in the queue, oldest first: what the consumer has already read for
\* the call it is in, then the slots from head to tail.
Contents ==
    [k \in 1..Size(head, tail) |->
        IF cPc \in {"take", "clear"} /\ k <= Len(cOut)
        THEN cOut[k]
        ELSE tasks[Slot(head + k - 1)]]

FIFO == INSTANCE TaskFIFO
          WITH Bound <- Capacity - 1, q <- Contents, handed <- returned

\* The ring is a first-in first-out queue of Capacity - 1 tasks: the store of
\* tail accepts the whole batch at once, the store of head hands the tasks out,
\* and every other step is invisible.
ImplementsFIFO == FIFO!Spec

\* With both sides polling, what is queued is handed out again and again.
ImplementsFairFIFO == FIFO!FairSpec

\* A producer that keeps retrying gets through again and again: the free slot
\* kept between tail and head never turns into a queue that stays full.
ProducerGetsThrough == []<>(pPc = "write")
=============================================================================

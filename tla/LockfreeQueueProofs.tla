------------------------- MODULE LockfreeQueueProofs ------------------------
(***************************************************************************)
(* Proofs about LockfreeQueue, for every capacity, index width and batch   *)
(* length.  The first part is the arithmetic of free-running indices, the  *)
(* only place where "%" is looked into; the second shows that Inv is       *)
(* inductive; the third that the ring implements TaskFIFO.                 *)
(***************************************************************************)
EXTENDS LockfreeQueue, SequenceTheorems, TLAPS

-----------------------------------------------------------------------------
(* Remainders, and functions that are sequences *)

\* "% c" is a remainder: every integer is a multiple of c plus its remainder,
\* which lies in 0..c-1 (what "& mask" computes in lockfree_queue.c).
LEMMA DivMod ==
    ASSUME NEW a \in Int, NEW c \in Nat \ {0}
    PROVE  /\ a \div c \in Int
           /\ a % c \in 0..(c - 1)
           /\ a = c * (a \div c) + (a % c)
OBVIOUS

\* A remainder is found from any such decomposition.
LEMMA Remainder ==
    ASSUME NEW c \in Nat \ {0}, NEW q \in Int, NEW r \in 0..(c - 1)
    PROVE  (c * q + r) % c = r
OBVIOUS

\* Adding laps of the ring does not change the slot.
LEMMA AddLaps ==
    ASSUME NEW a \in Int, NEW c \in Nat \ {0}, NEW q \in Int
    PROVE  (a + c * q) % c = a % c
<1> DEFINE k == a \div c
<1>1. k \in Int /\ a = c * k + (a % c) /\ a % c \in 0..(c - 1)
  BY DivMod
<1> HIDE DEF k
<1>2. a + c * q = c * (k + q) + (a % c)
  BY <1>1
<1>3. k + q \in Int
  BY <1>1
<1> QED BY <1>1, <1>2, <1>3, Remainder, Zenon

\* Two offsets of less than a lap that meet in a slot are equal.
LEMMA NoLap ==
    ASSUME NEW c \in Nat \ {0}, NEW q \in Int, NEW d \in 0..(c - 1),
           NEW e \in 0..(c - 1), d - e = c * q
    PROVE  d = e
<1>1. c * q < c /\ -c < c * q
  OBVIOUS
<1>2. q = 0
  BY <1>1
<1> QED BY <1>2

\* Different offsets of less than a lap from one index are different slots.
LEMMA RingInjective ==
    ASSUME NEW a \in Int, NEW c \in Nat \ {0}, NEW d \in 0..(c - 1),
           NEW e \in 0..(c - 1), (a + d) % c = (a + e) % c
    PROVE  d = e
<1> DEFINE k == (a + d) \div c
           l == (a + e) \div c
           r == (a + d) % c
<1>1. k \in Int /\ r \in Int /\ a + d = c * k + r
  BY DivMod
<1>2. l \in Int /\ a + e = c * l + r
  <2>1. l \in Int /\ a + e = c * l + ((a + e) % c)
    BY DivMod
  <2> QED BY <2>1
<1> HIDE DEF k, l, r
<1>3. d - e = c * (k - l) /\ k - l \in Int
  BY <1>1, <1>2
<1> QED BY <1>3, NoLap

\* A function on 1..m that agrees with a sequence of length m is that sequence.
LEMMA FunctionIsSeq ==
    ASSUME NEW S, NEW f, NEW t \in Seq(S), NEW m \in Nat, Len(t) = m,
           f = [k \in 1..m |-> f[k]], \A k \in 1..m : f[k] = t[k]
    PROVE  f = t
<1>1. \A k \in 1..m : t[k] \in S
  BY ElementOfSeq
<1>2. f \in [1..m -> S]
  BY <1>1
<1>3. f \in Seq(S) /\ Len(f) = m
  BY <1>2
<1> QED BY <1>3, SeqEqual

-----------------------------------------------------------------------------
(* Slots, sizes and free-running indices *)

\* The wrap of an index is a whole number of laps, which is why lockfree_queue.c
\* may let head and tail overflow.
LEMMA WrapIsLaps == \E m \in Int : IndexMod = Capacity * m
<1> DEFINE m == IndexMod \div Capacity
<1>1. m \in Int /\ IndexMod = Capacity * m + (IndexMod % Capacity)
  BY DivMod, QueueAssumption
<1>2. IndexMod = Capacity * m
  BY <1>1, QueueAssumption
<1> QED BY <1>1, <1>2

\* A slot number is in range, and so is a size.
LEMMA SlotType == ASSUME NEW i \in Int PROVE Slot(i) \in Slots
BY DivMod, QueueAssumption DEF Slot, Slots

\* Fewer tasks than slots.
LEMMA SizeType ==
    ASSUME NEW h \in Int, NEW t \in Int
    PROVE  Size(h, t) \in 0..(Capacity - 1)
BY DivMod, QueueAssumption DEF Size

\* An index stays an index when it is advanced.
LEMMA AdvanceType ==
    ASSUME NEW i \in Int, NEW n \in Int
    PROVE  Advance(i, n) \in Index
BY DivMod, QueueAssumption DEF Advance, Index

\* tail is Size slots after head.
LEMMA SlotFromHead ==
    ASSUME NEW h \in Int, NEW t \in Int, NEW i \in Int
    PROVE  Slot(h + Size(h, t) + i) = Slot(t + i)
<1> DEFINE q == (t - h) \div Capacity
<1>1. q \in Int /\ t - h = Capacity * q + Size(h, t)
  BY QueueAssumption DEF Size
<1> HIDE DEF q
<1>2. Size(h, t) \in Int /\ Capacity \in Nat \ {0}
  BY SizeType, QueueAssumption
<1>3. t + i = (h + Size(h, t) + i) + Capacity * q
  <2> DEFINE s == Size(h, t)
             cq == Capacity * q
  <2>1. s \in Int /\ cq \in Int /\ t - h = cq + s
    BY <1>1, <1>2
  <2> HIDE DEF s, cq
  <2>2. t + i = (h + s + i) + cq
    BY <2>1
  <2> QED BY <2>2 DEF s, cq
<1>4. h + Size(h, t) + i \in Int
  BY <1>2
<1>5. ((h + Size(h, t) + i) + Capacity * q) % Capacity = (h + Size(h, t) + i) % Capacity
  BY <1>1, <1>2, <1>4, AddLaps, Zenon
<1> QED BY <1>3, <1>5, Zenon DEF Slot

\* An index that wrapped designates the same slot as one that did not.
LEMMA SlotOfAdvance ==
    ASSUME NEW a \in Int, NEW n \in Int, NEW i \in Int
    PROVE  Slot(Advance(a, n) + i) = Slot(a + n + i)
<1> DEFINE q == (a + n) \div IndexMod
<1>1. q \in Int /\ a + n = IndexMod * q + Advance(a, n)
  BY QueueAssumption DEF Advance
<1> HIDE DEF q
<1>2. PICK m \in Int : IndexMod = Capacity * m
  BY WrapIsLaps
<1>3. Advance(a, n) \in Int /\ Capacity \in Nat \ {0}
  BY AdvanceType, QueueAssumption DEF Index
<1>4. a + n + i = (Advance(a, n) + i) + Capacity * (m * q)
  BY <1>1, <1>2, <1>3
<1>5. Advance(a, n) + i \in Int /\ m * q \in Int
  BY <1>1, <1>2, <1>3
<1>6. ((Advance(a, n) + i) + Capacity * (m * q)) % Capacity
         = (Advance(a, n) + i) % Capacity
  BY <1>3, <1>5, AddLaps, Zenon
<1> QED BY <1>4, <1>6, Zenon DEF Slot

\* Different offsets from head are different slots.
LEMMA SlotInjective ==
    ASSUME NEW a \in Int, NEW d \in Slots, NEW e \in Slots,
           Slot(a + d) = Slot(a + e)
    PROVE  d = e
BY RingInjective, QueueAssumption DEF Slot, Slots

\* The size after tail moved on by n, and after head moved on by n.
LEMMA SizeAppend ==
    ASSUME NEW h \in Int, NEW t \in Int, NEW n \in Nat, Size(h, t) + n < Capacity
    PROVE  Size(h, Advance(t, n)) = Size(h, t) + n
<1> DEFINE q == (t - h) \div Capacity
<1>1. q \in Int /\ t - h = Capacity * q + Size(h, t)
  BY QueueAssumption DEF Size
<1> HIDE DEF q
<1> DEFINE j == (t + n) \div IndexMod
<1>2. j \in Int /\ t + n = IndexMod * j + Advance(t, n)
  BY QueueAssumption DEF Advance
<1> HIDE DEF j
<1>3. PICK m \in Int : IndexMod = Capacity * m
  BY WrapIsLaps
<1>4. Advance(t, n) \in Int /\ Capacity \in Nat \ {0} /\ Size(h, t) \in Nat
  BY AdvanceType, SizeType, QueueAssumption DEF Index
<1>5. Advance(t, n) - h = Capacity * (q - m * j) + (Size(h, t) + n)
  BY <1>1, <1>2, <1>3, <1>4
<1>6. q - m * j \in Int /\ Size(h, t) + n \in 0..(Capacity - 1)
  BY <1>1, <1>2, <1>3, <1>4
<1> QED BY <1>4, <1>5, <1>6, Remainder, Zenon DEF Size

\* Taking n tasks out makes the queue n tasks shorter.
LEMMA SizeRemove ==
    ASSUME NEW h \in Int, NEW t \in Int, NEW n \in Nat, n <= Size(h, t)
    PROVE  Size(Advance(h, n), t) = Size(h, t) - n
<1> DEFINE q == (t - h) \div Capacity
<1>1. q \in Int /\ t - h = Capacity * q + Size(h, t)
  BY QueueAssumption DEF Size
<1> HIDE DEF q
<1> DEFINE j == (h + n) \div IndexMod
<1>2. j \in Int /\ h + n = IndexMod * j + Advance(h, n)
  BY QueueAssumption DEF Advance
<1> HIDE DEF j
<1>3. PICK m \in Int : IndexMod = Capacity * m
  BY WrapIsLaps
<1>4. /\ Advance(h, n) \in Int /\ Capacity \in Nat \ {0}
      /\ Size(h, t) \in 0..(Capacity - 1)
  BY AdvanceType, SizeType, QueueAssumption DEF Index
<1>5. t - Advance(h, n) = Capacity * (q + m * j) + (Size(h, t) - n)
  BY <1>1, <1>2, <1>3, <1>4
<1>6. q + m * j \in Int /\ Size(h, t) - n \in 0..(Capacity - 1)
  BY <1>1, <1>2, <1>3, <1>4
<1> QED BY <1>4, <1>5, <1>6, Remainder, Zenon DEF Size

\* The tests of queue_enqueue and queue_dequeue, in terms of the size: full means
\* that only the slot that always stays free is left.
LEMMA FullIsSize ==
    ASSUME NEW h \in Int, NEW t \in Int, ~IsFull(h, t)
    PROVE  Size(h, t) + 1 < Capacity
<1>1. Size(h, t) \in 0..(Capacity - 1) /\ Capacity \in Nat \ {0}
  BY SizeType, QueueAssumption
<1>2. SUFFICES ASSUME Size(h, t) + 1 = Capacity PROVE FALSE
  BY <1>1
<1>3. Slot(h + Size(h, t) + 1) = Slot(t + 1)
  BY SlotFromHead
<1>4. h + Size(h, t) + 1 = h + Capacity * 1
  BY <1>1, <1>2
<1>5. 1 \in Int
  OBVIOUS
<1>6. (h + Capacity * 1) % Capacity = h % Capacity
  BY <1>1, <1>5, AddLaps, Zenon
<1> QED BY <1>3, <1>4, <1>6 DEF IsFull, Slot

\* The test for an empty queue is a test of its size.
LEMMA EmptyIsSize ==
    ASSUME NEW h \in Int, NEW t \in Int, ~IsEmpty(h, t)
    PROVE  Size(h, t) >= 1
<1>1. Size(h, t) \in 0..(Capacity - 1) /\ Capacity \in Nat \ {0}
  BY SizeType, QueueAssumption
<1>2. SUFFICES ASSUME Size(h, t) = 0 PROVE FALSE
  BY <1>1
<1>3. Slot(h + 0 + 0) = Slot(t + 0)
  BY <1>2, SlotFromHead
<1> QED BY <1>3 DEF IsEmpty

-----------------------------------------------------------------------------
(* Inv is inductive *)

\* The numbers that every step computes with are integers in their ranges.
NumbersOK ==
    /\ Capacity \in Nat /\ Capacity > 0 /\ MaxBatch \in Nat /\ MaxBatch > 0
    /\ head \in Int /\ tail \in Int /\ pHead \in Int /\ pTail \in Int
    /\ cHead \in Int /\ cTail \in Int /\ pI \in Nat /\ cMax \in Nat
    /\ Size(head, tail) \in Nat /\ Size(head, tail) < Capacity
    /\ Size(pHead, tail) \in Nat /\ Size(pHead, tail) < Capacity
    /\ Size(cHead, cTail) \in Nat /\ Size(cHead, cTail) < Capacity
    /\ Size(cHead, tail) \in Nat /\ Size(cHead, tail) < Capacity
    /\ Len(pTasks) \in Nat /\ Len(cOut) \in Nat

\* The invariant gives every number its range.
LEMMA Numbers == ASSUME Inv PROVE NumbersOK
<1>1. /\ Capacity \in Nat /\ Capacity > 0 /\ MaxBatch \in Nat /\ MaxBatch > 0
      /\ IndexMod \in Nat
  BY QueueAssumption
<1>2. /\ head \in Int /\ tail \in Int /\ pHead \in Int /\ pTail \in Int
      /\ cHead \in Int /\ cTail \in Int /\ pI \in Nat /\ cMax \in Nat
  BY <1>1 DEF Inv, TypeOK, Index
<1>3. Len(pTasks) \in Nat /\ Len(cOut) \in Nat
  BY DEF Inv, TypeOK
<1>4. \A h, t \in Int : Size(h, t) \in Nat /\ Size(h, t) < Capacity
  BY <1>1, SizeType
<1> QED BY <1>1, <1>2, <1>3, <1>4 DEF NumbersOK

\* A batch is a sequence of one to MaxBatch tasks.
LEMMA BatchType ==
    ASSUME NEW batch \in Batches
    PROVE  batch \in Seq(Task) /\ Len(batch) >= 1 /\ Len(batch) <= MaxBatch
<1>1. PICK n \in 1..MaxBatch : batch \in [1..n -> Task]
  BY DEF Batches
<1>2. n \in Nat /\ n >= 1 /\ n <= MaxBatch
  BY QueueAssumption
<1>3. batch \in Seq(Task) /\ Len(batch) = n
  BY <1>1, <1>2
<1> QED BY <1>2, <1>3

\* queue_create establishes the invariant.
LEMMA InitInv == Init => Inv
<1> SUFFICES ASSUME Init PROVE Inv
  OBVIOUS
<1>1. TypeOK
  BY QueueAssumption DEF Init, TypeOK, Index, Slots
<1>2. StaleIndexSafe /\ ProducerInv /\ ConsumerInv
  BY DEF Init, StaleIndexSafe, ProducerInv, ConsumerInv
<1>3. Size(head, tail) = 0
  BY QueueAssumption DEF Init, Size
<1>4. Written = 0 /\ Cleared = 0
  BY DEF Init, Written, Cleared
<1>5. \A d \in Slots : tasks[Slot(head + d)] = NULL
  BY SlotType DEF Init, Slots
<1>6. RingInv
  BY <1>3, <1>4, <1>5 DEF RingInv, Slots
<1> QED BY <1>1, <1>2, <1>6 DEF Inv

\* queue_enqueue and queue_enqueue_batch begin.
LEMMA StartEnqueueInv ==
    ASSUME Inv, NEW pc \in {"enqueue", "enqueue_batch"}, NEW batch \in Seq(Task),
           Len(batch) >= 1, Len(batch) <= MaxBatch, pc = "enqueue" => Len(batch) = 1,
           StartEnqueue(pc, batch)
    PROVE  Inv'
<1> USE DEF StartEnqueue, sharedVars, consVars
<1>0. NumbersOK
  BY Numbers
<1>1. TypeOK'
  BY QueueAssumption DEF Inv, TypeOK
<1>2. StaleIndexSafe'
  BY <1>0 DEF NumbersOK, Inv, StaleIndexSafe
<1>3. ProducerInv' /\ ConsumerInv'
  BY DEF Inv, ProducerInv, ConsumerInv
<1>4. Written = 0 /\ Written' = 0 /\ Cleared' = Cleared
  BY DEF Written, Cleared
<1>5. RingInv'
  <2>1. RingInv
    BY DEF Inv
  <2>2. Size(head, tail) \in Int /\ Slots \subseteq Int
    BY <1>0 DEF NumbersOK, Slots
  <2> QED BY <1>4, <2>1, <2>2 DEF RingInv
<1> QED BY <1>1, <1>2, <1>3, <1>5 DEF Inv

\* The check for room, with a head that may be old.
LEMMA EnqueueLoadTailInv ==
    ASSUME Inv, NEW pc \in {"enqueue", "enqueue_batch"}, NEW n \in Nat,
           n <= Len(pTasks), Size(pHead, tail) + n < Capacity,
           EnqueueLoadTail(pc, n)
    PROVE  Inv'
<1> USE DEF EnqueueLoadTail, sharedVars, consVars
<1>0. NumbersOK
  BY Numbers
<1>1. SubSeq(pTasks, 1, n) \in Seq(Task) /\ Len(SubSeq(pTasks, 1, n)) = n
  <2>1. pTasks \in Seq(Task) /\ Len(pTasks) \in Nat
    BY <1>0 DEF Inv, TypeOK, NumbersOK
  <2>2. \A i \in 1..n : pTasks[i] \in Task
    BY <2>1
  <2> QED BY <2>2, SubSeqProperties
<1>2. TypeOK'
  <2>1. TypeOK /\ Len(pTasks) \in Nat /\ MaxBatch \in Nat
    BY <1>0 DEF Inv, NumbersOK
  <2>2. pTasks' \in Seq(Task) /\ Len(pTasks') <= MaxBatch
    BY <1>1, <2>1 DEF TypeOK
  <2> QED BY <2>1, <2>2 DEF TypeOK
<1>3. StaleIndexSafe'
  BY DEF Inv, StaleIndexSafe
<1>4. ProducerInv'
  <2>1. Size(pHead, tail) >= Size(head, tail)
    BY DEF Inv, StaleIndexSafe
  <2>2. Size(head, tail) + n < Capacity
    BY <2>1, <1>0 DEF NumbersOK
  <2>3. pI = 0
    BY DEF Inv, ProducerInv
  <2> QED BY <1>1, <2>2, <2>3 DEF ProducerInv
<1>5. ConsumerInv'
  BY DEF Inv, ConsumerInv
<1>6. Written = 0 /\ Written' = 0 /\ Cleared' = Cleared
  BY DEF Inv, ProducerInv, Written, Cleared
<1>7. RingInv'
  <2>1. RingInv
    BY DEF Inv
  <2>2. Size(head, tail) \in Int /\ Slots \subseteq Int
    BY <1>0 DEF NumbersOK, Slots
  <2> QED BY <1>6, <2>1, <2>2 DEF RingInv
<1> QED BY <1>2, <1>3, <1>4, <1>5, <1>7 DEF Inv

\* The test of queue_enqueue leaves room for the task.
LEMMA EnqueueCheckInv == ASSUME Inv, EnqueueCheck PROVE Inv'
<1> DEFINE n == IF IsFull(pHead, tail) THEN 0 ELSE 1
<1>0. NumbersOK
  BY Numbers
<1>1. pPc = "enqueue" /\ Len(pTasks) = 1
  BY DEF EnqueueCheck, EnqueueLoadTail, Inv, ProducerInv
<1>2. Size(pHead, tail) + n < Capacity
  <2>1. CASE IsFull(pHead, tail)
    BY <2>1, <1>0 DEF NumbersOK, Inv
  <2>2. CASE ~IsFull(pHead, tail)
    BY <2>2, FullIsSize, <1>0 DEF NumbersOK, Inv
  <2> QED BY <2>1, <2>2
<1>3. n \in Nat /\ n <= Len(pTasks)
  BY <1>1
<1>4. EnqueueLoadTail("enqueue", n)
  BY DEF EnqueueCheck
<1> HIDE DEF n
<1> QED BY <1>2, <1>3, <1>4, EnqueueLoadTailInv

\* The test of queue_enqueue_batch leaves room for the part of the batch it keeps.
LEMMA EnqueueBatchCheckInv == ASSUME Inv, EnqueueBatchCheck PROVE Inv'
<1> DEFINE n == Least(Len(pTasks), Available(pHead, tail))
<1>0. NumbersOK
  BY Numbers
<1>1. n \in Nat /\ n <= Len(pTasks) /\ Size(pHead, tail) + n < Capacity
  <2>1. /\ Len(pTasks) \in Nat /\ Capacity \in Nat /\ Size(pHead, tail) \in Nat
        /\ Size(pHead, tail) < Capacity
    BY <1>0 DEF NumbersOK
  <2> QED BY <2>1 DEF Least, Available
<1>2. EnqueueLoadTail("enqueue_batch", n)
  BY DEF EnqueueBatchCheck
<1> HIDE DEF n
<1> QED BY <1>1, <1>2, EnqueueLoadTailInv

\* What the producer knows while it writes.
LEMMA WritePhase ==
    ASSUME Inv, pPc = "write"
    PROVE  /\ pTail = tail
           /\ Len(pTasks) >= 1
           /\ pI <= Len(pTasks)
           /\ Size(head, tail) + Len(pTasks) < Capacity
BY DEF Inv, ProducerInv

\* The slot that the producer writes next, counted from head.
LEMMA NextSlot ==
    ASSUME Inv, pPc = "write", pI < Len(pTasks)
    PROVE  /\ Size(head, tail) + pI \in Slots
           /\ Slot(pTail + pI) = Slot(head + (Size(head, tail) + pI))
<1> DEFINE s == Size(head, tail)
<1>n. NumbersOK
  BY Numbers
<1>0. /\ s \in Nat /\ pI \in Nat /\ s + pI \in Slots
      /\ head \in Int /\ tail \in Int /\ pTail = tail
  <2>1. /\ s \in Nat /\ pI \in Nat /\ head \in Int /\ tail \in Int
        /\ Capacity \in Nat /\ Len(pTasks) \in Nat
    BY <1>n DEF NumbersOK
  <2> QED BY <2>1, WritePhase DEF Slots
<1>1. Slot(head + s + pI) = Slot(tail + pI)
  BY <1>0, SlotFromHead
<1>2. head + s + pI = head + (s + pI)
  BY <1>0
<1> QED BY <1>0, <1>1, <1>2

\* A slot is written: it is the first empty one after those already written.
LEMMA EnqueueWriteInv == ASSUME Inv, EnqueueWrite PROVE Inv'
<1> DEFINE s == Size(head, tail)
<1> USE DEF EnqueueWrite, consVars
<1>n. NumbersOK
  BY Numbers
<1>0. /\ s \in Nat /\ pI \in Nat /\ s + pI \in Slots /\ s + pI < Capacity
      /\ head \in Int /\ tail \in Int /\ pTail = tail /\ Capacity \in Nat
  <2>1. /\ s \in Nat /\ pI \in Nat /\ head \in Int /\ tail \in Int
        /\ Capacity \in Nat /\ Len(pTasks) \in Nat
    BY <1>n DEF NumbersOK
  <2> QED BY <2>1, WritePhase DEF Slots
<1>1. Slot(pTail + pI) = Slot(head + (s + pI))
  BY NextSlot
<1>2. pTasks[pI + 1] \in Task
  BY <1>0 DEF Inv, TypeOK
<1>3. TypeOK'
  <2>1. tasks' \in [Slots -> Task \cup {NULL}]
    BY <1>2 DEF Inv, TypeOK
  <2>2. pI' \in 0..MaxBatch
    BY <1>0, <1>n DEF NumbersOK, Inv, TypeOK
  <2> QED BY <2>1, <2>2 DEF Inv, TypeOK
<1>4. StaleIndexSafe' /\ ProducerInv' /\ ConsumerInv'
  BY <1>0, <1>n DEF NumbersOK, Inv, StaleIndexSafe, ProducerInv, ConsumerInv
<1>5. Written = pI /\ Written' = pI + 1 /\ Cleared' = Cleared
  BY DEF Written, Cleared
<1>6. \A d \in Slots : Slot(head + d) \in Slots
  <2> SUFFICES ASSUME NEW d \in Slots PROVE Slot(head + d) \in Slots
    OBVIOUS
  <2>1. head + d \in Int
    BY <1>0 DEF Slots
  <2> QED BY <2>1, SlotType
<1>7. \A d \in Slots : tasks'[Slot(head + d)] =
                          IF d = s + pI THEN pTasks[pI + 1] ELSE tasks[Slot(head + d)]
  BY <1>0, <1>1, <1>6, SlotInjective DEF Inv, TypeOK
<1>8. Cleared \in Int /\ Cleared <= s
  BY <1>n DEF NumbersOK, Inv, Cleared, ConsumerInv, StaleIndexSafe
<1>9. RingInv'
  <2> SUFFICES ASSUME NEW d \in Slots
      PROVE  /\ d < Cleared => tasks'[Slot(head + d)] = NULL
             /\ Cleared <= d /\ d < s => tasks'[Slot(head + d)] \in Task
             /\ s <= d /\ d < s + (pI + 1) => tasks'[Slot(head + d)] = pTasks[d - s + 1]
             /\ s + (pI + 1) <= d => tasks'[Slot(head + d)] = NULL
    BY <1>5 DEF RingInv
  <2> HIDE DEF s, EnqueueWrite
  <2>1. /\ d < Cleared => tasks[Slot(head + d)] = NULL
        /\ Cleared <= d /\ d < s => tasks[Slot(head + d)] \in Task
        /\ s <= d /\ d < s + pI => tasks[Slot(head + d)] = pTasks[d - s + 1]
        /\ s + pI <= d => tasks[Slot(head + d)] = NULL
    BY <1>5 DEF Inv, RingInv, s
  <2>2. d \in Int
    BY <1>0 DEF Slots
  <2>3. CASE d = s + pI
    <3>1. tasks'[Slot(head + d)] = pTasks[pI + 1] /\ d - s + 1 = pI + 1
      BY <2>3, <1>0, <1>7
    <3> QED BY <3>1, <2>3, <2>2, <1>0, <1>8
  <2>4. CASE d # s + pI
    BY <2>1, <2>2, <2>4, <1>0, <1>7
  <2> QED BY <2>3, <2>4
<1> QED BY <1>3, <1>4, <1>9 DEF Inv

\* tail is stored: what was written beyond it becomes part of the queue.
LEMMA EnqueuePublishInv == ASSUME Inv, EnqueuePublish PROVE Inv'
<1> DEFINE s == Size(head, tail)
           n == Len(pTasks)
<1> USE DEF EnqueuePublish, consVars
<1>n. NumbersOK
  BY Numbers
<1>0. /\ s \in Nat /\ n \in Nat /\ s + n < Capacity /\ pTail = tail
      /\ tail' = Advance(tail, n) /\ pI = n /\ head \in Int /\ tail \in Int
  BY <1>n DEF NumbersOK, Inv, ProducerInv
<1>1. Size(head', tail') = s + n
  BY <1>0, SizeAppend
<1>2. TypeOK'
  <2>1. tail' \in Index
    BY <1>0, AdvanceType
  <2> QED BY <2>1 DEF Inv, TypeOK
<1>3. StaleIndexSafe'
  <2>1. cPc \in {"take", "clear"} => Size(cHead, cTail) <= s
    BY DEF Inv, StaleIndexSafe
  <2> QED BY <2>1, <1>0, <1>1, <1>n DEF StaleIndexSafe, NumbersOK
<1>4. ProducerInv' /\ ConsumerInv'
  BY DEF Inv, ProducerInv, ConsumerInv
<1>5. Written = n /\ Written' = 0 /\ Cleared' = Cleared
  BY <1>0 DEF Written, Cleared
<1>6. Cleared \in Int /\ Cleared <= s
  BY <1>n DEF NumbersOK, Inv, Cleared, ConsumerInv, StaleIndexSafe
<1>7. RingInv'
  <2> SUFFICES ASSUME NEW d \in Slots
      PROVE  /\ d < Cleared => tasks[Slot(head + d)] = NULL
             /\ Cleared <= d /\ d < s + n => tasks[Slot(head + d)] \in Task
             /\ s + n <= d => tasks[Slot(head + d)] = NULL
    <3>1. /\ Size(head', tail') = s + n /\ s + n \in Int /\ Slots \subseteq Int
          /\ head' = head /\ tasks' = tasks
      BY <1>0, <1>1, <1>n DEF Slots, NumbersOK
    <3> HIDE DEF s, n
    <3> QED BY <1>5, <3>1 DEF RingInv
  <2>1. /\ d < Cleared => tasks[Slot(head + d)] = NULL
        /\ Cleared <= d /\ d < s => tasks[Slot(head + d)] \in Task
        /\ s <= d /\ d < s + n => tasks[Slot(head + d)] = pTasks[d - s + 1]
        /\ s + n <= d => tasks[Slot(head + d)] = NULL
    BY <1>5 DEF Inv, RingInv
  <2>2. d \in Int
    BY <1>n DEF Slots, NumbersOK
  <2>3. s <= d /\ d < s + n => pTasks[d - s + 1] \in Task
    <3>1. pTasks \in Seq(Task)
      BY DEF Inv, TypeOK
    <3> QED BY <3>1, <2>2, <1>0
  <2> HIDE DEF s, n
  <2> QED BY <2>1, <2>2, <2>3, <1>0, <1>6
<1> QED BY <1>2, <1>3, <1>4, <1>7 DEF Inv

\* queue_dequeue and queue_dequeue_batch begin.
LEMMA StartDequeueInv ==
    ASSUME Inv, NEW pc \in {"dequeue", "dequeue_batch"}, NEW max \in 1..MaxBatch,
           StartDequeue(pc, max)
    PROVE  Inv'
<1> USE DEF StartDequeue, sharedVars, prodVars
<1>n. NumbersOK
  BY Numbers
<1>1. TypeOK'
  BY <1>n DEF Inv, TypeOK, NumbersOK
<1>2. StaleIndexSafe' /\ ProducerInv' /\ ConsumerInv'
  BY <1>n DEF Inv, StaleIndexSafe, ProducerInv, ConsumerInv, NumbersOK
<1>3. Written' = Written /\ Cleared = 0 /\ Cleared' = 0
  BY DEF Written, Cleared
<1>4. RingInv'
  BY <1>3 DEF Inv, RingInv
<1> QED BY <1>1, <1>2, <1>4 DEF Inv

\* The check for tasks, with a tail that will be old by the time they are taken.
LEMMA DequeueLoadTailInv ==
    ASSUME Inv, NEW pc \in {"dequeue", "dequeue_batch"}, NEW n \in Nat,
           n <= cMax, n <= Size(cHead, tail), DequeueLoadTail(pc, n)
    PROVE  Inv'
<1> USE DEF DequeueLoadTail, sharedVars, prodVars
<1>n. NumbersOK
  BY Numbers
<1>0. cHead = head /\ cOut = << >> /\ Len(cOut) = 0
  BY DEF Inv, ConsumerInv
<1>1. TypeOK'
  BY <1>n DEF Inv, TypeOK, NumbersOK
<1>2. StaleIndexSafe'
  BY <1>0, <1>n DEF Inv, StaleIndexSafe, NumbersOK
<1>3. ProducerInv' /\ ConsumerInv'
  BY <1>0, <1>n DEF Inv, ProducerInv, ConsumerInv, NumbersOK
<1>4. Written' = Written /\ Cleared = 0 /\ Cleared' = 0
  BY <1>0 DEF Written, Cleared
<1>5. RingInv'
  BY <1>4 DEF Inv, RingInv
<1> QED BY <1>1, <1>2, <1>3, <1>5 DEF Inv

\* The test of queue_dequeue finds a task before it is taken.
LEMMA DequeueCheckInv == ASSUME Inv, DequeueCheck PROVE Inv'
<1> DEFINE n == IF IsEmpty(cHead, tail) THEN 0 ELSE 1
<1>n. NumbersOK
  BY Numbers
<1>1. cPc = "dequeue" /\ cMax >= 1
  BY DEF DequeueCheck, DequeueLoadTail, Inv, ConsumerInv
<1>2. n \in Nat /\ n <= cMax
  BY <1>1, <1>n DEF NumbersOK
<1>3. n <= Size(cHead, tail)
  BY <1>n, EmptyIsSize DEF NumbersOK
<1>4. DequeueLoadTail("dequeue", n)
  BY DEF DequeueCheck
<1> HIDE DEF n
<1> QED BY <1>2, <1>3, <1>4, DequeueLoadTailInv

\* The test of queue_dequeue_batch finds the tasks before they are taken.
LEMMA DequeueBatchCheckInv == ASSUME Inv, DequeueBatchCheck PROVE Inv'
<1> DEFINE n == Least(cMax, Size(cHead, tail))
<1>n. NumbersOK
  BY Numbers
<1>1. n \in Nat /\ n <= cMax /\ n <= Size(cHead, tail)
  BY <1>n DEF NumbersOK, Least
<1>2. DequeueLoadTail("dequeue_batch", n)
  BY DEF DequeueBatchCheck
<1> HIDE DEF n
<1> QED BY <1>1, <1>2, DequeueLoadTailInv

\* A slot is read: it is the first one that was not emptied, and holds a task.
LEMMA TakenIsTask ==
    ASSUME Inv, cPc = "take", Len(cOut) < cMax
    PROVE  /\ cHead = head /\ Len(cOut) \in Slots /\ Len(cOut) < Size(head, tail)
           /\ tasks[Slot(cHead + Len(cOut))] \in Task
<1>n. NumbersOK
  BY Numbers
<1>1. cHead = head /\ Len(cOut) < Size(head, tail)
  BY <1>n DEF NumbersOK, Inv, ConsumerInv, StaleIndexSafe
<1>2. Len(cOut) \in Slots /\ Cleared = Len(cOut)
  BY <1>1, <1>n DEF NumbersOK, Slots, Cleared
<1>3. tasks[Slot(head + Len(cOut))] \in Task
  <2>1. RingInv /\ Len(cOut) \in Nat
    BY <1>n DEF Inv, NumbersOK
  <2> QED BY <1>1, <1>2, <2>1 DEF RingInv
<1> QED BY <1>1, <1>2, <1>3

\* Reading a slot moves its task to the consumer.
LEMMA DequeueTakeInv == ASSUME Inv, DequeueTake PROVE Inv'
<1> DEFINE x == tasks[Slot(cHead + Len(cOut))]
<1> USE DEF DequeueTake, sharedVars, prodVars
<1>n. NumbersOK
  BY Numbers
<1>0. x \in Task
  BY TakenIsTask
<1> HIDE DEF x
<1>1. cOut' \in Seq(Task) /\ Len(cOut') = Len(cOut) + 1
  BY <1>0, AppendProperties DEF Inv, TypeOK, x
<1>2. TypeOK'
  <2>1. TypeOK /\ cMax \in Nat /\ Len(cOut) \in Nat /\ MaxBatch \in Nat
    BY <1>n DEF Inv, NumbersOK
  <2>2. Len(cOut') <= MaxBatch
    BY <1>1, <2>1 DEF TypeOK
  <2> QED BY <1>1, <2>1, <2>2 DEF TypeOK
<1>3. StaleIndexSafe' /\ ProducerInv'
  BY DEF Inv, StaleIndexSafe, ProducerInv
<1>4. ConsumerInv'
  BY <1>1, <1>n DEF Inv, ConsumerInv, NumbersOK
<1>5. Written' = Written /\ Cleared' = Cleared
  BY <1>1, <1>n DEF Written, Cleared, NumbersOK
<1>6. RingInv'
  BY <1>5 DEF Inv, RingInv
<1> QED BY <1>2, <1>3, <1>4, <1>6 DEF Inv

\* The slot that was just read is emptied.
LEMMA DequeueClearInv == ASSUME Inv, DequeueClear PROVE Inv'
<1> DEFINE s == Size(head, tail)
           k == Len(cOut) - 1
<1> USE DEF DequeueClear, prodVars
<1>n. NumbersOK
  BY Numbers
<1>0. /\ k \in Nat /\ k < s /\ k \in Slots /\ cHead = head /\ s \in Nat
      /\ head \in Int /\ Capacity \in Nat
  BY <1>n DEF NumbersOK, Inv, ConsumerInv, StaleIndexSafe, Slots
<1>1. tasks' = [tasks EXCEPT ![Slot(head + k)] = NULL]
  <2>1. head + Len(cOut) - 1 = head + k
    BY <1>n DEF NumbersOK
  <2> QED BY <1>0, <2>1
<1>2. TypeOK'
  BY <1>1 DEF Inv, TypeOK
<1>3. StaleIndexSafe' /\ ProducerInv' /\ ConsumerInv'
  BY DEF Inv, StaleIndexSafe, ProducerInv, ConsumerInv
<1>4. Written' = Written /\ Cleared = k /\ Cleared' = k + 1
  BY <1>n DEF Written, Cleared, NumbersOK
<1>5. \A d \in Slots : Slot(head + d) \in Slots
  <2> SUFFICES ASSUME NEW d \in Slots PROVE Slot(head + d) \in Slots
    OBVIOUS
  <2>1. head + d \in Int
    BY <1>0 DEF Slots
  <2> QED BY <2>1, SlotType
<1>6. \A d \in Slots :
          tasks'[Slot(head + d)] = IF d = k THEN NULL ELSE tasks[Slot(head + d)]
  BY <1>0, <1>1, <1>5, SlotInjective DEF Inv, TypeOK
<1>7. Written \in Nat
  BY <1>n DEF Written, NumbersOK
<1>8. RingInv'
  <2> SUFFICES ASSUME NEW d \in Slots
      PROVE  /\ d < k + 1 => tasks'[Slot(head + d)] = NULL
             /\ k + 1 <= d /\ d < s => tasks'[Slot(head + d)] \in Task
             /\ s <= d /\ d < s + Written => tasks'[Slot(head + d)] = pTasks[d - s + 1]
             /\ s + Written <= d => tasks'[Slot(head + d)] = NULL
    BY <1>4 DEF RingInv
  <2>1. /\ d < k => tasks[Slot(head + d)] = NULL
        /\ k <= d /\ d < s => tasks[Slot(head + d)] \in Task
        /\ s <= d /\ d < s + Written => tasks[Slot(head + d)] = pTasks[d - s + 1]
        /\ s + Written <= d => tasks[Slot(head + d)] = NULL
    BY <1>4 DEF Inv, RingInv
  <2>2. d \in Int
    BY <1>0 DEF Slots
  <2> HIDE DEF s, k, DequeueClear
  <2>3. CASE d = k
    BY <2>2, <2>3, <1>0, <1>6, <1>7
  <2>4. CASE d # k
    BY <2>1, <2>2, <2>4, <1>0, <1>6, <1>7
  <2> QED BY <2>3, <2>4
<1> QED BY <1>2, <1>3, <1>8 DEF Inv

\* head is stored: the emptied slots become free slots at the far end.
LEMMA DequeuePublishInv == ASSUME Inv, DequeuePublish PROVE Inv'
<1> DEFINE s == Size(head, tail)
           n == cMax
<1> USE DEF DequeuePublish, prodVars
<1>n. NumbersOK
  BY Numbers
<1>0. /\ s \in Nat /\ n \in Nat /\ n >= 1 /\ n <= s /\ s < Capacity
      /\ cHead = head /\ head' = Advance(head, n)
      /\ head \in Int /\ tail \in Int /\ Capacity \in Nat \ {0}
  BY <1>n DEF NumbersOK, Inv, ConsumerInv, StaleIndexSafe
<1>1. Size(head', tail') = s - n
  BY <1>0, SizeRemove
<1>2. TypeOK'
  <2>1. head' \in Index
    BY <1>0, AdvanceType
  <2> QED BY <2>1 DEF Inv, TypeOK
<1>3. StaleIndexSafe'
  BY <1>0, <1>1, <1>n DEF Inv, StaleIndexSafe, NumbersOK
<1>4. ProducerInv' /\ ConsumerInv'
  BY <1>0, <1>1, <1>n DEF Inv, ProducerInv, ConsumerInv, NumbersOK
<1>5. Written' = Written /\ Cleared = n /\ Cleared' = 0
  BY DEF Written, Cleared
<1>6. Written \in Nat /\ s + Written < Capacity
  BY <1>0, <1>n DEF Written, NumbersOK, Inv, ProducerInv
<1>7. RingInv'
  <2> SUFFICES ASSUME NEW d \in Slots
      PROVE  /\ d < s - n => tasks[Slot(head' + d)] \in Task
             /\ s - n <= d /\ d < s - n + Written =>
                   tasks[Slot(head' + d)] = pTasks[d - (s - n) + 1]
             /\ s - n + Written <= d => tasks[Slot(head' + d)] = NULL
    <3>1. \A d \in Slots : d \in Nat
      BY <1>0 DEF Slots
    <3> QED BY <1>1, <1>5, <3>1 DEF RingInv
  <2>1. d \in Nat /\ d < Capacity
    BY <1>0 DEF Slots
  <2>2. Slot(head' + d) = Slot(head + n + d)
    BY <1>0, <2>1, SlotOfAdvance
  <2>3. \A e \in Slots :
          /\ e < n => tasks[Slot(head + e)] = NULL
          /\ n <= e /\ e < s => tasks[Slot(head + e)] \in Task
          /\ s <= e /\ e < s + Written => tasks[Slot(head + e)] = pTasks[e - s + 1]
          /\ s + Written <= e => tasks[Slot(head + e)] = NULL
    BY <1>5 DEF Inv, RingInv
  <2> HIDE DEF s, n, DequeuePublish
  <2>4. CASE n + d < Capacity
    <3> DEFINE e == n + d
    <3>1. e \in Slots /\ e \in Nat /\ head + n + d = head + e
      BY <1>0, <2>1, <2>4 DEF Slots
    <3>2. /\ n <= e /\ e - s + 1 = d - (s - n) + 1
          /\ d < s - n => e < s
          /\ s - n <= d /\ d < s - n + Written => s <= e /\ e < s + Written
          /\ s - n + Written <= d => s + Written <= e
      BY <1>0, <1>6, <2>1
    <3> HIDE DEF e
    <3>3. Slot(head' + d) = Slot(head + e)
      BY <2>2, <3>1
    <3>4. /\ n <= e /\ e < s => tasks[Slot(head + e)] \in Task
          /\ s <= e /\ e < s + Written => tasks[Slot(head + e)] = pTasks[e - s + 1]
          /\ s + Written <= e => tasks[Slot(head + e)] = NULL
      BY <2>3, <3>1
    <3> QED BY <3>2, <3>3, <3>4
  <2>5. CASE ~(n + d < Capacity)
    <3> DEFINE e == n + d - Capacity
    <3>1. e \in Slots /\ e < n /\ e \in Int
      BY <1>0, <2>1, <2>5 DEF Slots
    <3>2. head + n + d = (head + e) + Capacity * 1 /\ head + e \in Int /\ 1 \in Int
      BY <1>0, <2>1
    <3> HIDE DEF e
    <3>3. ((head + e) + Capacity * 1) % Capacity = (head + e) % Capacity
      BY <1>0, <3>2, AddLaps, Zenon
    <3>4. Slot(head' + d) = Slot(head + e)
      BY <2>2, <3>2, <3>3, Zenon DEF Slot
    <3>5. tasks[Slot(head' + d)] = NULL
      BY <2>3, <3>1, <3>4
    <3>6. ~(d < s - n) /\ ~(d < s - n + Written)
      BY <1>0, <1>6, <2>1, <2>5
    <3> QED BY <3>5, <3>6
  <2> QED BY <2>4, <2>5
<1> QED BY <1>2, <1>3, <1>4, <1>7 DEF Inv

\* No step of either side, in any interleaving, breaks the invariant.
LEMMA NextInv == Inv /\ [Next]_vars => Inv'
<1> SUFFICES ASSUME Inv, [Next]_vars PROVE Inv'
  OBVIOUS
<1>1. CASE Enqueue
  <2>1. PICK t \in Task : StartEnqueue("enqueue", <<t>>)
    BY <1>1 DEF Enqueue
  <2> DEFINE batch == <<t>>
  <2>2. batch \in Seq(Task) /\ Len(batch) = 1 /\ Len(batch) >= 1
    OBVIOUS
  <2>3. Len(batch) <= MaxBatch
    BY <2>2, QueueAssumption
  <2>4. StartEnqueue("enqueue", batch)
    BY <2>1
  <2> HIDE DEF batch
  <2> QED BY <2>2, <2>3, <2>4, StartEnqueueInv
<1>2. CASE EnqueueBatch
  <2>1. PICK batch \in Batches : StartEnqueue("enqueue_batch", batch)
    BY <1>2 DEF EnqueueBatch
  <2> QED BY <2>1, BatchType, StartEnqueueInv
<1>3. CASE EnqueueCheck
  BY <1>3, EnqueueCheckInv
<1>4. CASE EnqueueBatchCheck
  BY <1>4, EnqueueBatchCheckInv
<1>5. CASE EnqueueWrite
  BY <1>5, EnqueueWriteInv
<1>6. CASE EnqueuePublish
  BY <1>6, EnqueuePublishInv
<1>7. CASE Dequeue
  <2>1. 1 \in 1..MaxBatch
    BY QueueAssumption
  <2> QED BY <1>7, <2>1, StartDequeueInv DEF Dequeue
<1>8. CASE DequeueBatch
  BY <1>8, StartDequeueInv DEF DequeueBatch
<1>9. CASE DequeueCheck
  BY <1>9, DequeueCheckInv
<1>10. CASE DequeueBatchCheck
  BY <1>10, DequeueBatchCheckInv
<1>11. CASE DequeueTake
  BY <1>11, DequeueTakeInv
<1>12. CASE DequeueClear
  BY <1>12, DequeueClearInv
<1>13. CASE DequeuePublish
  BY <1>13, DequeuePublishInv
<1>14. CASE UNCHANGED vars
  BY <1>14 DEF vars, Inv, TypeOK, StaleIndexSafe, ProducerInv, ConsumerInv, RingInv,
               Written, Cleared
<1> QED BY <1>1, <1>2, <1>3, <1>4, <1>5, <1>6, <1>7, <1>8, <1>9, <1>10, <1>11,
           <1>12, <1>13, <1>14 DEF Next, ProducerStep, ConsumerStep

-----------------------------------------------------------------------------
(* What follows from it *)

\* At every step of queue_enqueue, queue_dequeue and their batch forms the ring
\* holds exactly what both sides rely on.
THEOREM Invariance == Spec => []Inv
<1>1. Init => Inv
  BY InitInv
<1>2. Inv /\ [Next]_vars => Inv'
  BY NextInv
<1> QED BY <1>1, <1>2, PTL DEF Spec

\* Every index, count and slot of lockfree_queue.c keeps its type and range.
THEOREM TypeCorrect == Spec => []TypeOK
<1>1. Inv => TypeOK
  BY DEF Inv
<1> QED BY <1>1, Invariance, PTL

\* An enqueue never writes over a task that was not taken out.
THEOREM NeverOverwrites == Spec => []NoOverwrite
<1>1. Inv => NoOverwrite
  <2> SUFFICES ASSUME Inv, pPc = "write", pI < Len(pTasks)
      PROVE  tasks[Slot(pTail + pI)] = NULL
    BY DEF NoOverwrite
  <2>1. /\ Size(head, tail) + pI \in Slots
        /\ Slot(pTail + pI) = Slot(head + (Size(head, tail) + pI))
    BY NextSlot
  <2>2. Size(head, tail) \in Int /\ pI \in Int
    <3>1. NumbersOK
      BY Numbers
    <3> QED BY <3>1 DEF NumbersOK
  <2>3. Written = pI /\ Size(head, tail) + pI <= Size(head, tail) + pI
    BY <2>2 DEF Written
  <2> QED BY <2>1, <2>3 DEF Inv, RingInv
<1> QED BY <1>1, Invariance, PTL

\* A dequeue that was told that there are tasks never finds an empty slot.
THEOREM NeverTakesNull == Spec => []NoNullTaken
<1>1. Inv => NoNullTaken
  BY TakenIsTask, QueueAssumption DEF NoNullTaken
<1> QED BY <1>1, Invariance, PTL

\* The plain accesses of the two sides to the slots never meet, for any capacity,
\* batch length and index width.
THEOREM RaceFree == Spec => []NoSlotRace
<1>1. Inv => NoSlotRace
  <2> SUFFICES ASSUME Inv, pPc = "write", pI < Len(pTasks),
                      cPc \in {"take", "clear"}, NEW k \in 0..(cMax - 1)
               PROVE  Slot(cHead + k) # Slot(pTail + pI)
    <3>1. Inv => Len(cOut) \in Nat /\ cMax \in Nat /\ (cPc = "clear" => Len(cOut) >= 1)
      BY Numbers DEF NumbersOK, Inv, ConsumerInv
    <3> QED BY <3>1 DEF NoSlotRace
  <2> DEFINE s == Size(head, tail)
  <2>1. s + pI \in Slots /\ Slot(pTail + pI) = Slot(head + (s + pI))
    BY NextSlot
  <2>n. NumbersOK
    BY Numbers
  <2>2. /\ k \in Slots /\ k < s /\ cHead = head /\ head \in Int
        /\ s \in Nat /\ pI \in Nat
    BY <2>n DEF NumbersOK, Inv, ConsumerInv, StaleIndexSafe, Slots
  <2>3. k # s + pI
    BY <2>2
  <2> HIDE DEF s
  <2> QED BY <2>1, <2>2, <2>3, SlotInjective
<1> QED BY <1>1, Invariance, PTL

\* An index that was loaded earlier errs on the safe side.
THEOREM StaleIndicesSafe == Spec => []StaleIndexSafe
<1>1. Inv => StaleIndexSafe
  BY DEF Inv
<1> QED BY <1>1, Invariance, PTL

-----------------------------------------------------------------------------
(* The ring implements TaskFIFO *)

\* Element k of Contents.
Element(k) ==
    IF cPc \in {"take", "clear"} /\ k <= Len(cOut)
    THEN cOut[k] ELSE tasks[Slot(head + k - 1)]

\* Contents is a sequence of tasks as long as the queue's size.
LEMMA ContentsType ==
    ASSUME Inv
    PROVE  /\ Contents \in Seq(Task)
           /\ Len(Contents) = Size(head, tail)
           /\ \A k \in 1..Size(head, tail) : Contents[k] = Element(k)
<1> DEFINE s == Size(head, tail)
<1>n. NumbersOK
  BY Numbers
<1>0. s \in Nat /\ head \in Int /\ Capacity \in Nat /\ s < Capacity
  BY <1>n DEF NumbersOK
<1>1. Contents = [k \in 1..s |-> Element(k)]
  BY DEF Contents, Element
<1>2. ASSUME NEW k \in 1..s PROVE Element(k) \in Task
  <2>1. CASE cPc \in {"take", "clear"} /\ k <= Len(cOut)
    <3>1. cOut \in Seq(Task) /\ Len(cOut) \in Nat
      BY <1>n DEF Inv, TypeOK, NumbersOK
    <3>2. cOut[k] \in Task
      BY <2>1, <3>1, <1>0
    <3> QED BY <2>1, <3>2 DEF Element
  <2>2. CASE ~(cPc \in {"take", "clear"} /\ k <= Len(cOut))
    <3> DEFINE d == k - 1
    <3>1. d \in Slots /\ head + k - 1 = head + d /\ d < s
      BY <1>0 DEF Slots
    <3>2. Cleared <= d
      BY <2>2, <1>n, <1>0 DEF Cleared, NumbersOK
    <3> HIDE DEF d
    <3>3. tasks[Slot(head + d)] \in Task
      BY <3>1, <3>2 DEF Inv, RingInv
    <3> QED BY <2>2, <3>1, <3>3 DEF Element
  <2> QED BY <2>1, <2>2
<1> HIDE DEF s
<1>3. Contents \in [1..s -> Task]
  BY <1>1, <1>2
<1>4. Contents \in Seq(Task) /\ Len(Contents) = s
  BY <1>0, <1>3
<1> QED BY <1>1, <1>4 DEF s

\* A step that keeps the indices and every element keeps Contents.
LEMMA SameContents ==
    ASSUME head' = head, tail' = tail,
           \A k \in 1..Size(head, tail) : Element(k)' = Element(k)
    PROVE  Contents' = Contents
BY DEF Contents, Element

\* Every step but the stores of tail and head is invisible.
LEMMA ProducerStutters ==
    ASSUME Inv, Enqueue \/ EnqueueBatch \/ EnqueueCheck \/ EnqueueBatchCheck
    PROVE  Contents' = Contents /\ returned' = returned
<1>1. /\ UNCHANGED <<head, tail, tasks, cPc, cOut, returned>>
  BY DEF Enqueue, EnqueueBatch, EnqueueCheck, EnqueueBatchCheck, StartEnqueue,
         EnqueueLoadTail, sharedVars, consVars
<1> QED BY <1>1 DEF Contents

\* Writing a slot beyond tail is invisible.
LEMMA WriteStutters ==
    ASSUME Inv, EnqueueWrite
    PROVE  Contents' = Contents /\ returned' = returned
<1> DEFINE s == Size(head, tail)
<1>n. NumbersOK
  BY Numbers
<1>0. /\ s \in Nat /\ pI \in Nat /\ head \in Int /\ s < Capacity /\ Capacity \in Nat
      /\ pPc = "write" /\ pI < Len(pTasks)
  BY <1>n DEF NumbersOK, EnqueueWrite
<1>1. s + pI \in Slots /\ Slot(pTail + pI) = Slot(head + (s + pI))
  BY <1>0, NextSlot
<1>2. /\ tasks' = [tasks EXCEPT ![Slot(pTail + pI)] = pTasks[pI + 1]]
      /\ UNCHANGED <<head, tail, cPc, cOut, returned>>
  BY DEF EnqueueWrite, consVars
<1>3. ASSUME NEW k \in 1..s PROVE Element(k)' = Element(k)
  <2> DEFINE d == k - 1
  <2>1. d \in Slots /\ head + k - 1 = head + d /\ d # s + pI
    BY <1>0 DEF Slots
  <2> HIDE DEF d, s
  <2>2. Slot(head + d) # Slot(pTail + pI)
    BY <1>0, <1>1, <2>1, SlotInjective
  <2>3. tasks'[Slot(head + d)] = tasks[Slot(head + d)]
    BY <1>2, <2>2 DEF Inv, TypeOK
  <2> QED BY <1>2, <2>1, <2>3 DEF Element
<1> QED BY <1>2, <1>3, SameContents

\* The loads of a dequeue are invisible.
LEMMA ConsumerStutters ==
    ASSUME Inv, Dequeue \/ DequeueBatch \/ DequeueCheck \/ DequeueBatchCheck
    PROVE  Contents' = Contents /\ returned' = returned
<1>n. NumbersOK
  BY Numbers
<1>1. CASE Dequeue \/ DequeueBatch
  <2>1. /\ UNCHANGED <<head, tail, tasks, returned>>
        /\ cPc \notin {"take", "clear"} /\ cPc' \notin {"take", "clear"}
    BY <1>1 DEF Dequeue, DequeueBatch, StartDequeue, sharedVars
  <2> QED BY <2>1 DEF Contents
<1>2. CASE DequeueCheck \/ DequeueBatchCheck
  <2>1. /\ UNCHANGED <<head, tail, tasks, returned, cOut>>
        /\ cPc \notin {"take", "clear"} /\ cOut = << >> /\ Len(cOut) = 0
    BY <1>2 DEF DequeueCheck, DequeueBatchCheck, DequeueLoadTail, sharedVars, Inv,
                ConsumerInv
  <2>2. \A k \in 1..Size(head, tail) : ~(k <= Len(cOut))
    BY <2>1, <1>n DEF NumbersOK
  <2>3. \A k \in 1..Size(head, tail) : Element(k)' = Element(k)
    BY <2>1, <2>2 DEF Element
  <2> QED BY <2>1, <2>3, SameContents
<1> QED BY <1>1, <1>2

\* Reading a slot is invisible: the task is taken from the consumer instead.
LEMMA TakeStutters ==
    ASSUME Inv, DequeueTake
    PROVE  Contents' = Contents /\ returned' = returned
<1> DEFINE n == Len(cOut)
           x == tasks[Slot(cHead + Len(cOut))]
<1>n. NumbersOK
  BY Numbers
<1>0. cPc = "take" /\ n < cMax
  BY DEF DequeueTake
<1>1. x \in Task /\ cHead = head
  BY <1>0, TakenIsTask
<1>2. /\ UNCHANGED <<head, tail, tasks, returned>> /\ cPc' = "clear"
      /\ cOut' = Append(cOut, x)
  BY DEF DequeueTake, sharedVars
<1>3. n \in Nat /\ head \in Int /\ Size(head, tail) \in Nat
  BY <1>n DEF NumbersOK
<1>4. cOut \in Seq(Task)
  BY DEF Inv, TypeOK
<1>5. Len(cOut') = n + 1 /\ (\A i \in 1..n : cOut'[i] = cOut[i]) /\ cOut'[n + 1] = x
  <2> HIDE DEF x
  <2> QED BY <1>1, <1>2, <1>4, AppendProperties
<1>6. ASSUME NEW k \in 1..Size(head, tail) PROVE Element(k)' = Element(k)
  <2>1. CASE k <= n
    BY <2>1, <1>0, <1>2, <1>3, <1>5 DEF Element
  <2>2. CASE k = n + 1
    <3>1. head + k - 1 = cHead + n
      BY <2>2, <1>1, <1>3
    <3>2. Element(k) = x
      BY <2>2, <3>1, <1>3 DEF Element
    <3>3. Element(k)' = cOut'[k]
      BY <2>2, <1>2, <1>3, <1>5 DEF Element
    <3> QED BY <2>2, <3>2, <3>3, <1>5
  <2>3. CASE k > n + 1
    BY <2>3, <1>0, <1>2, <1>3, <1>5 DEF Element
  <2> QED BY <2>1, <2>2, <2>3, <1>3
<1> QED BY <1>2, <1>6, SameContents

\* Clearing a slot that was read is invisible.
LEMMA ClearStutters ==
    ASSUME Inv, DequeueClear
    PROVE  Contents' = Contents /\ returned' = returned
<1> DEFINE n == Len(cOut)
<1>n. NumbersOK
  BY Numbers
<1>0. /\ n \in Nat /\ n >= 1 /\ n - 1 \in Slots /\ head \in Int /\ cHead = head
      /\ Size(head, tail) \in 0..(Capacity - 1) /\ Capacity \in Nat
  BY <1>n DEF NumbersOK, DequeueClear, Inv, ConsumerInv, StaleIndexSafe, Slots
<1>1. /\ UNCHANGED <<head, tail, returned, cOut>> /\ cPc = "clear" /\ cPc' = "take"
      /\ tasks' = [tasks EXCEPT ![Slot(cHead + n - 1)] = NULL]
  BY DEF DequeueClear
<1>2. cHead + n - 1 = head + (n - 1)
  BY <1>0
<1>3. ASSUME NEW k \in 1..Size(head, tail) PROVE Element(k)' = Element(k)
  <2>1. CASE k <= n
    BY <2>1, <1>1 DEF Element
  <2>2. CASE ~(k <= n)
    <3> DEFINE d == k - 1
               e == n - 1
    <3>1. /\ d \in Slots /\ head + k - 1 = head + d /\ d # e /\ e \in Slots
          /\ cHead + n - 1 = head + e
      BY <2>2, <1>0, <1>2 DEF Slots
    <3> HIDE DEF d, e
    <3>2. Slot(head + d) # Slot(head + e)
      BY <1>0, <3>1, SlotInjective
    <3>3. tasks'[Slot(head + d)] = tasks[Slot(head + d)]
      BY <1>1, <3>1, <3>2 DEF Inv, TypeOK
    <3> QED BY <2>2, <1>1, <3>1, <3>3 DEF Element
  <2> QED BY <2>1, <2>2
<1> QED BY <1>1, <1>3, SameContents

\* The store of tail appends the whole batch.
LEMMA PublishAccepts ==
    ASSUME Inv, EnqueuePublish
    PROVE  \E batch \in FIFO!Batches : FIFO!Accept(batch)
<1> DEFINE s == Size(head, tail)
           n == Len(pTasks)
<1>n. NumbersOK
  BY Numbers
<1>0. /\ s \in Nat /\ n \in Nat /\ n >= 1 /\ s + n < Capacity /\ Capacity \in Nat
      /\ pTail = tail /\ tail' = Advance(tail, n) /\ pI = n /\ pPc = "write"
      /\ head \in Int /\ tail \in Int
      /\ UNCHANGED <<head, tasks, returned, cPc, cOut>>
  BY <1>n DEF NumbersOK, Inv, ProducerInv, EnqueuePublish, consVars
<1>1. Size(head', tail') = s + n
  BY <1>0, SizeAppend
<1>2. /\ Contents \in Seq(Task) /\ Len(Contents) = s
      /\ \A k \in 1..s : Contents[k] = Element(k)
  BY ContentsType
<1>3. pTasks \in Seq(Task) /\ n <= MaxBatch
  BY DEF Inv, TypeOK
<1>4. Contents' = [k \in 1..(s + n) |-> Element(k)]
  BY <1>0, <1>1 DEF Contents, Element
<1>5. /\ Contents \o pTasks \in Seq(Task) /\ Len(Contents \o pTasks) = s + n
      /\ \A k \in 1..(s + n) :
            (Contents \o pTasks)[k] = IF k <= s THEN Contents[k] ELSE pTasks[k - s]
  <2>1. /\ Contents \o pTasks \in Seq(Task)
        /\ Len(Contents \o pTasks) = Len(Contents) + Len(pTasks)
        /\ \A k \in 1..(Len(Contents) + Len(pTasks)) :
              (Contents \o pTasks)[k] = IF k <= Len(Contents) THEN Contents[k]
                                        ELSE pTasks[k - Len(Contents)]
    BY <1>2, <1>3, ConcatProperties, Zenon
  <2>2. Len(Contents) = s
    BY <1>2
  <2> HIDE DEF s
  <2> QED BY <2>1, <2>2
<1>6. ASSUME NEW k \in 1..(s + n) PROVE Element(k) = (Contents \o pTasks)[k]
  <2>1. CASE k <= s
    BY <2>1, <1>0, <1>2, <1>5
  <2>2. CASE ~(k <= s)
    <3> DEFINE d == k - 1
    <3>1. /\ d \in Slots /\ head + k - 1 = head + d /\ s <= d /\ d < s + n
          /\ d - s + 1 = k - s
      BY <2>2, <1>0 DEF Slots
    <3>2. Written = n
      BY <1>0 DEF Written
    <3>3. ~(cPc \in {"take", "clear"} /\ k <= Len(cOut))
      BY <2>2, <1>0, <1>n DEF NumbersOK, Inv, ConsumerInv, StaleIndexSafe
    <3> HIDE DEF d
    <3>4. tasks[Slot(head + d)] = pTasks[d - s + 1]
      BY <3>1, <3>2 DEF Inv, RingInv
    <3>5. Element(k) = pTasks[k - s]
      BY <3>1, <3>3, <3>4 DEF Element
    <3> QED BY <2>2, <3>5, <1>5
  <2> QED BY <2>1, <2>2
<1> HIDE DEF s, n
<1>7. Contents' = Contents \o pTasks
  <2> DEFINE f == Contents'
             t == Contents \o pTasks
             m == s + n
  <2>1. \A k \in 1..m : f[k] = t[k]
    BY <1>4, <1>6
  <2>2. f = [k \in 1..m |-> f[k]] /\ m \in Nat
    BY <1>0, <1>4
  <2>3. t \in Seq(Task) /\ Len(t) = m
    BY <1>5
  <2> HIDE DEF f, t, m
  <2>4. f = t
    BY <2>1, <2>2, <2>3, FunctionIsSeq
  <2> QED BY <2>4 DEF f, t
<1>8. pTasks \in FIFO!Batches
  <2>1. pTasks \in [1..n -> Task]
    BY <1>3, LenProperties DEF n
  <2>2. n \in 1..MaxBatch
    BY <1>0, <1>3, <1>n DEF NumbersOK
  <2> QED BY <2>1, <2>2 DEF FIFO!Batches
<1>9. Len(Contents) + Len(pTasks) <= Capacity - 1
  BY <1>0, <1>2 DEF n
<1> QED BY <1>0, <1>7, <1>8, <1>9 DEF FIFO!Accept

\* The store of head hands out the oldest tasks, in order.
LEMMA PublishHandsOut ==
    ASSUME Inv, DequeuePublish
    PROVE  \E n \in 1..MaxBatch : FIFO!HandOut(n)
<1> DEFINE s == Size(head, tail)
           n == cMax
<1>n. NumbersOK
  BY Numbers
<1>0. /\ s \in Nat /\ n \in Nat /\ n >= 1 /\ n <= s /\ s < Capacity
      /\ Capacity \in Nat /\ cPc = "take" /\ cPc' = "idle" /\ Len(cOut) = n
      /\ cHead = head /\ head' = Advance(head, n) /\ head \in Int /\ tail \in Int
      /\ UNCHANGED <<tail, tasks>> /\ returned' = cOut
  BY <1>n DEF NumbersOK, Inv, ConsumerInv, StaleIndexSafe, DequeuePublish
<1>1. Size(head', tail') = s - n
  BY <1>0, SizeRemove
<1>2. /\ Contents \in Seq(Task) /\ Len(Contents) = s
      /\ \A k \in 1..s : Contents[k] = Element(k)
  BY ContentsType
<1>3. cOut \in Seq(Task) /\ n \in 1..MaxBatch
  BY <1>0, <1>n DEF Inv, TypeOK, NumbersOK
<1>4. returned' = SubSeq(Contents, 1, n)
  <2> HIDE DEF s, n
  <2>1. \A k \in 1..n : Contents[k] \in Task
    BY <1>0, <1>2, ElementOfSeq
  <2>2. /\ SubSeq(Contents, 1, n) \in Seq(Task) /\ Len(SubSeq(Contents, 1, n)) = n
        /\ \A k \in 1..n : SubSeq(Contents, 1, n)[k] = Contents[k]
    BY <2>1, <1>0, SubSeqProperties
  <2>3. \A k \in 1..n : cOut[k] = Contents[k]
    BY <1>0, <1>2 DEF Element
  <2> QED BY <1>0, <1>3, <2>2, <2>3, SeqEqual
<1>5. Contents' = [k \in 1..(s - n) |-> tasks[Slot(head' + k - 1)]]
  BY <1>0, <1>1 DEF Contents
<1>6. ASSUME NEW k \in 1..(s - n) PROVE tasks[Slot(head' + k - 1)] = Contents[n + k]
  <2>1. /\ n + k \in 1..s /\ head' + k - 1 = Advance(head, n) + (k - 1)
        /\ head + n + (k - 1) = head + (n + k) - 1 /\ k - 1 \in Int /\ ~(n + k <= n)
    <3>1. Advance(head, n) \in Int
      BY <1>0, AdvanceType, QueueAssumption DEF Index
    <3> QED BY <1>0, <3>1
  <2>2. Slot(Advance(head, n) + (k - 1)) = Slot(head + n + (k - 1))
    BY <1>0, <2>1, SlotOfAdvance
  <2>3. Element(n + k) = tasks[Slot(head + (n + k) - 1)]
    BY <1>0, <2>1 DEF Element
  <2> QED BY <1>2, <2>1, <2>2, <2>3
<1> HIDE DEF s, n
<1>7. Contents' = SubSeq(Contents, n + 1, s)
  <2> DEFINE f == Contents'
             t == SubSeq(Contents, n + 1, s)
             m == s - n
  <2>1. \A k \in (n + 1)..s : Contents[k] \in Task
    BY <1>0, <1>2, ElementOfSeq
  <2>2. n + 1 \in Int /\ s \in Int
    BY <1>0
  <2>3. /\ t \in Seq(Task)
        /\ Len(t) = IF n + 1 <= s THEN s - (n + 1) + 1 ELSE 0
        /\ \A k \in 1..(s - (n + 1) + 1) : t[k] = Contents[n + 1 + k - 1]
    BY <2>1, <2>2, SubSeqProperties
  <2>4. Len(t) = m /\ m \in Nat /\ \A k \in 1..m : t[k] = Contents[n + k]
    BY <1>0, <2>3
  <2>5. f = [k \in 1..m |-> f[k]] /\ \A k \in 1..m : f[k] = Contents[n + k]
    BY <1>5, <1>6
  <2> HIDE DEF f, t, m
  <2>6. f = t
    BY <2>3, <2>4, <2>5, FunctionIsSeq
  <2> QED BY <2>6 DEF f, t
<1> QED BY <1>0, <1>2, <1>3, <1>4, <1>7 DEF FIFO!HandOut

\* lockfree_queue.c implements a bounded first-in first-out queue: whatever the
\* interleaving, tasks leave in the order in which they came, each exactly once.
THEOREM Refinement == Spec => ImplementsFIFO
<1>1. Init => FIFO!Init
  <2> SUFFICES ASSUME Init PROVE Contents = << >> /\ returned = << >>
    BY DEF FIFO!Init
  <2>1. Size(head, tail) = 0
    BY QueueAssumption DEF Init, Size
  <2> QED BY <2>1 DEF Init, Contents
<1>2. Inv /\ [Next]_vars => [FIFO!Next]_(FIFO!vars)
  <2> SUFFICES ASSUME Inv, [Next]_vars
      PROVE  \/ \E batch \in FIFO!Batches : FIFO!Accept(batch)
             \/ \E n \in 1..MaxBatch : FIFO!HandOut(n)
             \/ Contents' = Contents /\ returned' = returned
    BY DEF FIFO!Next, FIFO!vars
  <2>1. CASE UNCHANGED vars
    BY <2>1 DEF vars, Contents
  <2>2. CASE Enqueue \/ EnqueueBatch \/ EnqueueCheck \/ EnqueueBatchCheck
    BY <2>2, ProducerStutters
  <2>3. CASE EnqueueWrite
    BY <2>3, WriteStutters
  <2>4. CASE EnqueuePublish
    BY <2>4, PublishAccepts
  <2>5. CASE Dequeue \/ DequeueBatch \/ DequeueCheck \/ DequeueBatchCheck
    BY <2>5, ConsumerStutters
  <2>6. CASE DequeueTake
    BY <2>6, TakeStutters
  <2>7. CASE DequeueClear
    BY <2>7, ClearStutters
  <2>8. CASE DequeuePublish
    BY <2>8, PublishHandsOut
  <2> QED BY <2>1, <2>2, <2>3, <2>4, <2>5, <2>6, <2>7, <2>8
          DEF Next, ProducerStep, ConsumerStep
<1> QED BY <1>1, <1>2, Invariance, PTL DEF Spec, ImplementsFIFO, FIFO!Spec
=============================================================================

--------------------------- MODULE ShmRingProofs ----------------------------
(***************************************************************************)
(* Proofs about ShmRing, for every number of processes, every length of    *)
(* the ring and every size of slots and items, with any number of deaths:  *)
(* an inductive invariant, the theorems that follow from it, and that the  *)
(* ring implements TaskFIFO.                                               *)
(***************************************************************************)
EXTENDS ShmRing, SequenceTheorems, FiniteSetTheorems, TLAPS

-----------------------------------------------------------------------------
(* The inductive invariant *)

\* The slot i places behind consumer_pos, and the address of a slot.
Pos(i) == (cpos + i) % QueueSize
Addr(j) == j * SlotSize

\* Mutual exclusion: the holder of shm->mutex is the process between its test and
\* its unlock, dead or alive.
MutexInv == \A t \in Procs : pc[t] \in Critical <=> mutex = t

\* The slot at address s holds all of x.
Holds(s, x) ==
    /\ cells[s] = ItemSize[x]
    /\ \A a \in s + 1 .. s + ItemSize[x] : cells[a] = x

\* A producer inside a call has an item; after its write the slot at producer_pos,
\* which is not the last free one, holds all of it.
ProducerInv ==
    /\ \A p \in Producers : pc[p] \in {"lock", "test", "publish", "asleep"} => item[p] \in Items
    /\ \A p \in Producers : pc[p] = "publish" => ~IsFull /\ Holds(Addr(ppos), item[p])

\* A consumer that has copied an item has copied the oldest one.
ConsumerInv ==
    \A c \in Consumers : pc[c] = "publish" => ~IsEmpty /\ item[c] = cells[Addr(cpos) + 1]

\* May cell a of the item at place i be the header of the slot behind it?
Covered(i, a) ==
    /\ a = SlotAt(i - 1) + SlotSize /\ a # QueueSize * SlotSize
    /\ i < Size \/ \E p \in Producers : pc[p] = "publish"

\* Place i of the unread ones holds an item, all but the cell the next may cover.
Unread(i, s, x) ==
    /\ x \in Items /\ cells[s] = ItemSize[x]
    /\ \A a \in s + 1 .. s + ItemSize[x] : cells[a] = x \/ Covered(i, a)

SlotInv == \A i \in 1 .. Size : Unread(i, SlotAt(i - 1), cells[SlotAt(i - 1) + 1])

Inv == TypeOK /\ MutexInv /\ ProducerInv /\ ConsumerInv /\ SlotInv /\ NoLostWakeup

-----------------------------------------------------------------------------
(* Positions and addresses *)

\* The constants as the provers need them.
LEMMA Sizes ==
    /\ QueueSize \in Nat /\ QueueSize > 0 /\ SlotSize \in Nat /\ SlotSize > 1
    /\ \A x \in Items : ItemSize[x] \in 1 .. SlotSize
    /\ Producers \cap Consumers = {} /\ NULL \notin Items /\ NULL \notin Procs
BY ShmRingAssumption DEF Procs

\* A remainder within two laps of the ring.
LEMMA WithinTwoLaps ==
    ASSUME NEW a \in 0 .. 2 * QueueSize - 1
    PROVE  a % QueueSize = IF a < QueueSize THEN a ELSE a - QueueSize
<1>0. QueueSize \in Nat \ {0}
  BY Sizes
<1>1. ASSUME NEW q \in Int, NEW r \in 0 .. QueueSize - 1 PROVE (QueueSize * q + r) % QueueSize = r
  BY <1>0
<1>2. CASE a < QueueSize
  <2>1. a \in 0 .. QueueSize - 1 /\ QueueSize * 0 + a = a
    BY <1>0, <1>2
  <2> QED BY <1>1, <1>2, <2>1
<1>3. CASE ~(a < QueueSize)
  <2> DEFINE r == a - QueueSize
  <2>1. r \in 0 .. QueueSize - 1 /\ QueueSize * 1 + r = a
    BY <1>0, <1>3
  <2> HIDE DEF r
  <2>2. (QueueSize * 1 + r) % QueueSize = r
    BY <1>1, <2>1
  <2> QED BY <1>3, <2>1, <2>2 DEF r
<1> QED BY <1>2, <1>3

\* A function on 1..m that agrees with a sequence of length m is that sequence.
LEMMA FunctionIsSeq ==
    ASSUME NEW S, NEW f, NEW t \in Seq(S), NEW m \in Nat, Len(t) = m,
           f = [k \in 1..m |-> f[k]], \A k \in 1..m : f[k] = t[k]
    PROVE  f = t
<1>1. \A k \in 1..m : t[k] \in S
  BY ElementOfSeq
<1>2. f \in [1..m -> S]
  BY <1>1
<1>3. f \in Seq(S) /\ Len(f) = m
  BY <1>2
<1> QED BY <1>3, SeqEqual

\* Where the next position, the unread slots and producer_pos are, and what the
\* size of the ring is before and after it is full or empty.
LEMMA Positions ==
    ASSUME TypeOK
    PROVE  /\ ppos \in 0 .. QueueSize - 1 /\ cpos \in 0 .. QueueSize - 1
           /\ NextPos(ppos) = IF ppos + 1 < QueueSize THEN ppos + 1 ELSE 0
           /\ NextPos(cpos) = IF cpos + 1 < QueueSize THEN cpos + 1 ELSE 0
           /\ \A i \in 0 .. QueueSize - 1 :
                 Pos(i) = IF cpos + i < QueueSize THEN cpos + i ELSE cpos + i - QueueSize
           /\ Size \in 0 .. QueueSize - 1
           /\ IsEmpty <=> Size = 0
           /\ IsFull <=> Size = QueueSize - 1
<1>0. ppos \in 0 .. QueueSize - 1 /\ cpos \in 0 .. QueueSize - 1
      /\ QueueSize \in Nat /\ QueueSize > 0
  BY Sizes DEF TypeOK
<1>1. /\ ppos + 1 \in 0 .. 2 * QueueSize - 1 /\ cpos + 1 \in 0 .. 2 * QueueSize - 1
      /\ \A i \in 0 .. QueueSize - 1 : cpos + i \in 0 .. 2 * QueueSize - 1
  BY <1>0
<1>2. NextPos(ppos) = IF ppos + 1 < QueueSize THEN ppos + 1 ELSE 0
  BY <1>0, <1>1, WithinTwoLaps DEF NextPos
<1>3. NextPos(cpos) = IF cpos + 1 < QueueSize THEN cpos + 1 ELSE 0
  BY <1>0, <1>1, WithinTwoLaps DEF NextPos
<1>4. \A i \in 0 .. QueueSize - 1 :
         Pos(i) = IF cpos + i < QueueSize THEN cpos + i ELSE cpos + i - QueueSize
  BY <1>0, <1>1, WithinTwoLaps DEF Pos
<1>5. Size \in 0 .. QueueSize - 1 /\ (IsEmpty <=> Size = 0)
  BY <1>0 DEF Size, IsEmpty
<1>6. IsFull <=> Size = QueueSize - 1
  BY <1>0, <1>2 DEF Size, IsFull
<1> QED BY <1>0, <1>2, <1>3, <1>4, <1>5, <1>6

\* Slots are a slot's size apart, and the last one ends one cell before the end.
LEMMA Addresses ==
    ASSUME NEW j \in 0 .. QueueSize - 1, NEW k \in 0 .. QueueSize - 1
    PROVE  /\ Addr(j) \in Nat /\ Addr(j) + SlotSize <= QueueSize * SlotSize
           /\ QueueSize * SlotSize \in Nat
           /\ j < k => Addr(j) + SlotSize <= Addr(k)
           /\ j + 1 < k => Addr(j) + 2 * SlotSize <= Addr(k)
           /\ j + 1 = k => Addr(j) + SlotSize = Addr(k)
<1>0. QueueSize \in Nat /\ SlotSize \in Nat /\ SlotSize > 1
  BY Sizes
<1>1. /\ j * SlotSize \in Nat /\ k * SlotSize \in Nat /\ QueueSize * SlotSize \in Nat
  BY <1>0
<1>2. ASSUME NEW d \in Nat, NEW e \in Nat, d <= e PROVE d * SlotSize <= e * SlotSize
  BY <1>0, <1>2
<1>3. (j + 1) * SlotSize = j * SlotSize + SlotSize
      /\ (j + 2) * SlotSize = j * SlotSize + 2 * SlotSize
  BY <1>0
<1>4. (j + 1) * SlotSize <= QueueSize * SlotSize
  BY <1>0, <1>2
<1>5. j < k => (j + 1) * SlotSize <= k * SlotSize
  BY <1>0, <1>2
<1>6. j + 1 < k => (j + 2) * SlotSize <= k * SlotSize
  BY <1>0, <1>2
<1> QED BY <1>1, <1>3, <1>4, <1>5, <1>6 DEF Addr

\* The unread slots are neither the one at producer_pos nor, unless the ring is
\* full, the one behind it.
LEMMA UnreadPlaces ==
    ASSUME TypeOK, NEW i \in 1 .. Size
    PROVE  /\ Pos(i - 1) \in 0 .. QueueSize - 1 /\ SlotAt(i - 1) = Addr(Pos(i - 1))
           /\ Pos(i - 1) # ppos
           /\ ~IsFull => Pos(i - 1) # ppos + 1
<1>0. QueueSize \in Nat /\ QueueSize > 0
  BY Sizes
<1>1. i - 1 \in 0 .. QueueSize - 1
  BY <1>0, Positions
<1>2. Pos(i - 1) = IF cpos + (i - 1) < QueueSize THEN cpos + (i - 1)
                   ELSE cpos + (i - 1) - QueueSize
  BY <1>1, Positions
<1>3. SlotAt(i - 1) = Addr(Pos(i - 1))
  BY DEF SlotAt, Addr, Pos
<1> QED BY <1>0, <1>1, <1>2, <1>3, Positions DEF Size, IsFull

\* Storing producer_pos makes the ring longer by one, at the end.
LEMMA ProducerAdvances ==
    ASSUME TypeOK, ~IsFull, ppos' = NextPos(ppos), cpos' = cpos
    PROVE  /\ Size' = Size + 1 /\ ppos' \in 0 .. QueueSize - 1
           /\ SlotAt(Size) = Addr(ppos)
           /\ \A i \in 0 .. QueueSize - 1 : SlotAt(i)' = SlotAt(i)
<1>0. QueueSize \in Nat /\ QueueSize > 0
  BY Sizes
<1>1. Size' = Size + 1 /\ ppos' \in 0 .. QueueSize - 1
  <2>1. /\ ppos \in 0 .. QueueSize - 1 /\ cpos \in 0 .. QueueSize - 1
        /\ ppos' = IF ppos + 1 < QueueSize THEN ppos + 1 ELSE 0
        /\ ppos' # cpos
    BY Positions DEF IsFull
  <2> QED BY <1>0, <2>1 DEF Size
<1>2. Pos(Size) = ppos
  BY <1>0, Positions DEF Size
<1>3. SlotAt(Size) = Addr(ppos)
  BY <1>2 DEF SlotAt, Addr, Pos
<1> QED BY <1>1, <1>3 DEF SlotAt

\* Storing consumer_pos makes the ring shorter by one, at the front.
LEMMA ConsumerAdvances ==
    ASSUME TypeOK, ~IsEmpty, cpos' = NextPos(cpos), ppos' = ppos
    PROVE  /\ Size' = Size - 1 /\ cpos' \in 0 .. QueueSize - 1 /\ Size >= 1
           /\ \A i \in 0 .. Size - 1 : SlotAt(i)' = SlotAt(i + 1)
           /\ SlotAt(0) = Addr(cpos)
<1>0. QueueSize \in Nat /\ QueueSize > 0
  BY Sizes
<1>1. Size' = Size - 1 /\ cpos' \in 0 .. QueueSize - 1 /\ Size >= 1
  BY <1>0, Positions DEF Size, IsEmpty
<1>2. ASSUME NEW i \in 0 .. Size - 1 PROVE SlotAt(i)' = SlotAt(i + 1)
  <2>1. cpos' \in 0 .. QueueSize - 1 /\ cpos' + i \in 0 .. 2 * QueueSize - 1
    BY <1>0, <1>1, Positions
  <2>2. cpos + (i + 1) \in 0 .. 2 * QueueSize - 1
    BY <1>0, Positions
  <2>3. (cpos' + i) % QueueSize = (cpos + (i + 1)) % QueueSize
    <3>1. /\ cpos' = IF cpos + 1 < QueueSize THEN cpos + 1 ELSE 0
          /\ cpos \in 0 .. QueueSize - 1 /\ i \in 0 .. QueueSize - 2
      BY <1>0, Positions
    <3>2. CASE cpos + 1 < QueueSize
      <4>1. cpos' + i = cpos + (i + 1)
        BY <1>0, <3>1, <3>2
      <4> QED BY <4>1
    <3>3. CASE ~(cpos + 1 < QueueSize)
      <4>1. cpos' + i = i /\ cpos + (i + 1) = QueueSize + i
        BY <1>0, <3>1, <3>3
      <4>2. (cpos' + i) % QueueSize = i
        BY <1>0, <2>1, <3>1, <4>1, WithinTwoLaps
      <4>3. (cpos + (i + 1)) % QueueSize = i
        BY <1>0, <2>2, <3>1, <4>1, WithinTwoLaps
      <4> QED BY <4>2, <4>3
    <3> QED BY <3>2, <3>3
  <2> QED BY <2>3 DEF SlotAt
<1>3. Pos(0) = cpos
  BY <1>0, Positions
<1>4. SlotAt(0) = Addr(cpos)
  BY <1>3 DEF SlotAt, Addr, Pos
<1> QED BY <1>1, <1>2, <1>4

-----------------------------------------------------------------------------
(* Steps that leave the ring alone *)

\* A step that neither writes a slot nor moves a position, and lets no producer
\* leave between its write and its publication, keeps what is in the ring.
LEMMA RingStays ==
    ASSUME Inv, UNCHANGED ring,
           \A p \in Producers : pc'[p] = "publish" <=> pc[p] = "publish",
           \A p \in Producers : pc[p] = "publish" => item'[p] = item[p]
    PROVE  /\ SlotInv'
           /\ \A p \in Producers : pc'[p] = "publish" =>
                 ~IsFull' /\ Holds(Addr(ppos), item[p])'
<1>1. ppos' = ppos /\ cpos' = cpos /\ cells' = cells
  BY DEF ring
<1>2. /\ Size' = Size /\ IsFull' = IsFull
      /\ \A i \in 1 .. Size : SlotAt(i - 1)' = SlotAt(i - 1)
  BY <1>1 DEF Size, IsFull, NextPos, SlotAt
<1>3. (\E p \in Producers : pc'[p] = "publish") <=> (\E p \in Producers : pc[p] = "publish")
  OBVIOUS
<1>4. SlotInv'
  BY <1>1, <1>2, <1>3 DEF Inv, SlotInv, Unread, Covered
<1>5. \A p \in Producers : pc'[p] = "publish" =>
                 ~IsFull' /\ Holds(Addr(ppos), item[p])'
  BY <1>1, <1>2 DEF Inv, ProducerInv, Holds, Addr
<1> QED BY <1>4, <1>5

-----------------------------------------------------------------------------
(* Types and mutual exclusion *)

\* The process that is in its critical section is the only one.
LEMMA Alone ==
    ASSUME Inv, NEW t \in Procs, mutex = t
    PROVE  \A u \in Procs \ {t} : pc[u] \notin Critical
BY DEF Inv, MutexInv

\* So is nobody when the mutex is free.
LEMMA NobodyInside ==
    ASSUME Inv, mutex = NULL
    PROVE  \A u \in Procs : pc[u] \notin Critical
BY Sizes DEF Inv, MutexInv

\* What is in the cells of an unread slot.
LEMMA FrontIsItem ==
    ASSUME Inv, ~IsEmpty
    PROVE  cells[Addr(cpos) + 1] \in Items
<1>0. TypeOK
  BY DEF Inv
<1>1. Size \in Nat /\ 1 \in 1 .. Size /\ QueueSize \in Nat
  BY <1>0, Positions, Sizes
<1>2. Pos(0) = cpos
  BY <1>0, <1>1, Positions, Sizes
<1>3. SlotAt(1 - 1) = Addr(cpos)
  BY <1>2 DEF SlotAt, Addr, Pos
<1> QED BY <1>1, <1>3 DEF Inv, SlotInv, Unread

\* Types and mutual exclusion, and what the next steps of a process rest on.
Control == TypeOK /\ MutexInv /\ ProducerInv /\ ConsumerInv

\* Taking the mutex keeps them.
LEMMA LockControl ==
    ASSUME Inv, NEW t \in Procs, Lock(t)
    PROVE  Control' /\ SlotInv'
<1> USE DEF Lock, Goto, ghost, call
<1>0. /\ pc \in [Procs -> Places] /\ \A u \in Procs : pc[u] \notin Critical
      /\ Producers \subseteq Procs /\ Consumers \subseteq Procs
  BY NobodyInside DEF Inv, TypeOK, Procs
<1>1. /\ pc' \in [Procs -> Places] /\ mutex' = t
      /\ \A u \in Procs \ {t} : pc'[u] = pc[u]
      /\ \/ pc[t] = "lock" /\ pc'[t] = "test"
         \/ pc[t] = "timedout" /\ pc'[t] = "unlock"
  BY <1>0 DEF Places
<1>2. TypeOK'
  BY <1>1 DEF Inv, TypeOK, ring
<1>3. MutexInv'
  BY <1>0, <1>1 DEF MutexInv, Critical
<1>4. SlotInv' /\ \A p \in Producers : pc'[p] = "publish" =>
                       ~IsFull' /\ Holds(Addr(ppos), item[p])'
  BY <1>0, <1>1, RingStays DEF Critical
<1>5. ProducerInv'
  BY <1>0, <1>1, <1>4 DEF Inv, ProducerInv
<1>6. ConsumerInv'
  BY <1>0, <1>1 DEF ConsumerInv, Critical
<1> QED BY <1>2, <1>3, <1>4, <1>5, <1>6 DEF Control

\* A call that begins, a wait that ends without a signal and a death keep them.
LEMMA BeginControl ==
    ASSUME Inv, NEW t \in Procs,
           \/ t \in Producers /\ Enqueue(t)
           \/ t \in Consumers /\ Dequeue(t)
           \/ t \in Consumers /\ Timeout(t)
           \/ SpuriousWake(t) \/ Crash(t)
    PROVE  Control' /\ SlotInv'
<1> USE DEF Enqueue, Dequeue, Timeout, SpuriousWake, Crash, Goto, ghost, call
<1>0. /\ pc \in [Procs -> Places]
      /\ item \in [Procs -> Items \cup {NULL}]
      /\ mode \in [Procs -> {"wait", "timed", "try"}]
      /\ Producers \subseteq Procs /\ Consumers \subseteq Procs
      /\ Producers \cap Consumers = {}
  BY Sizes DEF Inv, TypeOK, Procs
<1>1. /\ pc' \in [Procs -> Places]
      /\ \A u \in Procs \ {t} : pc'[u] = pc[u] /\ item'[u] = item[u]
      /\ mode' \in [Procs -> {"wait", "timed", "try"}]
      /\ item' \in [Procs -> Items \cup {NULL}]
      /\ ring' = ring
  BY <1>0 DEF Places
<1>2. \/ pc[t] = "idle" /\ pc'[t] = "lock" /\ mutex' = mutex
      \/ pc[t] = "idle" /\ pc'[t] = "test" /\ mutex' = t /\ mutex = NULL
      \/ t \in Consumers /\ pc[t] = "asleep" /\ pc'[t] = "timedout" /\ mutex' = mutex
      \/ pc[t] = "asleep" /\ pc'[t] = "lock" /\ mutex' = mutex /\ item' = item
      \/ pc'[t] = pc[t] /\ mutex' = mutex /\ item' = item
  BY <1>0
<1>3. t \in Producers => \/ item'[t] \in Items \/ (item' = item /\ pc' = pc)
                         \/ (item' = item /\ pc[t] = "asleep")
  <2>1. CASE t \in Producers /\ Enqueue(t)
    BY <1>0, <2>1
  <2>2. CASE SpuriousWake(t) \/ Crash(t)
    BY <2>2
  <2>3. t \in Producers => Enqueue(t) \/ SpuriousWake(t) \/ Crash(t)
    BY Sizes
  <2> QED BY <2>1, <2>2, <2>3
<1>4. TypeOK'
  <2>1. dead' \subseteq Procs /\ refused' \in BOOLEAN
    BY DEF Inv, TypeOK
  <2>2. mutex' \in Procs \cup {NULL}
    BY <1>2 DEF Inv, TypeOK
  <2> QED BY <1>1, <2>1, <2>2 DEF Inv, TypeOK, ring
<1>5. MutexInv'
  BY <1>0, <1>1, <1>2, Sizes DEF Inv, MutexInv, Critical
<1>6. SlotInv' /\ \A p \in Producers : pc'[p] = "publish" =>
                       ~IsFull' /\ Holds(Addr(ppos), item[p])'
  BY <1>0, <1>1, <1>2, RingStays
<1>7. ProducerInv'
  BY <1>0, <1>1, <1>2, <1>3, <1>6 DEF Inv, ProducerInv
<1>8. ConsumerInv'
  BY <1>0, <1>1, <1>2 DEF Inv, ConsumerInv, ring, IsEmpty, Addr
<1> QED BY <1>4, <1>5, <1>6, <1>7, <1>8 DEF Control

\* A full ring, for a producer, and an empty one, or an item that is too large,
\* for a consumer: the call is on its way out or sleeps.
LEMMA LeaveControl ==
    ASSUME Inv, NEW t \in Procs, pc[t] = "test", mutex = t,
           UNCHANGED <<ring, call, dead>>, refused' \in BOOLEAN,
           GiveUpOrSleep(t) \/ (Goto(t, "unlock") /\ mutex' = mutex)
    PROVE  Control' /\ SlotInv'
<1>0. /\ pc \in [Procs -> Places]
      /\ Producers \subseteq Procs /\ Consumers \subseteq Procs
      /\ item' = item /\ mode' = mode
  BY DEF Inv, TypeOK, Procs, call
<1>1. /\ pc' \in [Procs -> Places]
      /\ \A u \in Procs \ {t} : pc'[u] = pc[u]
      /\ (pc'[t] = "unlock" /\ mutex' = t) \/ (pc'[t] = "asleep" /\ mutex' = NULL)
  BY <1>0 DEF GiveUpOrSleep, Goto, Places
<1>2. TypeOK'
  BY <1>0, <1>1 DEF Inv, TypeOK, ring
<1>3. MutexInv'
  BY <1>0, <1>1, Alone, Sizes DEF MutexInv, Critical
<1>4. SlotInv' /\ \A p \in Producers : pc'[p] = "publish" =>
                       ~IsFull' /\ Holds(Addr(ppos), item[p])'
  BY <1>0, <1>1, RingStays
<1>5. ProducerInv'
  BY <1>0, <1>1, <1>4 DEF Inv, ProducerInv
<1>6. ConsumerInv'
  BY <1>0, <1>1 DEF Inv, ConsumerInv, ring, IsEmpty, Addr
<1> QED BY <1>2, <1>3, <1>4, <1>5, <1>6 DEF Control

\* pthread_cond_signal wakes one sleeper, if there is one.
LEMMA SignalEffect ==
    ASSUME Inv, NEW t \in Procs, NEW S \in SUBSET Procs, Signal(t, S)
    PROVE  /\ pc[t] = "signal" /\ mutex = t /\ pc'[t] = "unlock" /\ pc' \in [Procs -> Places]
           /\ UNCHANGED <<ring, mutex, call, ghost>>
           /\ \/ Asleep(S) = {} /\ \A v \in Procs \ {t} : pc'[v] = pc[v]
              \/ \E u \in Asleep(S) : /\ u # t /\ pc[u] = "asleep" /\ pc'[u] = "lock"
                                      /\ \A v \in Procs \ {t, u} : pc'[v] = pc[v]
<1>0. pc \in [Procs -> Places] /\ pc[t] = "signal"
  BY DEF Inv, TypeOK, Signal
<1>1. CASE Asleep(S) = {} /\ Goto(t, "unlock")
  BY <1>0, <1>1 DEF Signal, Goto, Places
<1>2. ASSUME NEW u \in Asleep(S), pc' = [pc EXCEPT ![u] = "lock", ![t] = "unlock"]
      PROVE  /\ pc'[t] = "unlock" /\ u # t /\ pc[u] = "asleep" /\ pc'[u] = "lock"
             /\ pc' \in [Procs -> Places]
             /\ \A v \in Procs \ {t, u} : pc'[v] = pc[v]
  BY <1>0, <1>2 DEF Asleep, Places
<1>3. /\ mutex = t /\ UNCHANGED <<ring, mutex, call, ghost>>
      /\ \/ Asleep(S) = {} /\ Goto(t, "unlock")
         \/ \E u \in Asleep(S) : pc' = [pc EXCEPT ![u] = "lock", ![t] = "unlock"]
  BY DEF Signal
<1>4. CASE \E u \in Asleep(S) : pc' = [pc EXCEPT ![u] = "lock", ![t] = "unlock"]
  BY <1>0, <1>2, <1>3, <1>4
<1> QED BY <1>0, <1>1, <1>3, <1>4 DEF Goto

\* Whoever is woken goes for the mutex, everybody else stays where it is.
LEMMA SignalControl ==
    ASSUME Inv, NEW t \in Procs, NEW S \in SUBSET Procs, Signal(t, S)
    PROVE  Control' /\ SlotInv'
<1>0. Producers \subseteq Procs /\ Consumers \subseteq Procs
  BY DEF Procs
<1>1. /\ pc[t] = "signal" /\ mutex = t /\ pc'[t] = "unlock" /\ pc' \in [Procs -> Places]
      /\ UNCHANGED <<ring, mutex, call, ghost>>
      /\ \A v \in Procs \ {t} : pc'[v] = pc[v] \/ (pc[v] = "asleep" /\ pc'[v] = "lock")
  BY SignalEffect
<1>2. TypeOK'
  BY <1>1 DEF Inv, TypeOK, ring, call, ghost
<1>3. MutexInv'
  BY <1>1 DEF Inv, MutexInv, Critical
<1>4. SlotInv' /\ \A p \in Producers : pc'[p] = "publish" =>
                       ~IsFull' /\ Holds(Addr(ppos), item[p])'
  BY <1>0, <1>1, RingStays DEF call
<1>5. ProducerInv'
  BY <1>0, <1>1, <1>4 DEF Inv, ProducerInv, call
<1>6. ConsumerInv'
  BY <1>0, <1>1 DEF Inv, ConsumerInv, ring, call, IsEmpty, Addr
<1> QED BY <1>2, <1>3, <1>4, <1>5, <1>6 DEF Control

\* The unlock keeps them.
LEMMA UnlockControl ==
    ASSUME Inv, NEW t \in Procs, Unlock(t)
    PROVE  Control' /\ SlotInv'
<1> USE DEF Unlock, Goto, ghost
<1>0. /\ pc \in [Procs -> Places]
      /\ item \in [Procs -> Items \cup {NULL}]
      /\ mode \in [Procs -> {"wait", "timed", "try"}]
      /\ Producers \subseteq Procs /\ Consumers \subseteq Procs
  BY DEF Inv, TypeOK, Procs
<1>1. /\ pc' \in [Procs -> Places] /\ pc[t] = "unlock" /\ pc'[t] = "idle"
      /\ \A u \in Procs \ {t} : pc'[u] = pc[u] /\ item'[u] = item[u]
      /\ mode' \in [Procs -> {"wait", "timed", "try"}]
      /\ item' \in [Procs -> Items \cup {NULL}]
      /\ mutex = t /\ mutex' = NULL
  BY <1>0 DEF Places
<1>2. TypeOK'
  BY <1>1 DEF Inv, TypeOK, ring
<1>3. MutexInv'
  BY <1>0, <1>1, Alone, Sizes DEF MutexInv, Critical
<1>4. SlotInv' /\ \A p \in Producers : pc'[p] = "publish" =>
                       ~IsFull' /\ Holds(Addr(ppos), item[p])'
  BY <1>0, <1>1, RingStays
<1>5. ProducerInv'
  BY <1>0, <1>1, <1>4 DEF Inv, ProducerInv
<1>6. ConsumerInv'
  BY <1>0, <1>1 DEF Inv, ConsumerInv, ring, IsEmpty, Addr
<1> QED BY <1>2, <1>3, <1>4, <1>5, <1>6 DEF Control

-----------------------------------------------------------------------------
(* Writing and publishing *)

\* Which cells the write of an item changes, seen from the unread slots: at most
\* the cell right behind a slot, when that is the header of the slot written.
LEMMA WriteSparesUnread ==
    ASSUME Inv, ~IsFull, NEW i \in 1 .. Size, NEW x \in Items,
           NEW a \in SlotAt(i - 1) .. SlotAt(i - 1) + SlotSize,
           a \in Addr(ppos) .. Addr(ppos) + ItemSize[x]
    PROVE  a = SlotAt(i - 1) + SlotSize /\ a # QueueSize * SlotSize
<1>0. /\ TypeOK /\ SlotSize \in Nat /\ SlotSize > 1 /\ QueueSize \in Nat
      /\ ItemSize[x] \in 1 .. SlotSize
  BY Sizes DEF Inv
<1> DEFINE j == Pos(i - 1)
<1>1. j \in 0 .. QueueSize - 1 /\ SlotAt(i - 1) = Addr(j) /\ j # ppos /\ j # ppos + 1
  BY <1>0, UnreadPlaces
<1>2. ppos \in 0 .. QueueSize - 1
  BY <1>0, Positions
<1> HIDE DEF j
<1>3. Addr(j) \in Nat /\ Addr(ppos) \in Nat /\ Addr(ppos) + SlotSize <= QueueSize * SlotSize
      /\ QueueSize * SlotSize \in Nat
  BY <1>1, <1>2, Addresses
<1>4. CASE j < ppos
  <2>1. Addr(j) + SlotSize <= Addr(ppos)
    BY <1>1, <1>2, <1>4, Addresses
  <2> QED BY <1>0, <1>1, <1>3, <2>1
<1>5. CASE j > ppos
  <2>1. ppos + 1 < j
    BY <1>1, <1>2, <1>5
  <2>2. Addr(ppos) + 2 * SlotSize <= Addr(j)
    BY <1>1, <1>2, <2>1, Addresses
  <2> QED BY <1>0, <1>1, <1>3, <2>2
<1> QED BY <1>1, <1>2, <1>4, <1>5

\* The cells of a slot are cells of the ring.
LEMMA SlotCells ==
    ASSUME NEW j \in 0 .. QueueSize - 1, NEW a \in Addr(j) .. Addr(j) + SlotSize
    PROVE  a \in Cell
<1>1. SlotSize \in Nat /\ QueueSize \in Nat
  BY Sizes
<1>2. Addr(j) \in Nat /\ Addr(j) + SlotSize <= QueueSize * SlotSize /\ QueueSize * SlotSize \in Nat
  BY Addresses
<1> QED BY <1>1, <1>2 DEF Cell

\* shm_queue_enqueue fills the slot: the unread ones stay intact but for the cell
\* that the new header covers.
LEMMA WriteControl ==
    ASSUME Inv, NEW p \in Producers, EnqueueWrite(p), ~IsFull
    PROVE  Control' /\ SlotInv'
<1> DEFINE s == Addr(ppos)
           x == item[p]
           n == ItemSize[x]
<1> USE DEF EnqueueWrite, Goto, ghost, call
<1>0. /\ pc \in [Procs -> Places]
      /\ item \in [Procs -> Items \cup {NULL}]
      /\ cells \in [Cell -> Items \cup 1 .. SlotSize \cup {NULL}]
      /\ TypeOK /\ p \in Procs
      /\ Producers \subseteq Procs /\ Consumers \subseteq Procs
      /\ Producers \cap Consumers = {}
      /\ SlotSize \in Nat /\ SlotSize > 1 /\ QueueSize \in Nat
  BY Sizes DEF Inv, TypeOK, Procs
<1>1. x \in Items /\ n \in 1 .. SlotSize
  BY Sizes DEF Inv, ProducerInv
<1>2. /\ pc[p] = "test" /\ mutex = p /\ pc' = [pc EXCEPT ![p] = "publish"]
      /\ UNCHANGED <<mutex, mode, ppos, cpos, dead, refused, handed>>
      /\ cells' = [a \in Cell |-> IF a = s THEN n
                                  ELSE IF a \in s + 1 .. s + n THEN x ELSE cells[a]]
  BY DEF Addr
<1>3. item' = item
  BY <1>0
<1>4. /\ pc' \in [Procs -> Places]
      /\ pc'[p] = "publish" /\ \A u \in Procs \ {p} : pc'[u] = pc[u]
  BY <1>0, <1>2 DEF Places
<1>5. ppos \in 0 .. QueueSize - 1 /\ Size \in Nat
  BY <1>0, Positions
<1>6. s \in Nat /\ \A a \in s .. s + SlotSize : a \in Cell
  BY <1>5, SlotCells, Addresses
<1> HIDE DEF s, n, x
<1>7. /\ cells'[s] = n /\ \A a \in s + 1 .. s + n : cells'[a] = x
      /\ \A a \in Cell : a \notin s .. s + n => cells'[a] = cells[a]
  BY <1>0, <1>1, <1>2, <1>6
<1>8. TypeOK'
  <2>1. cells' \in [Cell -> Items \cup 1 .. SlotSize \cup {NULL}]
    BY <1>0, <1>1, <1>2
  <2> QED BY <1>2, <1>3, <1>4, <2>1 DEF Inv, TypeOK
<1>9. MutexInv'
  BY <1>0, <1>2, <1>4, Alone DEF MutexInv, Critical
<1>10. ProducerInv'
  <2>1. \A q \in Producers \ {p} : pc'[q] # "publish"
    BY <1>0, <1>2, <1>4, Alone DEF Critical
  <2>2. ~IsFull'
    BY <1>2 DEF IsFull, NextPos
  <2>3. Holds(Addr(ppos), item[p])'
    BY <1>2, <1>3, <1>7 DEF Holds, s, x, n, Addr
  <2>4. \A q \in Producers : pc'[q] \in {"lock", "test", "publish", "asleep"} => item'[q] \in Items
    BY <1>0, <1>1, <1>2, <1>3, <1>4 DEF Inv, ProducerInv, x
  <2> QED BY <1>4, <2>1, <2>2, <2>3, <2>4 DEF ProducerInv
<1>11. ConsumerInv'
  <2>1. \A c \in Consumers : pc'[c] # "publish"
    BY <1>0, <1>2, <1>4, Alone DEF Critical
  <2> QED BY <2>1 DEF ConsumerInv
<1>12. SlotInv'
  <2>1. Size' = Size /\ \A i \in 1 .. Size : SlotAt(i - 1)' = SlotAt(i - 1)
    BY <1>2 DEF Size, SlotAt
  <2> SUFFICES ASSUME NEW i \in 1 .. Size
               PROVE  Unread(i, SlotAt(i - 1), cells[SlotAt(i - 1) + 1])'
    BY <2>1 DEF SlotInv
  <2> DEFINE r == SlotAt(i - 1)
             y == cells[r + 1]
  <2>2. Unread(i, r, y)
    BY DEF Inv, SlotInv
  <2>3. r \in Nat /\ \A a \in r .. r + SlotSize : a \in Cell
    BY <1>0, UnreadPlaces, SlotCells, Addresses
  <2>4. \A a \in r .. r + SlotSize : cells'[a] = cells[a] \/
                                     (a = r + SlotSize /\ a # QueueSize * SlotSize)
    <3> TAKE a \in r .. r + SlotSize
    <3>1. CASE a \in s .. s + n
      <4>1. a \in Addr(ppos) .. Addr(ppos) + ItemSize[x] /\ a \in SlotAt(i - 1) .. SlotAt(i - 1) + SlotSize
        BY <3>1 DEF s, n
      <4> QED BY <1>1, <4>1, WriteSparesUnread
    <3>2. CASE a \notin s .. s + n
      BY <3>2, <1>7, <2>3
    <3> QED BY <3>1, <3>2
  <2>5. y \in Items /\ ItemSize[y] \in 1 .. SlotSize
    BY <2>2, Sizes DEF Unread
  <2>6. cells'[r] = cells[r] /\ cells'[r + 1] = y
    <3> HIDE DEF r
    <3> QED BY <1>0, <2>3, <2>4 DEF y
  <2>7. \A a \in r + 1 .. r + ItemSize[y] : cells'[a] = y \/ Covered(i, a)'
    <3> TAKE a \in r + 1 .. r + ItemSize[y]
    <3>1. a \in r .. r + SlotSize
      BY <1>0, <2>3, <2>5
    <3>2. Covered(i, a) => Covered(i, a)'
      BY <1>4, <2>1 DEF Covered
    <3>3. (a = r + SlotSize /\ a # QueueSize * SlotSize) => Covered(i, a)'
      BY <1>4, <2>1 DEF Covered
    <3>4. cells[a] = y \/ Covered(i, a)
      BY <2>2 DEF Unread
    <3> QED BY <2>4, <3>1, <3>2, <3>3, <3>4
  <2> QED BY <2>1, <2>2, <2>5, <2>6, <2>7 DEF Unread
<1> QED BY <1>8, <1>9, <1>10, <1>11, <1>12 DEF Control

\* producer_pos is stored: the item written is the last one now.
LEMMA PublishControl ==
    ASSUME Inv, NEW p \in Producers, EnqueuePublish(p)
    PROVE  Control' /\ SlotInv'
<1> USE DEF EnqueuePublish, Goto, ghost, call
<1>0. /\ TypeOK /\ p \in Procs /\ item \in [Procs -> Items \cup {NULL}]
      /\ Producers \subseteq Procs /\ Consumers \subseteq Procs
      /\ Producers \cap Consumers = {} /\ NULL \notin Procs
      /\ SlotSize \in Nat /\ SlotSize > 1 /\ QueueSize \in Nat /\ QueueSize > 0
  BY Sizes DEF Inv, TypeOK, Procs
<1>1. /\ mutex = p /\ mutex' = p /\ pc'[p] = "signal" /\ item' = item
      /\ pc' \in [Procs -> Places] /\ mode' \in [Procs -> {"wait", "timed", "try"}]
      /\ pc[p] = "publish" /\ \A v \in Procs \ {p} : pc'[v] = pc[v]
  BY <1>0 DEF Inv, TypeOK, Places
<1>3. \A v \in Procs \ {p} : pc[v] \notin Critical
  BY <1>0, <1>1, Alone
<1>4. item[p] \in Items /\ ~IsFull /\ Holds(Addr(ppos), item[p])
  BY DEF Inv, ProducerInv
<1>5. /\ Size' = Size + 1 /\ ppos' \in 0 .. QueueSize - 1 /\ SlotAt(Size) = Addr(ppos)
      /\ \A i \in 0 .. QueueSize - 1 : SlotAt(i)' = SlotAt(i)
  BY <1>0, <1>4, ProducerAdvances
<1>6. Size \in 0 .. QueueSize - 1 /\ ppos \in 0 .. QueueSize - 1
  BY <1>0, Positions
<1>7. TypeOK'
  BY <1>0, <1>1, <1>5 DEF Inv, TypeOK
<1>8. MutexInv'
  BY <1>0, <1>1, <1>3 DEF MutexInv, Critical
<1>9. ProducerInv'
  BY <1>0, <1>1, <1>3 DEF Inv, ProducerInv, Critical
<1>10. ConsumerInv'
  BY <1>0, <1>1, <1>3 DEF ConsumerInv, Critical
<1>11. SlotInv'
  <2> SUFFICES ASSUME NEW i \in 1 .. Size + 1
               PROVE  Unread(i, SlotAt(i - 1), cells[SlotAt(i - 1) + 1])'
    BY <1>5 DEF SlotInv
  <2>1. i - 1 \in 0 .. QueueSize - 1 /\ SlotAt(i - 1)' = SlotAt(i - 1)
    BY <1>0, <1>5, <1>6
  <2>2. CASE i = Size + 1
    <3>1. SlotAt(i - 1) = Addr(ppos)
      BY <2>2, <1>5, <1>6
    <3>2. Addr(ppos) + 1 \in Addr(ppos) + 1 .. Addr(ppos) + ItemSize[item[p]]
      BY <1>4, <1>6, Addresses, Sizes
    <3>3. cells[SlotAt(i - 1) + 1] = item[p]
      BY <1>4, <3>1, <3>2 DEF Holds
    <3> QED BY <1>4, <2>1, <3>1, <3>3 DEF Unread, Holds
  <2>3. CASE i # Size + 1
    <3>1. i \in 1 .. Size /\ i < Size'
      BY <1>5, <1>6, <2>3
    <3>2. Unread(i, SlotAt(i - 1), cells[SlotAt(i - 1) + 1])
      BY <3>1 DEF Inv, SlotInv
    <3>3. \A a : Covered(i, a) => Covered(i, a)'
      BY <2>1, <3>1 DEF Covered
    <3> QED BY <2>1, <3>2, <3>3 DEF Unread
  <2> QED BY <2>2, <2>3
<1> QED BY <1>7, <1>8, <1>9, <1>10, <1>11 DEF Control

\* A consumer copies the item at consumer_pos.
LEMMA CopyControl ==
    ASSUME Inv, NEW c \in Consumers, DequeueRead(c), ~IsEmpty,
           cells[cpos * SlotSize] <= BufSize[c], Goto(c, "publish"),
           item' = [item EXCEPT ![c] = cells[cpos * SlotSize + 1]],
           UNCHANGED <<mutex, mode, refused>>
    PROVE  Control' /\ SlotInv'
<1>0. /\ pc \in [Procs -> Places]
      /\ item \in [Procs -> Items \cup {NULL}] /\ c \in Procs
      /\ Producers \subseteq Procs /\ Consumers \subseteq Procs
      /\ Producers \cap Consumers = {}
  BY Sizes DEF Inv, TypeOK, Procs
<1>1. /\ ppos' = ppos /\ cpos' = cpos /\ cells' = cells /\ dead' = dead /\ UNCHANGED ring
      /\ pc[c] = "test" /\ mutex = c
  BY DEF DequeueRead, ring
<1>2. cells[Addr(cpos) + 1] \in Items /\ item' = [item EXCEPT ![c] = cells[Addr(cpos) + 1]]
  BY FrontIsItem DEF Addr
<1>3. /\ pc' \in [Procs -> Places]
      /\ pc'[c] = "publish" /\ \A u \in Procs \ {c} : pc'[u] = pc[u] /\ item'[u] = item[u]
      /\ item' \in [Procs -> Items \cup {NULL}] /\ item'[c] = cells[Addr(cpos) + 1]
  BY <1>0, <1>2 DEF Goto, Places
<1>4. TypeOK'
  BY <1>1, <1>3 DEF Inv, TypeOK
<1>5. MutexInv'
  BY <1>0, <1>1, <1>3, Alone DEF MutexInv, Critical
<1>6. SlotInv' /\ \A p \in Producers : pc'[p] = "publish" =>
                       ~IsFull' /\ Holds(Addr(ppos), item[p])'
  BY <1>0, <1>1, <1>3, RingStays
<1>7. ProducerInv'
  BY <1>0, <1>3, <1>6 DEF Inv, ProducerInv
<1>8. ConsumerInv'
  <2>1. \A d \in Consumers \ {c} : pc'[d] # "publish"
    BY <1>0, <1>1, <1>3, Alone DEF Critical
  <2>2. ~IsEmpty' /\ Addr(cpos)' = Addr(cpos)
    BY <1>1 DEF IsEmpty, Addr
  <2> QED BY <1>1, <1>3, <2>1, <2>2 DEF ConsumerInv
<1> QED BY <1>4, <1>5, <1>6, <1>7, <1>8 DEF Control

\* consumer_pos is stored: the oldest item is gone, the others are one place
\* further to the front.
LEMMA ConsumeControl ==
    ASSUME Inv, NEW c \in Consumers, DequeuePublish(c)
    PROVE  Control' /\ SlotInv'
<1> USE DEF DequeuePublish, Goto, call
<1>0. /\ TypeOK /\ c \in Procs /\ item \in [Procs -> Items \cup {NULL}]
      /\ Producers \subseteq Procs /\ Consumers \subseteq Procs
      /\ Producers \cap Consumers = {} /\ NULL \notin Procs
      /\ QueueSize \in Nat /\ QueueSize > 0
  BY Sizes DEF Inv, TypeOK, Procs
<1>1. /\ mutex = c /\ mutex' = c /\ pc'[c] = "signal" /\ item' = item
      /\ pc' \in [Procs -> Places] /\ mode' \in [Procs -> {"wait", "timed", "try"}]
      /\ pc[c] = "publish" /\ \A v \in Procs \ {c} : pc'[v] = pc[v]
  BY <1>0 DEF Inv, TypeOK, Places
<1>3. \A v \in Procs \ {c} : pc[v] \notin Critical
  BY <1>0, <1>1, Alone
<1>4. ~IsEmpty
  BY DEF Inv, ConsumerInv
<1>5. /\ Size' = Size - 1 /\ cpos' \in 0 .. QueueSize - 1 /\ Size >= 1
      /\ \A i \in 0 .. Size - 1 : SlotAt(i)' = SlotAt(i + 1)
  BY <1>0, <1>4, ConsumerAdvances
<1>6. Size \in 0 .. QueueSize - 1
  BY <1>0, Positions
<1>7. TypeOK'
  BY <1>0, <1>1, <1>5 DEF Inv, TypeOK
<1>8. MutexInv'
  BY <1>0, <1>1, <1>3 DEF MutexInv, Critical
<1>9. ProducerInv'
  BY <1>0, <1>1, <1>3 DEF Inv, ProducerInv, Critical
<1>10. ConsumerInv'
  BY <1>0, <1>1, <1>3 DEF ConsumerInv, Critical
<1>11. SlotInv'
  <2> SUFFICES ASSUME NEW i \in 1 .. Size - 1
               PROVE  Unread(i, SlotAt(i - 1), cells[SlotAt(i - 1) + 1])'
    BY <1>5 DEF SlotInv
  <2>1. /\ i + 1 \in 1 .. Size /\ i - 1 \in 0 .. Size - 1 /\ (i - 1) + 1 = (i + 1) - 1
        /\ (i + 1 < Size <=> i < Size')
    BY <1>5, <1>6
  <2>2. SlotAt(i - 1)' = SlotAt((i + 1) - 1)
    BY <1>5, <2>1
  <2>3. Unread(i + 1, SlotAt((i + 1) - 1), cells[SlotAt((i + 1) - 1) + 1])
    BY <2>1 DEF Inv, SlotInv
  <2>4. ~\E p \in Producers : pc[p] = "publish"
    BY <1>0, <1>1, <1>3 DEF Critical
  <2>5. \A a : Covered(i + 1, a) => Covered(i, a)'
    BY <2>1, <2>2, <2>4 DEF Covered
  <2> QED BY <2>2, <2>3, <2>5 DEF Unread
<1> QED BY <1>7, <1>8, <1>9, <1>10, <1>11 DEF Control

\* Every step keeps types, mutual exclusion and the slots.
LEMMA NextControl == ASSUME Inv, [Next]_vars PROVE Control' /\ SlotInv'
<1>0. Producers \subseteq Procs /\ Consumers \subseteq Procs
  BY DEF Procs
<1>1. CASE UNCHANGED vars
  <2>1. SlotInv' /\ \A p \in Producers : pc'[p] = "publish" =>
                       ~IsFull' /\ Holds(Addr(ppos), item[p])'
    BY <1>1, RingStays DEF vars, ring
  <2>2. TypeOK' /\ MutexInv' /\ ConsumerInv'
    BY <1>1 DEF vars, Inv, TypeOK, MutexInv, ConsumerInv, IsEmpty, Addr
  <2>3. ProducerInv'
    BY <1>1, <2>1 DEF vars, Inv, ProducerInv
  <2> QED BY <2>1, <2>2, <2>3 DEF Control
<1>2. ASSUME NEW p \in Producers, ProducerStep(p) PROVE Control' /\ SlotInv'
  <2>1. CASE EnqueueWrite(p) /\ IsFull
    <3>1. /\ pc[p] = "test" /\ mutex = p /\ GiveUpOrSleep(p)
          /\ UNCHANGED <<ring, call, dead, refused>>
      BY <2>1 DEF EnqueueWrite, ring, ghost
    <3>2. refused' \in BOOLEAN
      BY <3>1 DEF Inv, TypeOK
    <3> QED BY <1>0, <3>1, <3>2, LeaveControl
  <2> QED BY <1>0, <1>2, <2>1, LockControl, BeginControl, WriteControl, PublishControl,
             SignalControl, UnlockControl DEF ProducerStep
<1>3. ASSUME NEW c \in Consumers, ConsumerStep(c) PROVE Control' /\ SlotInv'
  <2>1. CASE DequeueRead(c)
    <3>0. /\ pc[c] = "test" /\ mutex = c /\ UNCHANGED <<ring, dead>> /\ mode' = mode
      BY <2>1 DEF DequeueRead
    <3>1. CASE IsEmpty /\ GiveUpOrSleep(c) /\ refused' = FALSE /\ UNCHANGED item
      <4>1. UNCHANGED <<ring, call, dead>> /\ refused' \in BOOLEAN
        BY <3>0, <3>1 DEF call
      <4> QED BY <1>0, <3>0, <3>1, <4>1, LeaveControl
    <3>2. CASE /\ Goto(c, "unlock") /\ UNCHANGED <<mutex, item>>
               /\ refused' = (refused \/ Asleep(Consumers) # {})
      <4>1. UNCHANGED <<ring, call, dead>> /\ refused' \in BOOLEAN
        BY <3>0, <3>2 DEF call, Inv, TypeOK
      <4> QED BY <1>0, <3>0, <3>2, <4>1, LeaveControl
    <3>3. CASE /\ ~IsEmpty /\ cells[cpos * SlotSize] <= BufSize[c] /\ Goto(c, "publish")
               /\ item' = [item EXCEPT ![c] = cells[cpos * SlotSize + 1]]
               /\ UNCHANGED <<mutex, refused>>
      BY <2>1, <3>0, <3>3, CopyControl
    <3> QED BY <2>1, <3>1, <3>2, <3>3 DEF DequeueRead
  <2> QED BY <1>0, <1>3, <2>1, LockControl, BeginControl, ConsumeControl,
             SignalControl, UnlockControl DEF ConsumerStep
<1>4. ASSUME NEW t \in Procs, Crash(t) PROVE Control' /\ SlotInv'
  BY <1>4, BeginControl
<1> QED BY <1>1, <1>2, <1>3, <1>4 DEF Next

-----------------------------------------------------------------------------
(* Sleepers and those on their way *)

\* The processes on their way, before and after a step.
LEMMA ComingIsFinite ==
    ASSUME NEW S
    PROVE  /\ IsFiniteSet(Coming(S) \cap Procs) /\ IsFiniteSet(Coming(S)' \cap Procs)
           /\ S \subseteq Procs =>
                 /\ IsFiniteSet(Coming(S)) /\ Cardinality(Coming(S)) \in Nat
                 /\ IsFiniteSet(Coming(S)') /\ Cardinality(Coming(S)') \in Nat
                 /\ Coming(S) \subseteq Coming(S)' =>
                       Cardinality(Coming(S)) <= Cardinality(Coming(S)')
<1>1. IsFiniteSet(Procs)
  BY ShmRingAssumption, FS_Union DEF Procs
<1>2. IsFiniteSet(Coming(S) \cap Procs) /\ IsFiniteSet(Coming(S)' \cap Procs)
  BY <1>1, FS_Subset
<1>3. S \subseteq Procs => Coming(S) \cap Procs = Coming(S) /\ Coming(S)' \cap Procs = Coming(S)'
  BY DEF Coming
<1> QED BY <1>2, <1>3, FS_Subset, FS_CardinalityType

\* The two kinds of processes.
TwoKinds(S, R) ==
    \/ S = Consumers /\ R = Producers
    \/ S = Producers /\ R = Consumers

\* After the store of a position by one of R, one of S more is to be told or on
\* its way, and one of R less is on its way.
LEMMA PublishMoves ==
    ASSUME Inv, NEW S, NEW R, TwoKinds(S, R), NEW t \in R, pc[t] = "publish", Goto(t, "signal")
    PROVE  /\ Cardinality(Coming(S)') = Cardinality(Coming(S)) + 1
           /\ Cardinality(Coming(R)') = Cardinality(Coming(R)) - 1
           /\ Asleep(S)' = Asleep(S) /\ Asleep(R)' = Asleep(R)
<1>0. /\ S \subseteq Procs /\ R \subseteq Procs /\ t \in Procs /\ t \notin S
      /\ pc \in [Procs -> Places]
  BY Sizes DEF TwoKinds, Inv, TypeOK, Procs
<1>1. pc'[t] = "signal" /\ \A v \in Procs \ {t} : pc'[v] = pc[v]
  BY <1>0 DEF Goto
<1>2. /\ Coming(S)' = Coming(S) \cup {t} /\ t \notin Coming(S)
      /\ Coming(R)' = Coming(R) \ {t} /\ t \in Coming(R)
  BY <1>0, <1>1 DEF Coming
<1>3. /\ Cardinality(Coming(S)') = Cardinality(Coming(S)) + 1
      /\ Cardinality(Coming(R)') = Cardinality(Coming(R)) - 1
  <2>1. IsFiniteSet(Coming(S)) /\ IsFiniteSet(Coming(R))
    BY <1>0, ComingIsFinite
  <2>2. Cardinality(Coming(S) \cup {t}) = Cardinality(Coming(S)) + 1
    BY <1>2, <2>1, FS_AddElement
  <2>3. Cardinality(Coming(R) \ {t}) = Cardinality(Coming(R)) - 1
    BY <1>2, <2>1, FS_RemoveElement
  <2> QED BY <1>2, <2>2, <2>3
<1>4. Asleep(S)' = Asleep(S) /\ Asleep(R)' = Asleep(R)
  BY <1>0, <1>1 DEF Asleep
<1> QED BY <1>3, <1>4

\* The one woken takes the place of the signal.
LEMMA SignalMoves ==
    ASSUME Inv, NEW S, NEW R, TwoKinds(S, R), NEW t \in R, Signal(t, S)
    PROVE  /\ Asleep(S)' = {} \/ Cardinality(Coming(S)') = Cardinality(Coming(S))
           /\ Asleep(S)' \subseteq Asleep(S)
           /\ Coming(R)' = Coming(R) /\ Asleep(R)' = Asleep(R)
<1>0. /\ S \in SUBSET Procs /\ R \subseteq Procs /\ t \in Procs /\ t \notin S
      /\ S \cap R = {}
  BY Sizes DEF TwoKinds, Procs
<1>1. /\ pc[t] = "signal" /\ pc'[t] = "unlock"
      /\ \/ Asleep(S) = {} /\ \A v \in Procs \ {t} : pc'[v] = pc[v]
         \/ \E u \in Asleep(S) : /\ u # t /\ pc[u] = "asleep" /\ pc'[u] = "lock"
                                 /\ \A v \in Procs \ {t, u} : pc'[v] = pc[v]
  BY <1>0, SignalEffect
<1>2. CASE Asleep(S) = {} /\ \A v \in Procs \ {t} : pc'[v] = pc[v]
  BY <1>0, <1>1, <1>2 DEF Asleep, Coming
<1>3. ASSUME NEW u \in Asleep(S), u # t, pc[u] = "asleep", pc'[u] = "lock",
             \A v \in Procs \ {t, u} : pc'[v] = pc[v]
      PROVE  /\ Cardinality(Coming(S)') = Cardinality(Coming(S))
             /\ Asleep(S)' \subseteq Asleep(S)
             /\ Coming(R)' = Coming(R) /\ Asleep(R)' = Asleep(R)
  <2>0. u \in S /\ u \notin R /\ u \in Procs
    BY <1>0 DEF Asleep
  <2>1. /\ Coming(S)' = (Coming(S) \ {t}) \cup {u}
        /\ t \in Coming(S) /\ u \notin Coming(S)
    BY <1>0, <1>1, <1>3, <2>0 DEF Coming
  <2>2. Coming(R)' = Coming(R) /\ Asleep(R)' = Asleep(R) /\ Asleep(S)' \subseteq Asleep(S)
    BY <1>0, <1>1, <1>3, <2>0 DEF Coming, Asleep
  <2> DEFINE X == Coming(S) \ {t}
  <2>3. /\ IsFiniteSet(Coming(S)) /\ Cardinality(Coming(S)) \in Nat /\ IsFiniteSet(X)
        /\ Cardinality(X) = Cardinality(Coming(S)) - 1
    BY <1>0, <2>1, ComingIsFinite, FS_RemoveElement
  <2>4. Cardinality(X \cup {u}) = Cardinality(X) + 1
    BY <2>1, <2>3, FS_AddElement
  <2>5. Cardinality(Coming(S)') = Cardinality(X) + 1
    BY <2>1, <2>4
  <2> HIDE DEF X
  <2> QED BY <2>2, <2>3, <2>5
<1> QED BY <1>1, <1>2, <1>3

\* The two halves of NoLostWakeup.
ConsumersTold ==
    Asleep(Consumers) # {} /\ ~refused => Size <= Cardinality(Coming(Consumers))
ProducersTold ==
    Asleep(Producers) # {} => QueueSize - 1 - Size <= Cardinality(Coming(Producers))

\* What the halves speak of: numbers, and the same as long as no position moves.
LEMMA Counts ==
    ASSUME Inv
    PROVE  /\ Consumers \subseteq Procs /\ Producers \subseteq Procs
           /\ TwoKinds(Consumers, Producers) /\ TwoKinds(Producers, Consumers)
           /\ QueueSize \in Nat /\ Size \in 0 .. QueueSize - 1
           /\ Cardinality(Coming(Consumers)) \in Nat /\ Cardinality(Coming(Consumers)') \in Nat
           /\ Cardinality(Coming(Producers)) \in Nat /\ Cardinality(Coming(Producers)') \in Nat
           /\ UNCHANGED <<ppos, cpos>> => Size' = Size
<1>1. Consumers \subseteq Procs /\ Producers \subseteq Procs
  BY DEF Procs
<1>2. QueueSize \in Nat /\ Size \in 0 .. QueueSize - 1
  BY Positions, Sizes DEF Inv
<1>3. UNCHANGED <<ppos, cpos>> => Size' = Size
  BY DEF Size
<1> QED BY <1>1, <1>2, <1>3, ComingIsFinite DEF TwoKinds

\* A step that moves no position, sends nobody of a kind to sleep and takes no
\* signal and nobody away loses no wake-up of that kind.
LEMMA QuietConsumers ==
    ASSUME Inv, ConsumersTold, UNCHANGED <<ppos, cpos, refused>>,
           \A t \in Consumers : pc'[t] = "asleep" => pc[t] = "asleep",
           Coming(Consumers) \subseteq Coming(Consumers)'
    PROVE  ConsumersTold'
<1>1. Asleep(Consumers)' \subseteq Asleep(Consumers) /\ Size' = Size
  BY Counts DEF Asleep
<1>2. Cardinality(Coming(Consumers)) <= Cardinality(Coming(Consumers)')
  BY Counts, ComingIsFinite
<1> QED BY <1>1, <1>2, Counts DEF ConsumersTold

LEMMA QuietProducers ==
    ASSUME Inv, ProducersTold, UNCHANGED <<ppos, cpos>>,
           \A t \in Producers : pc'[t] = "asleep" => pc[t] = "asleep",
           Coming(Producers) \subseteq Coming(Producers)'
    PROVE  ProducersTold'
<1>1. Asleep(Producers)' \subseteq Asleep(Producers) /\ Size' = Size
  BY Counts DEF Asleep
<1>2. Cardinality(Coming(Producers)) <= Cardinality(Coming(Producers)')
  BY Counts, ComingIsFinite
<1> QED BY <1>1, <1>2, Counts DEF ProducersTold

\* The signal that an enqueue owes answers for the item it adds, and the producer
\* takes the free slot it used with it.
LEMMA PublishWakes ==
    ASSUME Inv, ConsumersTold, ProducersTold, NEW p \in Producers, EnqueuePublish(p)
    PROVE  ConsumersTold' /\ ProducersTold'
<1>0. /\ TypeOK /\ ~IsFull /\ pc[p] = "publish" /\ Goto(p, "signal") /\ refused' = refused
      /\ ppos' = NextPos(ppos) /\ cpos' = cpos
  BY DEF Inv, ProducerInv, EnqueuePublish, ghost
<1>1. Size' = Size + 1
  BY <1>0, ProducerAdvances
<1>2. /\ Cardinality(Coming(Consumers)') = Cardinality(Coming(Consumers)) + 1
      /\ Cardinality(Coming(Producers)') = Cardinality(Coming(Producers)) - 1
      /\ Asleep(Consumers)' = Asleep(Consumers) /\ Asleep(Producers)' = Asleep(Producers)
  BY <1>0, Counts, PublishMoves
<1>3. ConsumersTold'
  BY <1>0, <1>1, <1>2, Counts DEF ConsumersTold
<1>4. ProducersTold'
  BY <1>1, <1>2, Counts DEF ProducersTold
<1> QED BY <1>3, <1>4

\* The signal that a dequeue owes answers for the slot it frees.
LEMMA ConsumeWakes ==
    ASSUME Inv, ConsumersTold, ProducersTold, NEW c \in Consumers, DequeuePublish(c)
    PROVE  ConsumersTold' /\ ProducersTold'
<1>0. /\ TypeOK /\ ~IsEmpty /\ pc[c] = "publish" /\ Goto(c, "signal") /\ refused' = refused
      /\ cpos' = NextPos(cpos) /\ ppos' = ppos
  BY DEF Inv, ConsumerInv, DequeuePublish
<1>1. Size' = Size - 1
  BY <1>0, ConsumerAdvances
<1>2. /\ Cardinality(Coming(Producers)') = Cardinality(Coming(Producers)) + 1
      /\ Cardinality(Coming(Consumers)') = Cardinality(Coming(Consumers)) - 1
      /\ Asleep(Consumers)' = Asleep(Consumers) /\ Asleep(Producers)' = Asleep(Producers)
  BY <1>0, Counts, PublishMoves
<1>3. ConsumersTold'
  BY <1>0, <1>1, <1>2, Counts DEF ConsumersTold
<1>4. ProducersTold'
  BY <1>1, <1>2, Counts DEF ProducersTold
<1> QED BY <1>3, <1>4

\* The signals themselves.
LEMMA SignalWakes ==
    ASSUME Inv, ConsumersTold, ProducersTold, NEW t \in Procs,
           (t \in Producers /\ Signal(t, Consumers)) \/ (t \in Consumers /\ Signal(t, Producers))
    PROVE  ConsumersTold' /\ ProducersTold'
<1>0. UNCHANGED <<ppos, cpos, refused>>
  BY DEF Signal, ring, ghost
<1>1. Size' = Size
  BY <1>0, Counts
<1>2. CASE t \in Producers /\ Signal(t, Consumers)
  <2>1. /\ \/ Asleep(Consumers)' = {}
           \/ Cardinality(Coming(Consumers)') = Cardinality(Coming(Consumers))
        /\ Asleep(Consumers)' \subseteq Asleep(Consumers)
        /\ Coming(Producers)' = Coming(Producers) /\ Asleep(Producers)' = Asleep(Producers)
    BY <1>2, Counts, SignalMoves
  <2> QED BY <1>0, <1>1, <2>1 DEF ConsumersTold, ProducersTold
<1>3. CASE t \in Consumers /\ Signal(t, Producers)
  <2>1. /\ \/ Asleep(Producers)' = {}
           \/ Cardinality(Coming(Producers)') = Cardinality(Coming(Producers))
        /\ Asleep(Producers)' \subseteq Asleep(Producers)
        /\ Coming(Consumers)' = Coming(Consumers) /\ Asleep(Consumers)' = Asleep(Consumers)
    BY <1>3, Counts, SignalMoves
  <2> QED BY <1>0, <1>1, <2>1 DEF ConsumersTold, ProducersTold
<1> QED BY <1>2, <1>3

\* A process leaves the test without a publication: the ring is full or empty, or
\* the item was refused.
LEMMA LeaveWakes ==
    ASSUME Inv, ConsumersTold, ProducersTold, NEW t \in Procs, pc[t] = "test",
           GiveUpOrSleep(t) \/ Goto(t, "unlock"), UNCHANGED ring,
           \/ t \in Producers /\ IsFull /\ refused' = refused
           \/ t \in Consumers /\ IsEmpty
           \/ /\ t \in Consumers /\ Goto(t, "unlock")
              /\ refused' = (refused \/ Asleep(Consumers) # {})
    PROVE  ConsumersTold' /\ ProducersTold'
<1>0. /\ TypeOK /\ Producers \cap Consumers = {} /\ pc \in [Procs -> Places]
      /\ UNCHANGED <<ppos, cpos>> /\ Size' = Size
  BY Sizes, Counts DEF Inv, TypeOK, ring
<1>1. /\ \A v \in Procs \ {t} : pc'[v] = pc[v]
      /\ pc'[t] \in {"unlock", "asleep"}
  BY <1>0 DEF GiveUpOrSleep, Goto
<1>2. CASE t \in Producers /\ IsFull /\ refused' = refused
  <2>1. Coming(Consumers) \subseteq Coming(Consumers)'
    BY <1>0, <1>1, <1>2, Counts DEF Coming
  <2>2. ConsumersTold'
    BY <1>0, <1>1, <1>2, <2>1, Counts, QuietConsumers
  <2>3. QueueSize - 1 - Size' = 0
    BY <1>0, <1>2, Positions, Counts
  <2> QED BY <2>2, <2>3, Counts DEF ProducersTold
<1>3. ASSUME t \in Consumers PROVE ProducersTold'
  <2>1. Coming(Producers) \subseteq Coming(Producers)'
    BY <1>0, <1>1, <1>3, Counts DEF Coming
  <2> QED BY <1>0, <1>1, <1>3, <2>1, Counts, QuietProducers
<1>4. CASE t \in Consumers /\ IsEmpty
  <2>1. Size' = 0
    BY <1>0, <1>4, Positions
  <2> QED BY <1>3, <1>4, <2>1, Counts DEF ConsumersTold
<1>5. CASE /\ t \in Consumers /\ Goto(t, "unlock")
           /\ refused' = (refused \/ Asleep(Consumers) # {})
  <2>1. pc'[t] # "asleep"
    BY <1>0, <1>5 DEF Goto
  <2>2. Asleep(Consumers)' \subseteq Asleep(Consumers)
    BY <1>0, <1>1, <2>1, Counts DEF Asleep
  <2> QED BY <1>3, <1>5, <2>2 DEF ConsumersTold
<1> QED BY <1>2, <1>4, <1>5

\* Locks and unlocks, calls that begin, waits that end without a signal, copies
\* and writes move no position, take nobody away and send nobody to sleep.
LEMMA StepsInsideAreQuiet ==
    ASSUME Inv, NEW t \in Procs,
           \/ Lock(t) \/ Unlock(t) \/ Enqueue(t) \/ Dequeue(t) \/ Timeout(t) \/ SpuriousWake(t)
           \/ pc[t] = "test" /\ Goto(t, "publish") /\ UNCHANGED <<ppos, cpos, refused>>
    PROVE  /\ UNCHANGED <<ppos, cpos, refused>>
           /\ \A u \in Procs : pc'[u] = "asleep" => pc[u] = "asleep"
           /\ Coming(Consumers) \subseteq Coming(Consumers)'
           /\ Coming(Producers) \subseteq Coming(Producers)'
<1>0. pc \in [Procs -> Places]
  BY DEF Inv, TypeOK
<1>1. UNCHANGED <<ppos, cpos, refused>>
  BY DEF Lock, Unlock, Enqueue, Dequeue, Timeout, SpuriousWake, ring, ghost
<1>2. /\ \A u \in Procs \ {t} : pc'[u] = pc[u]
      /\ pc[t] \notin {"lock", "test", "publish", "signal"} \/ pc'[t] \in {"test", "publish"}
      /\ pc[t] # "signal" /\ pc'[t] # "asleep"
  BY <1>0 DEF Lock, Unlock, Enqueue, Dequeue, Timeout, SpuriousWake, Goto
<1>3. ASSUME NEW S \in {Consumers, Producers} PROVE Coming(S) \subseteq Coming(S)'
  BY <1>2, Counts DEF Coming
<1> QED BY <1>1, <1>2, <1>3

\* Such steps keep both halves.
LEMMA QuietWakes ==
    ASSUME Inv, ConsumersTold, ProducersTold, NEW t \in Procs,
           \/ Lock(t) \/ Unlock(t) \/ Enqueue(t) \/ Dequeue(t) \/ Timeout(t) \/ SpuriousWake(t)
           \/ pc[t] = "test" /\ Goto(t, "publish") /\ UNCHANGED <<ppos, cpos, refused>>
    PROVE  ConsumersTold' /\ ProducersTold'
<1>1. /\ UNCHANGED <<ppos, cpos, refused>>
      /\ \A u \in Procs : pc'[u] = "asleep" => pc[u] = "asleep"
      /\ Coming(Consumers) \subseteq Coming(Consumers)'
      /\ Coming(Producers) \subseteq Coming(Producers)'
  BY StepsInsideAreQuiet
<1> QED BY <1>1, Counts, QuietConsumers, QuietProducers

\* No step loses a wake-up.
LEMMA NextWakes == ASSUME Inv, [Next]_vars PROVE NoLostWakeup'
<1>0. Producers \subseteq Procs /\ Consumers \subseteq Procs
  BY DEF Procs
<1>1. CASE UNCHANGED vars
  BY <1>1 DEF vars, Inv, NoLostWakeup, Asleep, Coming, Size
<1>2. ASSUME NEW t \in Procs, Crash(t) PROVE NoLostWakeup'
  <2>1. dead' # {}
    BY <1>2 DEF Crash
  <2> QED BY <2>1 DEF NoLostWakeup
<1>3. ASSUME NEW p \in Producers, ProducerStep(p), ConsumersTold, ProducersTold
      PROVE  ConsumersTold' /\ ProducersTold'
  <2>1. CASE Lock(p) \/ Enqueue(p) \/ Unlock(p) \/ SpuriousWake(p)
    BY <1>0, <1>3, <2>1, QuietWakes
  <2>2. CASE EnqueueWrite(p) /\ IsFull
    <3>1. pc[p] = "test" /\ GiveUpOrSleep(p) /\ UNCHANGED ring /\ refused' = refused
      BY <2>2 DEF EnqueueWrite, ring, ghost
    <3> QED BY <1>0, <1>3, <2>2, <3>1, LeaveWakes
  <2>3. CASE EnqueueWrite(p) /\ ~IsFull
    <3>1. pc[p] = "test" /\ Goto(p, "publish") /\ UNCHANGED <<ppos, cpos, refused>>
      BY <2>3 DEF EnqueueWrite, ghost
    <3> QED BY <1>0, <1>3, <3>1, QuietWakes
  <2>4. CASE EnqueuePublish(p)
    BY <1>3, <2>4, PublishWakes
  <2>5. CASE Signal(p, Consumers)
    BY <1>0, <1>3, <2>5, SignalWakes
  <2> QED BY <1>3, <2>1, <2>2, <2>3, <2>4, <2>5 DEF ProducerStep
<1>4. ASSUME NEW c \in Consumers, ConsumerStep(c), ConsumersTold, ProducersTold
      PROVE  ConsumersTold' /\ ProducersTold'
  <2>1. CASE Lock(c) \/ Dequeue(c) \/ Timeout(c) \/ Unlock(c) \/ SpuriousWake(c)
    BY <1>0, <1>4, <2>1, QuietWakes
  <2>2. CASE DequeueRead(c)
    <3>0. UNCHANGED ring /\ pc[c] = "test"
      BY <2>2 DEF DequeueRead
    <3>1. CASE IsEmpty /\ GiveUpOrSleep(c)
      BY <1>0, <1>4, <3>0, <3>1, LeaveWakes
    <3>2. CASE Goto(c, "unlock") /\ refused' = (refused \/ Asleep(Consumers) # {})
      BY <1>0, <1>4, <3>0, <3>2, LeaveWakes
    <3>3. CASE Goto(c, "publish") /\ refused' = refused
      <4>1. UNCHANGED <<ppos, cpos, refused>>
        BY <3>0, <3>3 DEF ring
      <4> QED BY <1>0, <1>4, <3>0, <3>3, <4>1, QuietWakes
    <3> QED BY <2>2, <3>1, <3>2, <3>3 DEF DequeueRead
  <2>3. CASE DequeuePublish(c)
    BY <1>4, <2>3, ConsumeWakes
  <2>4. CASE Signal(c, Producers)
    BY <1>0, <1>4, <2>4, SignalWakes
  <2> QED BY <1>4, <2>1, <2>2, <2>3, <2>4 DEF ConsumerStep
<1>5. NoLostWakeup = (dead = {} => ConsumersTold /\ ProducersTold)
  BY DEF NoLostWakeup, ConsumersTold, ProducersTold
<1>6. NoLostWakeup' = (dead' = {} => ConsumersTold' /\ ProducersTold')
  BY DEF NoLostWakeup, ConsumersTold, ProducersTold
<1>7. ASSUME NEW t \in Procs, ProducerStep(t) \/ ConsumerStep(t) PROVE dead' = dead
  BY <1>7 DEF ProducerStep, ConsumerStep, Lock, Unlock, Signal, SpuriousWake, Enqueue, Dequeue,
              Timeout, EnqueueWrite, EnqueuePublish, DequeueRead, DequeuePublish, ghost
<1>8. ASSUME NEW p \in Producers, ProducerStep(p) PROVE NoLostWakeup'
  BY <1>0, <1>3, <1>5, <1>6, <1>7, <1>8 DEF Inv
<1>9. ASSUME NEW c \in Consumers, ConsumerStep(c) PROVE NoLostWakeup'
  BY <1>0, <1>4, <1>5, <1>6, <1>7, <1>9 DEF Inv
<1> QED BY <1>1, <1>2, <1>8, <1>9 DEF Next

-----------------------------------------------------------------------------
(* The theorems *)

LEMMA InitInv == ASSUME Init PROVE Inv
<1>1. TypeOK
  <2>1. ppos \in 0 .. QueueSize - 1 /\ cpos \in 0 .. QueueSize - 1
    BY Sizes DEF Init
  <2>2. cells \in [Cell -> Items \cup 1 .. SlotSize \cup {NULL}]
    BY DEF Init
  <2>3. /\ mutex \in Procs \cup {NULL}
        /\ pc \in [Procs -> Places]
        /\ item \in [Procs -> Items \cup {NULL}]
        /\ mode \in [Procs -> {"wait", "timed", "try"}]
        /\ dead \subseteq Procs /\ refused \in BOOLEAN
    BY DEF Init, Places
  <2> QED BY <2>1, <2>2, <2>3 DEF TypeOK
<1>2. Size = 0
  BY DEF Init, Size
<1>3. MutexInv /\ ProducerInv /\ ConsumerInv
  <2>1. \A t \in Procs : pc[t] = "idle" /\ mutex # t
    BY Sizes DEF Init
  <2> QED BY <2>1 DEF MutexInv, ProducerInv, ConsumerInv, Procs, Critical
<1>4. SlotInv
  BY <1>2 DEF SlotInv
<1>5. NoLostWakeup
  <2>1. Asleep(Consumers) = {} /\ Asleep(Producers) = {}
    BY DEF Init, Asleep, Procs
  <2> QED BY <2>1 DEF NoLostWakeup
<1> QED BY <1>1, <1>3, <1>4, <1>5 DEF Inv

LEMMA NextInv == Inv /\ [Next]_vars => Inv'
<1> SUFFICES ASSUME Inv, [Next]_vars PROVE Inv'
  OBVIOUS
<1>1. Control' /\ SlotInv'
  BY NextControl
<1>2. NoLostWakeup'
  BY NextWakes
<1> QED BY <1>1, <1>2 DEF Inv, Control

\* The ring keeps its invariant through every call and every death.
THEOREM Invariance == Spec => []Inv
<1>1. Init => Inv
  BY InitInv
<1>2. Inv /\ [Next]_vars => Inv'
  BY NextInv
<1> QED BY <1>1, <1>2, PTL DEF Spec

\* Positions below queue_size, unread slots with the size and the data of one item
\* each, one process at most in its critical section: shm_queue_enqueue and
\* shm_queue_dequeue keep the ring intact wherever a process dies, but for the one
\* cell that an item of MAX_TASK_DATA_SIZE shares with the slot behind its own.
THEOREM RingStaysIntact == Spec => []RingIntact
<1>1. Inv => RingIntact
  <2> SUFFICES ASSUME Inv PROVE RingIntact
    OBVIOUS
  <2>0. TypeOK
    BY DEF Inv
  <2>1. ASSUME NEW i \in 1 .. Size
        PROVE  /\ cells[SlotAt(i - 1)] = ItemSize[cells[SlotAt(i - 1) + 1]]
               /\ \A a \in SlotAt(i - 1) + 1 .. SlotAt(i - 1) + cells[SlotAt(i - 1)] :
                    \/ cells[a] = Contents[i]
                    \/ /\ cells[SlotAt(i - 1)] = SlotSize
                       /\ a = SlotAt(i - 1) + cells[SlotAt(i - 1)]
                       /\ a # QueueSize * SlotSize
                       /\ i < Size \/ \E p \in Producers : pc[p] = "publish"
    <3> DEFINE s == SlotAt(i - 1)
               x == cells[s + 1]
    <3>1. Contents[i] = x
      BY DEF Contents
    <3>2. Unread(i, s, x)
      BY DEF Inv, SlotInv
    <3>3. s \in Nat
      <4>1. Pos(i - 1) \in 0 .. QueueSize - 1 /\ s = Addr(Pos(i - 1))
        BY <2>0, UnreadPlaces
      <4> QED BY <4>1, Addresses
    <3>4. \A a : Covered(i, a) => /\ a = s + SlotSize /\ a # QueueSize * SlotSize
                                  /\ i < Size \/ \E p \in Producers : pc[p] = "publish"
      BY DEF Covered
    <3> HIDE DEF s, x
    <3>5. x \in Items /\ ItemSize[x] \in 1 .. SlotSize /\ SlotSize \in Nat
      BY <3>2, Sizes DEF Unread
    <3>6. cells[s] = ItemSize[x] /\ \A a \in s + 1 .. s + ItemSize[x] :
                                        cells[a] = x \/ Covered(i, a)
      BY <3>2 DEF Unread
    <3>7. ASSUME NEW a \in s + 1 .. s + ItemSize[x], a = s + SlotSize
          PROVE  ItemSize[x] = SlotSize
      BY <3>3, <3>5, <3>7
    <3>8. \A a \in s + 1 .. s + cells[s] :
             \/ cells[a] = Contents[i]
             \/ /\ cells[s] = SlotSize /\ a = s + cells[s] /\ a # QueueSize * SlotSize
                /\ i < Size \/ \E p \in Producers : pc[p] = "publish"
      BY <3>1, <3>4, <3>6, <3>7
    <3> QED BY <3>6, <3>8 DEF s, x
  <2> QED BY <2>0, <2>1 DEF Inv, MutexInv, RingIntact
<1> QED BY <1>1, Invariance, PTL

\* The signal of one waiter per call suffices: as long as nobody has died, a
\* consumer sleeps only over as many items as others come for, unless one with too
\* small a buffer has taken the signal; a producer only over as many free slots.
THEOREM WakeupsSuffice == Spec => []NoLostWakeup
<1>1. Inv => NoLostWakeup
  BY DEF Inv
<1> QED BY <1>1, Invariance, PTL

-----------------------------------------------------------------------------
(* The ring implements TaskFIFO *)

\* What is unread is a sequence of items, as long as shm_queue_size says.
LEMMA ContentsType ==
    ASSUME Inv
    PROVE  /\ Contents \in Seq(Items) /\ Len(Contents) = Size
           /\ Size \in Nat /\ Size < QueueSize
           /\ \A i \in 1 .. Size : Contents[i] = cells[SlotAt(i - 1) + 1]
<1>0. TypeOK
  BY DEF Inv
<1>1. Size \in Nat /\ Size < QueueSize
  BY <1>0, Positions, Sizes
<1>2. \A i \in 1 .. Size : cells[SlotAt(i - 1) + 1] \in Items
  BY DEF Inv, SlotInv, Unread
<1>3. /\ Contents \in [1 .. Size -> Items]
      /\ \A i \in 1 .. Size : Contents[i] = cells[SlotAt(i - 1) + 1]
  BY <1>2 DEF Contents
<1> HIDE DEF Inv
<1>4. Contents \in Seq(Items) /\ Len(Contents) = Size
  BY <1>1, <1>3
<1> QED BY <1>1, <1>3, <1>4

\* A step that neither moves a position nor touches an unread slot's item shows
\* nothing.
LEMMA RingStutters ==
    ASSUME UNCHANGED <<ring, handed>>
    PROVE  Contents' = Contents /\ handed' = handed
BY DEF ring, Contents, SlotAt, Size

\* The write of an item at producer_pos shows nothing before it is published.
LEMMA WriteStutters ==
    ASSUME Inv, NEW p \in Producers, EnqueueWrite(p)
    PROVE  Contents' = Contents /\ handed' = handed
<1>1. handed' = handed /\ ppos' = ppos /\ cpos' = cpos
  BY DEF EnqueueWrite, ghost
<1>2. CASE IsFull
  <2>1. UNCHANGED <<ring, handed>>
    BY <1>1, <1>2 DEF EnqueueWrite, ring
  <2> QED BY <2>1, RingStutters
<1>3. CASE ~IsFull
  <2>0. TypeOK /\ p \in Procs /\ pc[p] = "test"
    BY DEF Inv, Procs, EnqueueWrite
  <2>1. \A i \in 1 .. Size : cells'[SlotAt(i - 1) + 1] = cells[SlotAt(i - 1) + 1]
    <3> SUFFICES ASSUME NEW i \in 1 .. Size
                 PROVE  cells'[SlotAt(i - 1) + 1] = cells[SlotAt(i - 1) + 1]
      OBVIOUS
    <3> DEFINE a == SlotAt(i - 1) + 1
               x == item[p]
    <3>1. x \in Items /\ ItemSize[x] \in 1 .. SlotSize
      BY <2>0, Sizes DEF Inv, ProducerInv
    <3>2. SlotAt(i - 1) \in Nat /\ a \in SlotAt(i - 1) .. SlotAt(i - 1) + SlotSize /\ a \in Cell
      <4>1. Pos(i - 1) \in 0 .. QueueSize - 1 /\ SlotAt(i - 1) = Addr(Pos(i - 1))
        BY <2>0, UnreadPlaces
      <4>2. SlotAt(i - 1) \in Nat /\ SlotSize \in Nat /\ SlotSize > 1
        BY <4>1, Addresses, Sizes
      <4> HIDE DEF Inv
      <4>3. a \in SlotAt(i - 1) .. SlotAt(i - 1) + SlotSize
        BY <4>2
      <4> QED BY <4>1, <4>2, <4>3, SlotCells
    <3>3. a # SlotAt(i - 1) + SlotSize
      BY <3>2, Sizes
    <3>4. a \notin Addr(ppos) .. Addr(ppos) + ItemSize[x]
      BY <1>3, <3>1, <3>2, <3>3, WriteSparesUnread
    <3>5. Addr(ppos) \in Nat
      BY <2>0, Positions, Addresses
    <3>6. cells' = [b \in Cell |-> IF b = Addr(ppos) THEN ItemSize[x]
                                   ELSE IF b \in Addr(ppos) + 1 .. Addr(ppos) + ItemSize[x]
                                        THEN x ELSE cells[b]]
      BY <1>3 DEF EnqueueWrite, Addr
    <3> HIDE DEF a, x
    <3>7. cells'[a] = cells[a]
      <4>1. a # Addr(ppos) /\ a \notin Addr(ppos) + 1 .. Addr(ppos) + ItemSize[x]
        BY <3>1, <3>4, <3>5
      <4> QED BY <3>2, <3>6, <4>1
    <3> QED BY <3>7 DEF a
  <2>2. Size' = Size /\ \A i \in 1 .. Size : SlotAt(i - 1)' = SlotAt(i - 1)
    BY <1>1 DEF Size, SlotAt
  <2> QED BY <1>1, <2>1, <2>2 DEF Contents
<1> QED BY <1>2, <1>3

\* The store of producer_pos accepts the item.
LEMMA PublishAccepts ==
    ASSUME Inv, NEW p \in Producers, EnqueuePublish(p)
    PROVE  \E batch \in FIFO!Batches : FIFO!Accept(batch)
<1> DEFINE s == Size
           x == item[p]
           b == <<x>>
<1>0. /\ TypeOK /\ ~IsFull /\ x \in Items /\ Holds(Addr(ppos), x)
      /\ ItemSize[x] \in 1 .. SlotSize /\ QueueSize \in Nat /\ QueueSize > 0
  <2>1. pc[p] = "publish"
    BY DEF EnqueuePublish
  <2> QED BY <2>1, Sizes DEF Inv, ProducerInv
<1>1. UNCHANGED <<cpos, cells, handed>> /\ ppos' = NextPos(ppos)
  BY DEF EnqueuePublish, ghost
<1>2. /\ Size' = s + 1 /\ SlotAt(s) = Addr(ppos)
      /\ \A i \in 0 .. QueueSize - 1 : SlotAt(i)' = SlotAt(i)
  BY <1>0, <1>1, ProducerAdvances
<1>3. /\ Contents \in Seq(Items) /\ Len(Contents) = s /\ s \in Nat /\ s < QueueSize
      /\ \A i \in 1 .. s : Contents[i] = cells[SlotAt(i - 1) + 1]
  BY ContentsType
<1>4. s + 1 <= QueueSize - 1
  BY <1>0, <1>3, Positions
<1>5. cells[SlotAt(s) + 1] = x
  <2>1. Addr(ppos) \in Nat
    BY <1>0, Positions, Addresses
  <2> HIDE DEF x
  <2>2. Addr(ppos) + 1 \in Addr(ppos) + 1 .. Addr(ppos) + ItemSize[x]
    BY <1>0, <2>1
  <2> QED BY <1>0, <1>2, <2>2 DEF Holds
<1>6. b \in Seq(Items) /\ Len(b) = 1 /\ b[1] = x
  <2> HIDE DEF x
  <2> QED BY <1>0
<1>7. /\ Contents \o b \in Seq(Items) /\ Len(Contents \o b) = s + 1
      /\ \A k \in 1 .. s + 1 :
            (Contents \o b)[k] = IF k <= s THEN Contents[k] ELSE b[k - s]
  <2> HIDE DEF b
  <2>1. /\ Contents \o b \in Seq(Items)
        /\ Len(Contents \o b) = Len(Contents) + Len(b)
        /\ \A k \in 1 .. Len(Contents) + Len(b) :
              (Contents \o b)[k] = IF k <= Len(Contents) THEN Contents[k]
                                   ELSE b[k - Len(Contents)]
    BY <1>3, <1>6, ConcatProperties, Zenon
  <2>2. Len(Contents) = s /\ Len(b) = 1
    BY <1>3, <1>6
  <2> HIDE DEF s
  <2> QED BY <2>1, <2>2
<1>8. Contents' = [k \in 1 .. s + 1 |-> Contents'[k]]
      /\ \A k \in 1 .. s + 1 : Contents'[k] = cells[SlotAt(k - 1) + 1]
  <2>1. \A k \in 1 .. s + 1 : k - 1 \in 0 .. QueueSize - 1
    BY <1>0, <1>3, <1>4
  <2>2. Contents' = [k \in 1 .. s + 1 |-> cells'[SlotAt(k - 1)' + 1]]
    BY <1>2 DEF Contents
  <2> HIDE DEF s
  <2>3. Contents' = [k \in 1 .. s + 1 |-> cells[SlotAt(k - 1) + 1]]
    BY <1>1, <1>2, <2>1, <2>2
  <2> QED BY <2>3
<1> HIDE DEF s, b
<1>9. \A k \in 1 .. s + 1 : Contents'[k] = (Contents \o b)[k]
  <2> TAKE k \in 1 .. s + 1
  <2>1. CASE k <= s
    <3>1. k \in 1 .. s
      BY <1>3, <2>1
    <3> QED BY <1>3, <1>7, <1>8, <2>1, <3>1
  <2>2. CASE ~(k <= s)
    <3>1. k = s + 1 /\ k - 1 = s /\ k - s = 1
      BY <1>3, <2>2
    <3> QED BY <1>5, <1>6, <1>7, <1>8, <2>2, <3>1
  <2> QED BY <2>1, <2>2
<1>10. Contents' = Contents \o b
  <2> DEFINE f == Contents'
             t == Contents \o b
             m == s + 1
  <2>1. /\ m \in Nat /\ t \in Seq(Items) /\ Len(t) = m
        /\ f = [k \in 1 .. m |-> f[k]] /\ \A k \in 1 .. m : f[k] = t[k]
    BY <1>3, <1>7, <1>8, <1>9
  <2> HIDE DEF f, t, m
  <2>2. f = t
    BY <2>1, FunctionIsSeq
  <2> QED BY <2>2 DEF f, t
<1>11. b \in FIFO!Batches
  <2>1. b \in [1 .. 1 -> Items]
    BY <1>0 DEF b
  <2> QED BY <2>1 DEF FIFO!Batches
<1>12. Len(Contents) + Len(b) <= QueueSize - 1
  BY <1>3, <1>4, <1>6
<1> QED BY <1>1, <1>10, <1>11, <1>12 DEF FIFO!Accept

\* The store of consumer_pos hands out the oldest item.
LEMMA PublishHandsOut ==
    ASSUME Inv, NEW c \in Consumers, DequeuePublish(c)
    PROVE  FIFO!HandOut(1)
<1> DEFINE s == Size
           x == item[c]
<1>0. TypeOK /\ ~IsEmpty /\ x = cells[Addr(cpos) + 1] /\ QueueSize \in Nat
  <2>1. pc[c] = "publish"
    BY DEF DequeuePublish
  <2> QED BY <2>1, Sizes DEF Inv, ConsumerInv
<1>1. UNCHANGED <<ppos, cells>> /\ cpos' = NextPos(cpos) /\ handed' = <<x>>
  BY DEF DequeuePublish
<1>2. /\ Size' = s - 1 /\ s >= 1 /\ SlotAt(0) = Addr(cpos)
      /\ \A i \in 0 .. s - 1 : SlotAt(i)' = SlotAt(i + 1)
  BY <1>0, <1>1, ConsumerAdvances
<1>3. /\ Contents \in Seq(Items) /\ Len(Contents) = s /\ s \in Nat
      /\ \A i \in 1 .. s : Contents[i] = cells[SlotAt(i - 1) + 1]
  BY ContentsType
<1>4. Contents' = [k \in 1 .. s - 1 |-> Contents'[k]]
      /\ \A k \in 1 .. s - 1 : Contents'[k] = Contents[k + 1]
  <2>1. Contents' = [k \in 1 .. s - 1 |-> cells'[SlotAt(k - 1)' + 1]]
    BY <1>2 DEF Contents
  <2> HIDE DEF s
  <2>2. \A k \in 1 .. s - 1 : /\ k - 1 \in 0 .. s - 1 /\ (k - 1) + 1 = k
                              /\ k + 1 \in 1 .. s /\ (k + 1) - 1 = k
    BY <1>2, <1>3
  <2>3. \A k \in 1 .. s - 1 : Contents[k + 1] = cells'[SlotAt(k - 1)' + 1]
    <3> TAKE k \in 1 .. s - 1
    <3>1. SlotAt(k - 1)' = SlotAt(k)
      BY <1>2, <2>2
    <3>2. Contents[k + 1] = cells[SlotAt(k) + 1]
      BY <1>3, <2>2
    <3> QED BY <1>1, <3>1, <3>2
  <2> QED BY <2>1, <2>3
<1> HIDE DEF s
<1>5. handed' = SubSeq(Contents, 1, 1)
  <2>1. Contents[1] = x /\ 1 \in 1 .. s /\ 1 <= s
    BY <1>0, <1>2, <1>3
  <2>2. x \in Items
    BY <1>3, <2>1, ElementOfSeq
  <2>3. \A k \in 1 .. 1 : Contents[k] \in Items
    BY <2>1, <2>2
  <2>4. /\ SubSeq(Contents, 1, 1) \in Seq(Items) /\ Len(SubSeq(Contents, 1, 1)) = 1
        /\ SubSeq(Contents, 1, 1)[1] = Contents[1]
    <3>1. /\ SubSeq(Contents, 1, 1) \in Seq(Items)
          /\ Len(SubSeq(Contents, 1, 1)) = IF 1 <= 1 THEN 1 - 1 + 1 ELSE 0
          /\ \A k \in 1 .. 1 - 1 + 1 : SubSeq(Contents, 1, 1)[k] = Contents[1 + k - 1]
      BY <2>3, SubSeqProperties
    <3> QED BY <3>1
  <2> HIDE DEF x
  <2>5. <<x>> \in Seq(Items) /\ Len(<<x>>) = 1 /\ <<x>>[1] = x
    BY <2>2
  <2>6. \A k \in 1 .. 1 : <<x>>[k] = SubSeq(Contents, 1, 1)[k]
    BY <2>1, <2>4, <2>5
  <2>7. <<x>> = SubSeq(Contents, 1, 1)
    BY <2>4, <2>5, <2>6, SeqEqual
  <2> QED BY <1>1, <2>7
<1>6. Contents' = SubSeq(Contents, 2, s)
  <2> DEFINE f == Contents'
             t == SubSeq(Contents, 2, s)
             m == s - 1
  <2>1. \A k \in 2 .. s : Contents[k] \in Items
    BY <1>2, <1>3, ElementOfSeq
  <2>2. /\ t \in Seq(Items)
        /\ Len(t) = IF 2 <= s THEN s - 2 + 1 ELSE 0
        /\ \A k \in 1 .. s - 2 + 1 : t[k] = Contents[2 + k - 1]
    BY <1>3, <2>1, SubSeqProperties
  <2>3. Len(t) = m /\ m \in Nat /\ \A k \in 1 .. m : t[k] = Contents[k + 1]
    BY <1>2, <1>3, <2>2
  <2>4. f = [k \in 1 .. m |-> f[k]] /\ \A k \in 1 .. m : f[k] = t[k]
    BY <1>4, <2>3
  <2> HIDE DEF f, t, m
  <2>5. f = t
    BY <2>2, <2>3, <2>4, FunctionIsSeq
  <2> QED BY <2>5 DEF f, t
<1>7. 1 <= Len(Contents) /\ Contents' = SubSeq(Contents, 1 + 1, Len(Contents))
  BY <1>2, <1>3, <1>6
<1> QED BY <1>5, <1>7 DEF FIFO!HandOut

\* shared_memory.c implements a first-in first-out queue of queue_size - 1 items
\* for any number of producers and consumers, of whom any may die at any point.
THEOREM Refinement == Spec => ImplementsFIFO
<1>1. Init => FIFO!Init
  <2> SUFFICES ASSUME Init PROVE Contents = << >> /\ handed = << >>
    BY DEF FIFO!Init
  <2>1. Size = 0
    BY DEF Init, Size
  <2> QED BY <2>1 DEF Init, Contents
<1>2. Inv /\ [Next]_vars => [FIFO!Next]_(FIFO!vars)
  <2> SUFFICES ASSUME Inv, [Next]_vars
      PROVE  \/ \E batch \in FIFO!Batches : FIFO!Accept(batch)
             \/ \E n \in 1 .. 1 : FIFO!HandOut(n)
             \/ Contents' = Contents /\ handed' = handed
    BY DEF FIFO!Next, FIFO!vars
  <2>1. CASE UNCHANGED vars
    <3>1. UNCHANGED <<ring, handed>>
      BY <2>1 DEF vars, ring
    <3> QED BY <3>1, RingStutters
  <2>2. ASSUME NEW t \in Procs,
               \/ Lock(t) \/ Enqueue(t) \/ Dequeue(t) \/ DequeueRead(t) \/ Timeout(t)
               \/ Unlock(t) \/ SpuriousWake(t) \/ Crash(t)
               \/ \E S \in {Producers, Consumers} : Signal(t, S)
        PROVE  Contents' = Contents /\ handed' = handed
    <3>1. UNCHANGED <<ring, handed>>
      BY <2>2 DEF Lock, Enqueue, Dequeue, DequeueRead, Timeout, Unlock, SpuriousWake,
                  Signal, Crash, ghost
    <3> QED BY <3>1, RingStutters
  <2>3. ASSUME NEW p \in Producers, EnqueueWrite(p)
        PROVE  Contents' = Contents /\ handed' = handed
    BY <2>3, WriteStutters
  <2>4. ASSUME NEW p \in Producers, EnqueuePublish(p)
        PROVE  \E batch \in FIFO!Batches : FIFO!Accept(batch)
    BY <2>4, PublishAccepts
  <2>5. ASSUME NEW c \in Consumers, DequeuePublish(c)
        PROVE  \E n \in 1 .. 1 : FIFO!HandOut(n)
    BY <2>5, PublishHandsOut
  <2>6. Producers \subseteq Procs /\ Consumers \subseteq Procs
    BY DEF Procs
  <2> QED BY <2>1, <2>2, <2>3, <2>4, <2>5, <2>6 DEF Next, ProducerStep, ConsumerStep
<1> QED BY <1>1, <1>2, Invariance, PTL DEF Spec, ImplementsFIFO, FIFO!Spec
=============================================================================

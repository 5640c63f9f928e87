------------------------- MODULE TaskManagerProofs --------------------------
(***************************************************************************)
(* Proofs about TaskManager, for every number of clients, executors and    *)
(* nodes and every length of the free list: Inv is inductive, and from it  *)
(* follow that nothing is freed early, what is leaked, who may be left asleep,   *)
(* and that a result fits the state it was read after.                     *)
(***************************************************************************)
EXTENDS TaskManager, FiniteSetTheorems, SequenceTheorems, TLAPS

-----------------------------------------------------------------------------
(* The inductive invariant *)

ClientPc == {"idle", "unref", "cancel", "wait", "asleep", "batch", "get"}
Early == {"run", "assignfail", "setresult", "seterror"}
Storing == {"complete", "fail", "loopfail"}
ExecutorPc == {"idle", "broadcast", "unref"} \cup Early \cup Storing

\* A call on a future the client holds.
OnFuture == {"cancel", "wait", "asleep", "get"}
DropPc == {"unref"} \cup Early \cup Storing

\* Types.
Types ==
    /\ TypeOK
    /\ pc \in [Threads -> ClientPc \cup ExecutorPc]
    /\ \A c \in Clients : pc[c] \in ClientPc
    /\ \A e \in Executors : pc[e] \in ExecutorPc
    /\ bat \in [Clients -> [i : Nat, el : Nat]]
    /\ seen \in [Clients -> States \cup {NULL}]

\* A thread works on a task except when it is idle or between two waits of a batch;
\* a client calls on a task whose future it holds, and the event loop's broadcast is on a
\* task that keeps its reference.
PlaceInv ==
    /\ \A t \in Threads : cur[t] = NULL <=> pc[t] \in {"idle", "batch"}
    /\ \A c \in Clients : pc[c] = "batch" => bat[c].i >= 1
    /\ \A c \in Clients : pc[c] \in OnFuture => c \in Holders(cur[c])
    /\ \A e \in Executors : pc[e] = "broadcast" => finisher[cur[e]] # NULL

\* No client holds a future twice.
HeldInv ==
    \A c \in Clients : \A i, j \in DOMAIN held[c] : held[c][i] = held[c][j] => i = j

\* The references of a node, and the node is live while there is one.
RefAt(n) ==
    /\ task[n].ref = (IF fref[n] > 0 THEN 1 ELSE 0) + (IF n \in queue THEN 1 ELSE 0)
                       + Cardinality(Dropping(n)) + (IF finisher[n] = NULL THEN 0 ELSE 1)
    /\ fref[n] = Cardinality(Holders(n))
    /\ mem[n] = "live" <=> task[n].ref > 0

RefInv == \A n \in Nodes : RefAt(n)

\* The free list.
ListInv ==
    /\ \A i, j \in DOMAIN freeList : freeList[i] = freeList[j] => i = j
    /\ {freeList[i] : i \in DOMAIN freeList} = {n \in Nodes : mem[n] = "free"}

\* A task is submitted once: it is in the queue, or one executor has it, or neither.
OneFinisher ==
    \A e \in Executors : cur[e] # NULL =>
        /\ cur[e] \notin queue
        /\ \A f \in Executors : cur[f] = cur[e] => f = e

\* The final state of the task is still to come.
Unfinished(n) ==
    n \in queue \/ \E e \in Executors : cur[e] = n /\ pc[e] \in Early \cup Storing

\* A task is finished once.
FinisherInv == \A n \in Nodes : Unfinished(n) => finisher[n] = NULL

\* The result of n is one of a task that was found in state s.
Matches(n, s) ==
    /\ s = "COMPLETED" => task[n].out # NULL /\ task[n].err = 0
    /\ s = "FAILED" => task[n].err = 1 /\ task[n].out = NULL

\* The result is there before the final state is, and before it there is nothing.
ResultInv ==
    /\ \A n \in Nodes : Matches(n, task[n].state)
    /\ \A n \in Nodes : Unfinished(n) => task[n].state \notin {"COMPLETED", "FAILED"}
    /\ \A n \in queue : task[n].out = NULL /\ task[n].err = 0
    /\ \A e \in Executors : pc[e] \in Early => task[cur[e]].out = NULL /\ task[cur[e]].err = 0
    /\ \A e \in Executors : pc[e] = "complete" => Matches(cur[e], "COMPLETED")
    /\ \A e \in Executors : pc[e] \in {"fail", "loopfail"} => Matches(cur[e], "FAILED")

\* What task_get_result saw is still what it copies, and nobody will change it.
GetInv ==
    \A c \in Clients : pc[c] = "get" =>
        /\ Matches(cur[c], seen[c])
        /\ seen[c] \in {"COMPLETED", "FAILED"} => ~Unfinished(cur[c])

MemoryInv == Types /\ PlaceInv /\ HeldInv /\ RefInv /\ ListInv
Inv == MemoryInv /\ OneFinisher /\ FinisherInv /\ ResultInv /\ GetInv /\ OnlyWorkerCompletionIsSilent

-----------------------------------------------------------------------------
(* Helpers *)

\* Threads are one kind or the other, and NULL is none of the things it stands for
\* the absence of.
LEMMA Sizes ==
    /\ Clients \subseteq Threads /\ Executors \subseteq Threads
    /\ \A t \in Threads : t \in Clients \/ t \in Executors
    /\ Clients \cap Executors = {} /\ NULL \notin Nodes
    /\ NULL \notin {"out", "worker", "loop"}
    /\ Timeout \in Nat /\ MaxPoolSize \in Nat
    /\ IsFiniteSet(Threads) /\ IsFiniteSet(Clients)
<1>1. IsFiniteSet(Threads)
  BY TaskManagerAssumption DEF Threads
<1>2. IsFiniteSet(Clients)
  BY <1>1, FS_Subset DEF Threads
<1> QED BY <1>1, <1>2, TaskManagerAssumption DEF Threads

\* The sets that are counted are finite.
LEMMA Finite ==
    ASSUME NEW n
    PROVE  /\ IsFiniteSet(Dropping(n)) /\ Cardinality(Dropping(n)) \in Nat
           /\ IsFiniteSet(Holders(n)) /\ Cardinality(Holders(n)) \in Nat
<1>1. Dropping(n) \subseteq Threads /\ Holders(n) \subseteq Clients
  BY DEF Dropping, Holders
<1>2. IsFiniteSet(Dropping(n)) /\ IsFiniteSet(Holders(n))
  BY <1>1, Sizes, FS_Subset
<1> QED BY <1>2, FS_CardinalityType

\* A finite set is empty when its cardinality is 0, and has its element when it is 1.
LEMMA NoneCounted ==
    ASSUME NEW S, IsFiniteSet(S)
    PROVE  /\ Cardinality(S) \in Nat
           /\ Cardinality(S) = 0 <=> S = {}
           /\ \A x \in S : Cardinality(S) = 1 => S = {x}
<1>1. Cardinality(S) \in Nat /\ (Cardinality(S) = 0 <=> S = {})
  BY FS_CardinalityType, FS_EmptySet
<1>2. ASSUME NEW x \in S, Cardinality(S) = 1 PROVE S = {x}
  <2>1. IsFiniteSet(S \ {x}) /\ Cardinality(S \ {x}) = Cardinality(S) - 1
    BY <1>2, FS_RemoveElement
  <2>2. S \ {x} = {}
    BY <1>2, <2>1, FS_EmptySet
  <2> QED BY <1>2, <2>2
<1> QED BY <1>1, <1>2

\* Types of a thread's place.
LEMMA Places ==
    ASSUME Types, PlaceInv
    PROVE  /\ cur \in [Threads -> Nodes \cup {NULL}]
           /\ pc \in [Threads -> ClientPc \cup ExecutorPc]
           /\ held \in [Clients -> Seq(Nodes)]
           /\ \A t \in Threads : cur[t] \in Nodes <=> pc[t] \notin {"idle", "batch"}
           /\ \A c \in Clients : pc[c] \in ClientPc
           /\ \A e \in Executors : pc[e] \in ExecutorPc
<1>1. cur \in [Threads -> Nodes \cup {NULL}] /\ held \in [Clients -> Seq(Nodes)]
      /\ pc \in [Threads -> ClientPc \cup ExecutorPc]
  BY DEF Types, TypeOK
<1> QED BY <1>1, Sizes DEF Types, PlaceInv

\* Who is counted in the references of a node.
LEMMA DroppingIs ==
    ASSUME NEW n
    PROVE  Dropping(n) = {t \in Threads : cur[t] = n /\ pc[t] \in DropPc}
BY DEF Dropping, DropPc, Early, Storing

\* A node that a thread works on, or whose future a client holds, is live.
LEMMA UsedIsLive ==
    ASSUME MemoryInv, NEW n \in Nodes,
           n \in queue \/ Holders(n) # {} \/ finisher[n] # NULL \/ \E t \in Threads : cur[t] = n
    PROVE  /\ mem[n] = "live"
           /\ \A c \in Clients : cur[c] = n /\ pc[c] # "unref" => fref[n] > 0
<1>0. /\ RefAt(n) /\ IsFiniteSet(Dropping(n)) /\ Cardinality(Dropping(n)) \in Nat
      /\ IsFiniteSet(Holders(n)) /\ Cardinality(Holders(n)) \in Nat
      /\ fref[n] \in Nat /\ task[n].ref \in Nat
  BY Finite DEF MemoryInv, RefInv, Types, TypeOK
<1>1. Holders(n) # {} => fref[n] > 0
  BY <1>0, NoneCounted DEF RefAt
<1>2. ASSUME NEW t \in Threads, cur[t] = n
      PROVE  Dropping(n) # {} \/ Holders(n) # {} \/ finisher[n] # NULL
  <2>1. pc[t] \notin {"idle", "batch"}
    BY <1>2, Places DEF MemoryInv
  <2>2. CASE t \in Clients
    BY <1>2, <2>1, <2>2, DroppingIs, Places
       DEF MemoryInv, PlaceInv, OnFuture, ClientPc, DropPc
  <2>3. CASE t \in Executors
    BY <1>2, <2>1, <2>3, DroppingIs, Places DEF MemoryInv, PlaceInv, DropPc, ExecutorPc
  <2> QED BY <2>2, <2>3, Sizes
<1>3. Dropping(n) # {} => Cardinality(Dropping(n)) > 0
  BY <1>0, NoneCounted
<1>4. task[n].ref > 0
  BY <1>0, <1>1, <1>2, <1>3 DEF RefAt
<1>5. ASSUME NEW c \in Clients, cur[c] = n, pc[c] # "unref" PROVE Holders(n) # {}
  BY <1>5, Places, Sizes DEF MemoryInv, PlaceInv, OnFuture, ClientPc
<1> QED BY <1>0, <1>1, <1>4, <1>5 DEF RefAt

-----------------------------------------------------------------------------
(* Steps that neither create, drop nor pass on a reference *)

\* They leave the memory, the queue and the futures alone, and a thread drops the
\* same task as before.
LEMMA MemoryStays ==
    ASSUME MemoryInv, UNCHANGED <<mem, freeList, fref, queue, held, finisher>>,
           \A n \in Nodes : task'[n].ref = task[n].ref,
           \A t \in Threads : cur'[t] = cur[t] \/ {pc[t], pc'[t]} \cap DropPc = {},
           \A t \in Threads : pc[t] \in DropPc <=> pc'[t] \in DropPc
    PROVE  HeldInv' /\ RefInv' /\ ListInv'
<1>1. \A n \in Nodes : Dropping(n)' = Dropping(n) /\ Holders(n)' = Holders(n)
  <2> TAKE n \in Nodes
  <2>1. Dropping(n) = {t \in Threads : cur[t] = n /\ pc[t] \in DropPc}
    BY DroppingIs
  <2>2. Dropping(n)' = {t \in Threads : cur'[t] = n /\ pc'[t] \in DropPc}
    BY DEF Dropping, DropPc, Early, Storing
  <2>3. \A t \in Threads : (cur'[t] = n /\ pc'[t] \in DropPc) <=> (cur[t] = n /\ pc[t] \in DropPc)
    OBVIOUS
  <2> QED BY <2>1, <2>2, <2>3 DEF Holders
<1>2. RefInv'
  BY <1>1 DEF MemoryInv, RefInv, RefAt
<1> QED BY <1>2 DEF MemoryInv, HeldInv, ListInv

\* A step of a client inside its calls: it goes to l with task m.
LEMMA ClientMoves ==
    ASSUME MemoryInv, NEW c \in Clients, NEW l \in ClientPc \ {"unref"},
           NEW m \in Nodes \cup {NULL}, pc[c] # "unref",
           cur' = [cur EXCEPT ![c] = m], pc'[c] = l,
           pc' \in [Threads -> ClientPc \cup ExecutorPc],
           \A t \in Threads \ {c} : pc'[t] = pc[t] \/ (pc[t] = "asleep" /\ pc'[t] = "wait"),
           m = NULL <=> l \in {"idle", "batch"}, l \in OnFuture => c \in Holders(m),
           UNCHANGED <<mem, freeList, created, fref, queue, held, finisher>>,
           mutex' \in [Nodes -> Clients \cup {NULL}],
           task' \in [Nodes -> [state : States, ref : Nat, out : {NULL, "out"}, err : {0, 1}]],
           \A n \in Nodes : task'[n].ref = task[n].ref,
           timed' \in [Clients -> BOOLEAN],
           bat' \in [Clients -> [i : Nat, el : Nat]], seen' \in [Clients -> States \cup {NULL}],
           \A d \in Clients \ {c} : bat'[d] = bat[d],
           l = "batch" => bat'[c].i >= 1
    PROVE  MemoryInv'
<1>0. /\ cur \in [Threads -> Nodes \cup {NULL}] /\ pc \in [Threads -> ClientPc \cup ExecutorPc]
      /\ \A d \in Clients : pc[d] \in ClientPc
      /\ \A e \in Executors : pc[e] \in ExecutorPc
      /\ c \in Threads /\ Clients \subseteq Threads /\ Executors \subseteq Threads
      /\ Clients \cap Executors = {}
  BY Places, Sizes DEF MemoryInv
<1>1. /\ cur' \in [Threads -> Nodes \cup {NULL}] /\ cur'[c] = m
      /\ \A t \in Threads \ {c} : cur'[t] = cur[t]
  BY <1>0
<1>2. \A d \in Clients : pc'[d] \in ClientPc
  BY <1>0 DEF ClientPc
<1>3. \A e \in Executors : pc'[e] = pc[e]
  BY <1>0 DEF ExecutorPc, Early, Storing
<1>4. Types'
  <2>1. TypeOK'
    BY <1>1 DEF MemoryInv, Types, TypeOK
  <2> QED BY <1>0, <1>2, <1>3, <2>1 DEF Types
<1>5. PlaceInv'
  <2>1. \A t \in Threads : cur'[t] = NULL <=> pc'[t] \in {"idle", "batch"}
    BY <1>0, <1>1 DEF MemoryInv, PlaceInv
  <2>2. \A d \in Clients : pc'[d] = "batch" => bat'[d].i >= 1
    BY <1>0 DEF MemoryInv, PlaceInv
  <2>3. \A d \in Clients : pc'[d] \in OnFuture => d \in Holders(cur'[d])
    BY <1>0, <1>1 DEF MemoryInv, PlaceInv, OnFuture
  <2>4. \A n : Holders(n)' = Holders(n)
    BY DEF Holders
  <2>5. \A e \in Executors : pc'[e] = "broadcast" => finisher'[cur'[e]] # NULL
    BY <1>0, <1>1, <1>3 DEF MemoryInv, PlaceInv
  <2> QED BY <2>1, <2>2, <2>3, <2>4, <2>5 DEF PlaceInv
<1>6. HeldInv' /\ RefInv' /\ ListInv'
  <2>1. l \notin DropPc /\ pc[c] \notin DropPc
    BY <1>0 DEF ClientPc, DropPc, Early, Storing
  <2>2. \A t \in Threads : cur'[t] = cur[t] \/ {pc[t], pc'[t]} \cap DropPc = {}
    BY <1>1, <2>1
  <2>3. \A t \in Threads : pc[t] \in DropPc <=> pc'[t] \in DropPc
    <3>1. "asleep" \notin DropPc /\ "wait" \notin DropPc
      BY DEF DropPc, Early, Storing
    <3> QED BY <2>1, <3>1
  <2> QED BY <2>2, <2>3, MemoryStays
<1> QED BY <1>4, <1>5, <1>6 DEF MemoryInv

\* A step of an executor on its task.
LEMMA ExecutorMoves ==
    ASSUME MemoryInv, NEW e \in Executors, NEW l \in Early \cup Storing, pc[e] \in Early,
           pc' \in [Threads -> ClientPc \cup ExecutorPc], pc'[e] = l,
           \A t \in Threads \ {e} : pc'[t] = pc[t],
           UNCHANGED <<mem, freeList, created, mutex, fref, queue, held, cur, timed, bat, seen,
                       finisher>>,
           task' \in [Nodes -> [state : States, ref : Nat, out : {NULL, "out"}, err : {0, 1}]],
           \A n \in Nodes : task'[n].ref = task[n].ref
    PROVE  MemoryInv'
<1>0. /\ cur \in [Threads -> Nodes \cup {NULL}] /\ pc \in [Threads -> ClientPc \cup ExecutorPc]
      /\ \A d \in Clients : pc[d] \in ClientPc
      /\ \A f \in Executors : pc[f] \in ExecutorPc
      /\ e \in Threads /\ Clients \subseteq Threads /\ Executors \subseteq Threads
      /\ Clients \cap Executors = {}
  BY Places, Sizes DEF MemoryInv
<1>1. \A d \in Clients : pc'[d] \in ClientPc
  BY <1>0 DEF ClientPc
<1>2. \A f \in Executors : pc'[f] \in ExecutorPc
  BY <1>0 DEF ExecutorPc, Early, Storing
<1>3. /\ pc[e] \in DropPc /\ l \in DropPc
      /\ {pc[e], l} \cap {"idle", "batch", "asleep", "wait", "broadcast"} = {}
  BY <1>0 DEF ExecutorPc, DropPc, Early, Storing
<1>4. Types'
  <2>1. TypeOK'
    BY DEF MemoryInv, Types, TypeOK
  <2> QED BY <1>1, <1>2, <2>1 DEF MemoryInv, Types
<1>5. PlaceInv'
  <2>1. \A t \in Threads : cur'[t] = NULL <=> pc'[t] \in {"idle", "batch"}
    BY <1>0, <1>3 DEF MemoryInv, PlaceInv, ExecutorPc, Early, Storing
  <2>2. \A d \in Clients : pc'[d] = "batch" => bat'[d].i >= 1
    BY <1>0 DEF MemoryInv, PlaceInv
  <2>3. \A d \in Clients : pc'[d] \in OnFuture => d \in Holders(cur'[d])
    BY <1>0 DEF MemoryInv, PlaceInv, OnFuture
  <2>4. \A n : Holders(n)' = Holders(n)
    BY DEF Holders
  <2>5. \A f \in Executors : pc'[f] = "broadcast" => finisher'[cur'[f]] # NULL
    BY <1>0, <1>3 DEF MemoryInv, PlaceInv
  <2> QED BY <2>1, <2>2, <2>3, <2>4, <2>5 DEF PlaceInv
<1>6. HeldInv' /\ RefInv' /\ ListInv'
  <2>1. \A t \in Threads : cur'[t] = cur[t] \/ {pc[t], pc'[t]} \cap DropPc = {}
    OBVIOUS
  <2>2. \A t \in Threads : pc[t] \in DropPc <=> pc'[t] \in DropPc
    BY <1>3
  <2> QED BY <2>1, <2>2, MemoryStays
<1> QED BY <1>4, <1>5, <1>6 DEF MemoryInv

\* The same for a client that only goes from one place to another: no task changes.
LEMMA ClientGoes ==
    ASSUME MemoryInv, NEW c \in Clients, NEW l \in ClientPc \ {"unref"},
           NEW m \in Nodes \cup {NULL}, pc[c] # "unref",
           cur' = [cur EXCEPT ![c] = m], pc' = [pc EXCEPT ![c] = l],
           m = NULL <=> l \in {"idle", "batch"}, l \in OnFuture => c \in Holders(m),
           UNCHANGED <<memVars, refVars, task, finisher>>,
           mutex' \in [Nodes -> Clients \cup {NULL}],
           timed' \in [Clients -> BOOLEAN],
           bat' \in [Clients -> [i : Nat, el : Nat]], seen' \in [Clients -> States \cup {NULL}],
           \A d \in Clients \ {c} : bat'[d] = bat[d],
           l = "batch" => bat'[c].i >= 1
    PROVE  MemoryInv'
<1>1. /\ pc \in [Threads -> ClientPc \cup ExecutorPc] /\ c \in Threads
      /\ task \in [Nodes -> [state : States, ref : Nat, out : {NULL, "out"}, err : {0, 1}]]
  BY Sizes DEF MemoryInv, Types, TypeOK
<1>2. /\ pc' \in [Threads -> ClientPc \cup ExecutorPc] /\ pc'[c] = l
      /\ \A t \in Threads \ {c} : pc'[t] = pc[t]
  BY <1>1
<1>3. UNCHANGED <<mem, freeList, created, fref, queue, held, finisher, task>>
  BY DEF memVars, refVars
<1> QED BY <1>1, <1>2, <1>3, ClientMoves

\* A future that c holds is one of a node.
LEMMA HeldIsNode ==
    ASSUME MemoryInv, NEW c \in Clients, NEW i \in DOMAIN held[c]
    PROVE  held[c][i] \in Nodes /\ c \in Holders(held[c][i])
<1>1. held[c] \in Seq(Nodes)
  BY DEF MemoryInv, Types, TypeOK
<1>2. held[c][i] \in Nodes
  BY <1>1, ElementOfSeq
<1> QED BY <1>2 DEF Holders

\* The types the steps of a client rest on.
LEMMA CallTypes ==
    ASSUME MemoryInv
    PROVE  /\ mutex \in [Nodes -> Clients \cup {NULL}] /\ timed \in [Clients -> BOOLEAN]
           /\ bat \in [Clients -> [i : Nat, el : Nat]] /\ seen \in [Clients -> States \cup {NULL}]
           /\ task \in [Nodes -> [state : States, ref : Nat, out : {NULL, "out"}, err : {0, 1}]]
           /\ cur \in [Threads -> Nodes \cup {NULL}] /\ pc \in [Threads -> ClientPc \cup ExecutorPc]
           /\ {"idle", "cancel", "wait", "asleep", "batch", "get"} \subseteq ClientPc \ {"unref"}
           /\ OnFuture = {"cancel", "wait", "asleep", "get"}
BY DEF MemoryInv, Types, TypeOK, ClientPc, OnFuture

\* task_cancel locks.
LEMMA CancelLoadMemory == ASSUME MemoryInv, NEW c \in Clients, CancelLoad(c) PROVE MemoryInv'
<1>1. PICK i \in DOMAIN held[c] :
         mutex' = [mutex EXCEPT ![held[c][i]] = c] /\ At(c, "cancel", held[c][i])
  BY DEF CancelLoad
<1> DEFINE n == held[c][i]
<1>2. n \in Nodes /\ c \in Holders(n) /\ n # NULL
  BY HeldIsNode, Sizes
<1> HIDE DEF n
<1>3. /\ cur' = [cur EXCEPT ![c] = n] /\ pc' = [pc EXCEPT ![c] = "cancel"]
      /\ mutex' = [mutex EXCEPT ![n] = c]
  BY <1>1 DEF At, Goto, n
<1>4. mutex' \in [Nodes -> Clients \cup {NULL}]
  BY <1>3, CallTypes
<1>5. UNCHANGED <<memVars, refVars, task, finisher, timed, bat, seen>> /\ pc[c] = "idle"
  BY DEF CancelLoad, callVars
<1> QED BY <1>2, <1>3, <1>4, <1>5, CallTypes, ClientGoes

\* task_cancel stores CANCELLED.
LEMMA CancelStoreMemory == ASSUME MemoryInv, NEW c \in Clients, CancelStore(c) PROVE MemoryInv'
<1>0. c \in Threads /\ pc[c] = "cancel"
  BY Sizes DEF CancelStore
<1>1. cur[c] \in Nodes
  BY <1>0, Places DEF MemoryInv
<1>2. /\ task' = [task EXCEPT ![cur[c]].state = "CANCELLED"]
      /\ mutex' = [mutex EXCEPT ![cur[c]] = NULL]
      /\ pc' = [u \in Threads |-> IF u = c THEN "idle"
                                  ELSE IF pc[u] = "asleep" /\ cur[u] = cur[c] THEN "wait" ELSE pc[u]]
      /\ cur' = [cur EXCEPT ![c] = NULL]
      /\ UNCHANGED <<mem, freeList, created, fref, queue, held, finisher, timed, bat, seen>>
  BY DEF CancelStore, Broadcast, memVars, refVars, callVars
<1>3. /\ pc' \in [Threads -> ClientPc \cup ExecutorPc] /\ pc'[c] = "idle"
      /\ \A t \in Threads \ {c} : pc'[t] = pc[t] \/ (pc[t] = "asleep" /\ pc'[t] = "wait")
  BY <1>0, <1>2, CallTypes
<1>4. /\ mutex' \in [Nodes -> Clients \cup {NULL}]
      /\ task' \in [Nodes -> [state : States, ref : Nat, out : {NULL, "out"}, err : {0, 1}]]
      /\ \A n \in Nodes : task'[n].ref = task[n].ref
  BY <1>1, <1>2, CallTypes DEF States
<1> QED BY <1>0, <1>2, <1>3, <1>4, CallTypes, ClientMoves

\* task_wait returns.
LEMMA WaitReturnsMemory ==
    ASSUME MemoryInv, NEW c \in Clients, NEW ok, WaitReturns(c, ok), pc[c] # "unref",
           UNCHANGED <<memVars, task, mutex, refVars, seen, finisher>>
    PROVE  MemoryInv'
<1>1. timed' \in [Clients -> BOOLEAN]
  BY CallTypes DEF WaitReturns
<1>2. bat[c] \in [i : Nat, el : Nat]
  BY CallTypes
<1>3. CASE /\ bat[c].i > 0 /\ At(c, "batch", NULL)
           /\ bat' = [bat EXCEPT ![c].i = @ + 1]
  <2>1. /\ bat' \in [Clients -> [i : Nat, el : Nat]] /\ bat'[c].i >= 1
        /\ \A d \in Clients \ {c} : bat'[d] = bat[d]
    BY <1>2, <1>3, CallTypes
  <2>2. cur' = [cur EXCEPT ![c] = NULL] /\ pc' = [pc EXCEPT ![c] = "batch"]
    BY <1>3 DEF At, Goto
  <2> QED BY <1>1, <2>1, <2>2, CallTypes, ClientGoes
<1>4. CASE Idle(c) /\ bat' = [bat EXCEPT ![c] = [i |-> 0, el |-> 0]]
  <2>1. /\ bat' \in [Clients -> [i : Nat, el : Nat]]
        /\ \A d \in Clients \ {c} : bat'[d] = bat[d]
    BY <1>4, CallTypes
  <2>2. cur' = [cur EXCEPT ![c] = NULL] /\ pc' = [pc EXCEPT ![c] = "idle"]
    BY <1>4 DEF Idle, At, Goto
  <2> QED BY <1>1, <2>1, <2>2, CallTypes, ClientGoes
<1> QED BY <1>3, <1>4 DEF WaitReturns

\* future_wait, and task_wait between its sleeps.
LEMMA WaitMemory ==
    ASSUME MemoryInv, NEW c \in Clients, FutureWait(c) \/ TaskWait(c) \/ WaitTimeout(c) \/ SpuriousWake(c)
    PROVE  MemoryInv'
<1>0. c \in Threads
  BY Sizes
<1>1. CASE FutureWait(c)
  <2>1. PICK i \in DOMAIN held[c], b \in BOOLEAN :
           At(c, "wait", held[c][i]) /\ timed' = [timed EXCEPT ![c] = b]
    BY <1>1 DEF FutureWait
  <2> DEFINE n == held[c][i]
  <2>2. n \in Nodes /\ c \in Holders(n) /\ n # NULL
    BY HeldIsNode, Sizes
  <2> HIDE DEF n
  <2>3. cur' = [cur EXCEPT ![c] = n] /\ pc' = [pc EXCEPT ![c] = "wait"]
    BY <2>1 DEF At, Goto, n
  <2>4. timed' \in [Clients -> BOOLEAN]
    BY <2>1, CallTypes
  <2>5. UNCHANGED <<memVars, refVars, task, finisher, mutex, bat, seen>> /\ pc[c] = "idle"
    BY <1>1 DEF FutureWait
  <2> QED BY <2>2, <2>3, <2>4, <2>5, CallTypes, ClientGoes
<1>2. CASE TaskWait(c) /\ Goto(c, "asleep") /\ UNCHANGED <<cur, bat, timed>>
  <2>1. /\ pc[c] = "wait" /\ UNCHANGED <<memVars, refVars, task, finisher, mutex, seen>>
        /\ pc' = [pc EXCEPT ![c] = "asleep"]
    BY <1>2 DEF TaskWait, Goto
  <2>2. cur[c] \in Nodes /\ c \in Holders(cur[c]) /\ cur[c] # NULL
    BY <1>0, <2>1, Places, Sizes DEF MemoryInv, PlaceInv, OnFuture
  <2>3. cur' = [cur EXCEPT ![c] = cur[c]]
    BY <1>2, CallTypes
  <2> QED BY <1>2, <2>1, <2>2, <2>3, CallTypes, ClientGoes
<1>3. CASE TaskWait(c) /\ WaitReturns(c, TRUE)
  BY <1>3, WaitReturnsMemory DEF TaskWait
<1>4. CASE WaitTimeout(c)
  BY <1>4, WaitReturnsMemory DEF WaitTimeout
<1>5. CASE SpuriousWake(c)
  <2>1. /\ pc[c] = "asleep" /\ cur' = cur /\ pc' = [pc EXCEPT ![c] = "wait"]
        /\ UNCHANGED <<memVars, refVars, task, finisher, mutex, seen, bat, timed>>
    BY <1>5 DEF SpuriousWake, Goto, callVars
  <2>2. cur[c] \in Nodes /\ c \in Holders(cur[c]) /\ cur[c] # NULL
    BY <1>0, <2>1, Places, Sizes DEF MemoryInv, PlaceInv, OnFuture
  <2>3. cur' = [cur EXCEPT ![c] = cur[c]]
    BY <2>1, CallTypes
  <2> QED BY <2>1, <2>2, <2>3, CallTypes, ClientGoes
<1> QED BY <1>1, <1>2, <1>3, <1>4, <1>5 DEF TaskWait

\* task_batch_wait.
LEMMA BatchMemory ==
    ASSUME MemoryInv, NEW c \in Clients, BatchWait(c) \/ BatchNext(c)
    PROVE  MemoryInv'
<1>0. c \in Threads
  BY Sizes
<1>1. CASE BatchWait(c)
  <2>1. /\ pc[c] = "idle" /\ UNCHANGED <<memVars, refVars, task, finisher, mutex, seen, cur, timed>>
        /\ pc' = [pc EXCEPT ![c] = "batch"] /\ bat' = [bat EXCEPT ![c] = [i |-> 1, el |-> 0]]
    BY <1>1 DEF BatchWait, Goto
  <2>2. cur[c] = NULL
    BY <1>0, <2>1 DEF MemoryInv, PlaceInv
  <2>3. cur' = [cur EXCEPT ![c] = NULL]
    BY <2>1, <2>2, CallTypes
  <2>4. /\ bat' \in [Clients -> [i : Nat, el : Nat]] /\ bat'[c].i >= 1
        /\ \A d \in Clients \ {c} : bat'[d] = bat[d]
    BY <2>1, CallTypes
  <2> QED BY <2>1, <2>3, <2>4, CallTypes, ClientGoes
<1>2. CASE BatchNext(c)
  <2>1. /\ pc[c] = "batch" /\ UNCHANGED <<memVars, refVars, task, finisher, mutex, seen>>
        /\ \E e \in bat[c].el .. 2 * Timeout :
             IF bat[c].i > Len(held[c]) \/ e = 2 * Timeout
             THEN WaitReturns(c, FALSE)
             ELSE /\ At(c, "wait", held[c][bat[c].i])
                  /\ timed' = [timed EXCEPT ![c] = (2 * Timeout - e) \div 2 > 0]
                  /\ bat' = [bat EXCEPT ![c].el = e]
    BY <1>2 DEF BatchNext
  <2>2. CASE WaitReturns(c, FALSE)
    BY <2>1, <2>2, WaitReturnsMemory
  <2>3. ASSUME NEW e \in bat[c].el .. 2 * Timeout, ~(bat[c].i > Len(held[c])),
               At(c, "wait", held[c][bat[c].i]),
               timed' = [timed EXCEPT ![c] = (2 * Timeout - e) \div 2 > 0],
               bat' = [bat EXCEPT ![c].el = e]
        PROVE  MemoryInv'
    <3>1. bat[c].i \in Nat /\ bat[c].el \in Nat /\ bat[c].i >= 1 /\ held[c] \in Seq(Nodes)
      BY <2>1, CallTypes DEF MemoryInv, PlaceInv, Types, TypeOK
    <3>2. bat[c].i \in DOMAIN held[c]
      BY <2>3, <3>1
    <3> DEFINE n == held[c][bat[c].i]
    <3>3. n \in Nodes /\ c \in Holders(n) /\ n # NULL
      BY <3>2, HeldIsNode, Sizes
    <3> HIDE DEF n
    <3>4. cur' = [cur EXCEPT ![c] = n] /\ pc' = [pc EXCEPT ![c] = "wait"]
      BY <2>3 DEF At, Goto, n
    <3>5. e \in Nat
      BY <3>1, Sizes
    <3>6. /\ bat' \in [Clients -> [i : Nat, el : Nat]]
          /\ \A d \in Clients \ {c} : bat'[d] = bat[d]
      BY <2>3, <3>5, CallTypes
    <3>7. timed' \in [Clients -> BOOLEAN]
      <4>1. ((2 * Timeout - e) \div 2 > 0) \in BOOLEAN
        OBVIOUS
      <4> QED BY <2>3, <4>1, CallTypes, Zenon
    <3> QED BY <2>1, <3>3, <3>4, <3>6, <3>7, CallTypes, ClientGoes
  <2> QED BY <2>1, <2>2, <2>3
<1> QED BY <1>1, <1>2

\* task_get_result tests the state, and copies the result.
LEMMA GetMemory ==
    ASSUME MemoryInv, NEW c \in Clients, GetResult(c) \/ CopyResult(c)
    PROVE  MemoryInv'
<1>0. c \in Threads
  BY Sizes
<1>1. CASE GetResult(c)
  <2>1. PICK i \in DOMAIN held[c] : /\ At(c, "get", held[c][i])
                                    /\ seen' = [seen EXCEPT ![c] = task[held[c][i]].state]
    BY <1>1 DEF GetResult
  <2> DEFINE n == held[c][i]
  <2>2. n \in Nodes /\ c \in Holders(n) /\ n # NULL
    BY HeldIsNode, Sizes
  <2> HIDE DEF n
  <2>3. /\ cur' = [cur EXCEPT ![c] = n] /\ pc' = [pc EXCEPT ![c] = "get"]
        /\ seen' = [seen EXCEPT ![c] = task[n].state]
    BY <2>1 DEF At, Goto, n
  <2>4. seen' \in [Clients -> States \cup {NULL}]
    BY <2>2, <2>3, CallTypes
  <2>5. UNCHANGED <<memVars, refVars, task, finisher, mutex, timed, bat>> /\ pc[c] = "idle"
    BY <1>1 DEF GetResult
  <2> QED BY <2>2, <2>3, <2>4, <2>5, CallTypes, ClientGoes
<1>2. CASE CopyResult(c)
  <2>1. /\ cur' = [cur EXCEPT ![c] = NULL] /\ pc' = [pc EXCEPT ![c] = "idle"]
        /\ seen' = [seen EXCEPT ![c] = NULL] /\ pc[c] = "get"
        /\ UNCHANGED <<memVars, refVars, task, finisher, mutex, timed, bat>>
    BY <1>2 DEF CopyResult, Idle, At, Goto
  <2>2. seen' \in [Clients -> States \cup {NULL}]
    BY <2>1, CallTypes
  <2> QED BY <2>1, <2>2, CallTypes, ClientGoes
<1> QED BY <1>1, <1>2

\* What a store of a task's state changes.
LEMMA StateStored ==
    ASSUME MemoryInv, NEW m \in Nodes, NEW s \in States,
           task' = [task EXCEPT ![m].state = s]
    PROVE  /\ task' \in [Nodes -> [state : States, ref : Nat, out : {NULL, "out"}, err : {0, 1}]]
           /\ task'[m].state = s /\ \A n \in Nodes \ {m} : task'[n] = task[n]
           /\ \A n \in Nodes : /\ task'[n].ref = task[n].ref /\ task'[n].out = task[n].out
                               /\ task'[n].err = task[n].err
<1>1. task \in [Nodes -> [state : States, ref : Nat, out : {NULL, "out"}, err : {0, 1}]]
  BY CallTypes
<1> QED BY <1>1

\* An executor runs its task and stores what came of it.
LEMMA ExecuteMemory ==
    ASSUME MemoryInv, NEW e \in Executors, StoreRunning(e) \/ SetResult(e) \/ SetError(e)
    PROVE  MemoryInv'
<1>0. e \in Threads /\ pc[e] \in Early
  BY Sizes DEF StoreRunning, SetResult, SetError, Early
<1>1. cur[e] \in Nodes
  BY <1>0, Places DEF MemoryInv, Early
<1>2. UNCHANGED <<mem, freeList, created, mutex, fref, queue, held, cur, timed, bat, seen, finisher>>
  BY DEF StoreRunning, SetResult, SetError, memVars, refVars, callVars
<1>3. \E l \in Early \cup Storing : pc' = [pc EXCEPT ![e] = l]
  BY DEF StoreRunning, SetResult, SetError, Goto, Early, Storing
<1>4. PICK l \in Early \cup Storing : pc' = [pc EXCEPT ![e] = l]
  BY <1>3
<1>5. /\ pc' \in [Threads -> ClientPc \cup ExecutorPc] /\ pc'[e] = l
      /\ \A t \in Threads \ {e} : pc'[t] = pc[t]
  BY <1>0, <1>4, CallTypes DEF ExecutorPc
<1>6. /\ task' \in [Nodes -> [state : States, ref : Nat, out : {NULL, "out"}, err : {0, 1}]]
      /\ \A n \in Nodes : task'[n].ref = task[n].ref
  <2>1. CASE StoreRunning(e)
    <3>1. "RUNNING" \in States /\ task' = [task EXCEPT ![cur[e]].state = "RUNNING"]
      BY <2>1 DEF StoreRunning, States
    <3> QED BY <1>1, <3>1, StateStored
  <2>2. CASE SetResult(e)
    BY <1>1, <2>2, CallTypes DEF SetResult
  <2>3. CASE SetError(e)
    <3>1. task' = [task EXCEPT ![cur[e]].err = 1]
      BY <2>3 DEF SetError
    <3> QED BY <1>1, <3>1, CallTypes
  <2> QED BY <2>1, <2>2, <2>3
<1> QED BY <1>0, <1>2, <1>5, <1>6, ExecutorMoves

\* The event loop wakes who waits for its task, and leaves it.
LEMMA LoopBroadcastMemory ==
    ASSUME MemoryInv, NEW e \in Executors, LoopBroadcast(e)
    PROVE  MemoryInv'
<1>0. /\ e \in Threads /\ e \notin Clients /\ pc[e] = "broadcast"
      /\ Clients \subseteq Threads /\ Executors \subseteq Threads
  BY Sizes DEF LoopBroadcast
<1>1. /\ pc' = [u \in Threads |-> IF u = e THEN "idle"
                                  ELSE IF pc[u] = "asleep" /\ cur[u] = cur[e] THEN "wait" ELSE pc[u]]
      /\ cur' = [cur EXCEPT ![e] = NULL]
      /\ UNCHANGED <<mem, freeList, created, task, mutex, fref, queue, held, timed, bat, seen, finisher>>
  BY DEF LoopBroadcast, Broadcast, memVars, refVars, callVars
<1>2. /\ pc' \in [Threads -> ClientPc \cup ExecutorPc] /\ pc'[e] = "idle"
      /\ \A t \in Threads \ {e} : pc'[t] = pc[t] \/ (pc[t] = "asleep" /\ pc'[t] = "wait")
      /\ cur' \in [Threads -> Nodes \cup {NULL}] /\ cur'[e] = NULL
      /\ \A t \in Threads \ {e} : cur'[t] = cur[t]
  BY <1>0, <1>1, CallTypes DEF ClientPc
<1>3. /\ \A d \in Clients : pc'[d] \in ClientPc
      /\ \A f \in Executors : pc'[f] \in ExecutorPc /\ (f # e => pc'[f] = pc[f])
  BY <1>0, <1>2, Places DEF MemoryInv, ClientPc, ExecutorPc, Early, Storing
<1>4. Types'
  <2>1. TypeOK'
    BY <1>1, <1>2 DEF MemoryInv, Types, TypeOK
  <2> QED BY <1>1, <1>2, <1>3, <2>1 DEF MemoryInv, Types
<1>5. PlaceInv'
  <2>1. \A t \in Threads : cur'[t] = NULL <=> pc'[t] \in {"idle", "batch"}
    BY <1>2 DEF MemoryInv, PlaceInv
  <2>2. \A d \in Clients : pc'[d] = "batch" => bat'[d].i >= 1
    BY <1>0, <1>1, <1>2 DEF MemoryInv, PlaceInv
  <2>3. \A d \in Clients : pc'[d] \in OnFuture => d \in Holders(cur'[d])
    BY <1>0, <1>2 DEF MemoryInv, PlaceInv, OnFuture
  <2>4. \A n : Holders(n)' = Holders(n)
    BY <1>1 DEF Holders
  <2>5. \A f \in Executors : pc'[f] = "broadcast" => finisher'[cur'[f]] # NULL
    BY <1>0, <1>1, <1>2, <1>3 DEF MemoryInv, PlaceInv
  <2> QED BY <2>1, <2>2, <2>3, <2>4, <2>5 DEF PlaceInv
<1>6. HeldInv' /\ RefInv' /\ ListInv'
  <2>1. {"asleep", "wait", "idle", "broadcast"} \cap DropPc = {}
    BY DEF DropPc, Early, Storing
  <2>2. \A t \in Threads : cur'[t] = cur[t] \/ {pc[t], pc'[t]} \cap DropPc = {}
    BY <1>0, <1>2, <2>1
  <2>3. \A t \in Threads : pc[t] \in DropPc <=> pc'[t] \in DropPc
    BY <1>0, <1>2, <2>1
  <2> QED BY <1>1, <2>2, <2>3, MemoryStays
<1> QED BY <1>4, <1>5, <1>6 DEF MemoryInv

-----------------------------------------------------------------------------
(* Sequences of nodes without repetition *)

Has(s, n) == \E i \in DOMAIN s : s[i] = n
Distinct(s) == \A i, j \in DOMAIN s : s[i] = s[j] => i = j
Without(s, i) == SubSeq(s, 1, i - 1) \o SubSeq(s, i + 1, Len(s))

\* A node is put at the end, or at the front.
LEMMA Appended ==
    ASSUME NEW s \in Seq(Nodes), NEW n \in Nodes, ~Has(s, n), Distinct(s)
    PROVE  /\ Append(s, n) \in Seq(Nodes) /\ Distinct(Append(s, n))
           /\ \A k : Has(Append(s, n), k) <=> Has(s, k) \/ k = n
<1> DEFINE r == Append(s, n)
<1>1. /\ r \in Seq(Nodes) /\ Len(r) = Len(s) + 1 /\ Len(s) \in Nat
      /\ \A i \in 1 .. Len(s) : r[i] = s[i]
      /\ r[Len(s) + 1] = n
      /\ DOMAIN s = 1 .. Len(s) /\ DOMAIN r = 1 .. Len(s) + 1
  OBVIOUS
<1> HIDE DEF r
<1>2. Distinct(r)
  BY <1>1 DEF Distinct, Has
<1>3. \A k : Has(r, k) <=> Has(s, k) \/ k = n
  <2> TAKE k
  <2>1. Has(s, k) => Has(r, k)
    BY <1>1 DEF Has
  <2>2. k = n => Has(r, k)
    <3>1. Len(s) + 1 \in DOMAIN r
      BY <1>1
    <3> QED BY <1>1, <3>1 DEF Has
  <2>3. Has(r, k) => Has(s, k) \/ k = n
    BY <1>1 DEF Has
  <2> QED BY <2>1, <2>2, <2>3
<1> QED BY <1>1, <1>2, <1>3 DEF r

LEMMA Pushed ==
    ASSUME NEW s \in Seq(Nodes), NEW n \in Nodes, ~Has(s, n), Distinct(s)
    PROVE  /\ <<n>> \o s \in Seq(Nodes) /\ Distinct(<<n>> \o s)
           /\ \A k : Has(<<n>> \o s, k) <=> Has(s, k) \/ k = n
<1> DEFINE r == <<n>> \o s
<1>0. <<n>> \in Seq(Nodes) /\ Len(<<n>>) = 1 /\ <<n>>[1] = n
  OBVIOUS
<1>1. /\ r \in Seq(Nodes) /\ Len(r) = 1 + Len(s)
      /\ \A i \in 1 .. 1 + Len(s) : r[i] = IF i <= 1 THEN <<n>>[i] ELSE s[i - 1]
  BY <1>0, ConcatProperties
<1>2. Len(s) \in Nat /\ DOMAIN s = 1 .. Len(s)
  BY LenProperties
<1>3. DOMAIN r = 1 .. 1 + Len(s)
  BY <1>1, LenProperties
<1> HIDE DEF r
<1>4. r[1] = n /\ \A i \in 2 .. 1 + Len(s) : i - 1 \in DOMAIN s /\ r[i] = s[i - 1]
  BY <1>0, <1>1, <1>2
<1>5. Distinct(r)
  <2> SUFFICES ASSUME NEW i \in 1 .. 1 + Len(s), NEW j \in 1 .. 1 + Len(s), r[i] = r[j]
               PROVE  i = j
    BY <1>3 DEF Distinct
  <2>1. CASE i = 1 \/ j = 1
    BY <1>2, <1>4, <2>1 DEF Has
  <2>2. CASE i # 1 /\ j # 1
    <3>1. i \in 2 .. 1 + Len(s) /\ j \in 2 .. 1 + Len(s)
      BY <1>2, <2>2
    <3>2. i - 1 = j - 1
      BY <1>4, <3>1 DEF Distinct
    <3> QED BY <1>2, <3>2
  <2> QED BY <2>1, <2>2
<1>6. \A k : Has(r, k) <=> Has(s, k) \/ k = n
  <2> TAKE k
  <2>1. Has(s, k) => Has(r, k)
    <3> SUFFICES ASSUME NEW i \in DOMAIN s, s[i] = k PROVE Has(r, k)
      BY DEF Has
    <3>1. i + 1 \in 2 .. 1 + Len(s) /\ i + 1 \in DOMAIN r /\ (i + 1) - 1 = i
      BY <1>2, <1>3
    <3>2. r[i + 1] = k
      BY <1>4, <3>1
    <3> QED BY <3>1, <3>2 DEF Has
  <2>2. k = n => Has(r, k)
    BY <1>2, <1>3, <1>4 DEF Has
  <2>3. Has(r, k) => Has(s, k) \/ k = n
    <3> SUFFICES ASSUME NEW i \in 1 .. 1 + Len(s), r[i] = k PROVE Has(s, k) \/ k = n
      BY <1>3 DEF Has
    <3>1. i = 1 \/ i \in 2 .. 1 + Len(s)
      BY <1>2
    <3> QED BY <1>4, <3>1 DEF Has
  <2> QED BY <2>1, <2>2, <2>3
<1> QED BY <1>1, <1>5, <1>6 DEF r

\* The first is taken.
LEMMA Popped ==
    ASSUME NEW s \in Seq(Nodes), s # <<>>, Distinct(s)
    PROVE  /\ Tail(s) \in Seq(Nodes) /\ Distinct(Tail(s)) /\ Head(s) \in Nodes
           /\ \A k : Has(Tail(s), k) <=> Has(s, k) /\ k # Head(s)
<1> DEFINE r == Tail(s)
<1>1. /\ r \in Seq(Nodes) /\ Head(s) \in Nodes /\ Len(r) = Len(s) - 1
      /\ \A i \in 1 .. Len(r) : r[i] = s[i + 1]
  BY HeadTailProperties
<1>2. /\ Len(s) \in Nat /\ Len(s) >= 1 /\ DOMAIN s = 1 .. Len(s) /\ Head(s) = s[1]
      /\ DOMAIN r = 1 .. Len(s) - 1
  <2>1. Len(s) \in Nat /\ Len(s) >= 1
    BY EmptySeq
  <2>2. DOMAIN r = 1 .. Len(r) /\ DOMAIN s = 1 .. Len(s)
    BY <1>1, LenProperties
  <2> QED BY <1>1, <2>1, <2>2
<1> HIDE DEF r
<1>3. \A i \in 1 .. Len(s) - 1 : i + 1 \in 2 .. Len(s) /\ i + 1 \in DOMAIN s /\ r[i] = s[i + 1]
  BY <1>1, <1>2
<1>4. Distinct(r)
  <2> SUFFICES ASSUME NEW i \in 1 .. Len(s) - 1, NEW j \in 1 .. Len(s) - 1, r[i] = r[j]
               PROVE  i = j
    BY <1>2 DEF Distinct
  <2>1. i + 1 = j + 1
    BY <1>3 DEF Distinct
  <2> QED BY <1>2, <2>1
<1>5. \A k : Has(r, k) <=> Has(s, k) /\ k # Head(s)
  <2> TAKE k
  <2>1. Has(r, k) => Has(s, k) /\ k # Head(s)
    <3> SUFFICES ASSUME NEW i \in 1 .. Len(s) - 1, r[i] = k PROVE Has(s, k) /\ k # s[1]
      BY <1>2 DEF Has
    <3>1. i + 1 \in DOMAIN s /\ s[i + 1] = k /\ 1 \in DOMAIN s /\ i + 1 # 1
      BY <1>2, <1>3
    <3> QED BY <3>1 DEF Has, Distinct
  <2>2. Has(s, k) /\ k # Head(s) => Has(r, k)
    <3> SUFFICES ASSUME NEW i \in 1 .. Len(s), s[i] = k, i # 1 PROVE Has(r, k)
      BY <1>2 DEF Has
    <3>1. i - 1 \in 1 .. Len(s) - 1 /\ (i - 1) + 1 = i
      BY <1>2
    <3>2. r[i - 1] = k /\ i - 1 \in DOMAIN r
      BY <1>2, <1>3, <3>1
    <3> QED BY <3>2 DEF Has
  <2> QED BY <2>1, <2>2
<1> QED BY <1>1, <1>4, <1>5 DEF r

\* The one at place i is dropped.
LEMMA Removed ==
    ASSUME NEW s \in Seq(Nodes), NEW i \in DOMAIN s, Distinct(s)
    PROVE  /\ Without(s, i) \in Seq(Nodes) /\ Distinct(Without(s, i))
           /\ \A k : Has(Without(s, i), k) <=> Has(s, k) /\ k # s[i]
<1> DEFINE r == Without(s, i)
           a == SubSeq(s, 1, i - 1)
           b == SubSeq(s, i + 1, Len(s))
<1>0. /\ Len(s) \in Nat /\ DOMAIN s = 1 .. Len(s) /\ i \in 1 .. Len(s)
      /\ \A j \in 1 .. Len(s) : s[j] \in Nodes
  BY LenProperties, ElementOfSeq
<1>1. /\ a \in Seq(Nodes) /\ Len(a) = i - 1
      /\ \A j \in 1 .. i - 1 : a[j] = s[j]
  <2>1. 1 \in Int /\ i - 1 \in Int /\ \A j \in 1 .. i - 1 : s[j] \in Nodes
    BY <1>0
  <2>2. /\ a \in Seq(Nodes) /\ Len(a) = IF 1 <= i - 1 THEN i - 1 - 1 + 1 ELSE 0
        /\ \A j \in 1 .. i - 1 - 1 + 1 : a[j] = s[1 + j - 1]
    BY <2>1, SubSeqProperties
  <2> HIDE DEF a
  <2> QED BY <1>0, <2>2
<1>2. /\ b \in Seq(Nodes) /\ Len(b) = Len(s) - i
      /\ \A j \in 1 .. Len(s) - i : b[j] = s[i + j]
  <2>1. i + 1 \in Int /\ Len(s) \in Int /\ \A j \in i + 1 .. Len(s) : s[j] \in Nodes
    BY <1>0
  <2>2. /\ b \in Seq(Nodes) /\ Len(b) = IF i + 1 <= Len(s) THEN Len(s) - (i + 1) + 1 ELSE 0
        /\ \A j \in 1 .. Len(s) - (i + 1) + 1 : b[j] = s[(i + 1) + j - 1]
    BY <2>1, SubSeqProperties
  <2> HIDE DEF b
  <2>3. /\ Len(s) - (i + 1) + 1 = Len(s) - i
        /\ \A j \in 1 .. Len(s) - i : (i + 1) + j - 1 = i + j
    BY <1>0
  <2>4. Len(b) = Len(s) - i
    BY <1>0, <2>2
  <2> QED BY <2>2, <2>3, <2>4
<1>3. r = a \o b
  BY DEF Without
<1> HIDE DEF r, a, b
<1>4. /\ r \in Seq(Nodes) /\ Len(r) = (i - 1) + (Len(s) - i)
      /\ \A j \in 1 .. (i - 1) + (Len(s) - i) :
            r[j] = IF j <= i - 1 THEN a[j] ELSE b[j - (i - 1)]
  <2>0. /\ a \o b \in Seq(Nodes) /\ Len(a \o b) = Len(a) + Len(b)
        /\ \A j \in 1 .. Len(a) + Len(b) :
              (a \o b)[j] = IF j <= Len(a) THEN a[j] ELSE b[j - Len(a)]
    BY <1>1, <1>2, ConcatProperties, Zenon
  <2>1. /\ r \in Seq(Nodes) /\ Len(r) = Len(a) + Len(b)
        /\ \A j \in 1 .. Len(a) + Len(b) :
              r[j] = IF j <= Len(a) THEN a[j] ELSE b[j - Len(a)]
    BY <1>3, <2>0
  <2>2. Len(a) = i - 1 /\ Len(b) = Len(s) - i
    BY <1>1, <1>2
  <2> QED BY <2>1, <2>2
<1>5. DOMAIN r = 1 .. Len(s) - 1 /\ (i - 1) + (Len(s) - i) = Len(s) - 1
  <2>1. DOMAIN r = 1 .. Len(r)
    BY <1>4, LenProperties
  <2> QED BY <1>0, <1>4, <2>1
<1>6. \A j \in 1 .. Len(s) - 1 : r[j] = IF j <= i - 1 THEN s[j] ELSE s[j + 1]
  <2> TAKE j \in 1 .. Len(s) - 1
  <2>1. CASE j <= i - 1
    <3>1. j \in 1 .. i - 1 /\ j \in 1 .. (i - 1) + (Len(s) - i)
      BY <1>0, <2>1
    <3> QED BY <1>1, <1>4, <2>1, <3>1
  <2>2. CASE ~(j <= i - 1)
    <3>1. /\ j - (i - 1) \in 1 .. Len(s) - i /\ i + (j - (i - 1)) = j + 1
          /\ j \in 1 .. (i - 1) + (Len(s) - i)
      BY <1>0, <2>2
    <3> QED BY <1>2, <1>4, <2>2, <3>1
  <2> QED BY <2>1, <2>2
<1> DEFINE at == [j \in 1 .. Len(s) - 1 |-> IF j <= i - 1 THEN j ELSE j + 1]
<1>7. \A j \in 1 .. Len(s) - 1 : at[j] \in 1 .. Len(s) /\ at[j] # i /\ r[j] = s[at[j]]
  <2> TAKE j \in 1 .. Len(s) - 1
  <2>1. CASE j <= i - 1
    BY <1>0, <1>6, <2>1
  <2>2. CASE ~(j <= i - 1)
    <3>1. at[j] = j + 1 /\ j + 1 \in 1 .. Len(s) /\ j + 1 # i
      BY <1>0, <2>2
    <3> QED BY <1>6, <2>2, <3>1
  <2> QED BY <2>1, <2>2
<1>8. \A j, k \in 1 .. Len(s) - 1 : at[j] = at[k] => j = k
  BY <1>0
<1>9. \A m \in 1 .. Len(s) : m # i => \E j \in 1 .. Len(s) - 1 : at[j] = m
  <2> TAKE m \in 1 .. Len(s)
  <2>1. CASE m < i
    <3>1. m \in 1 .. Len(s) - 1 /\ at[m] = m
      BY <1>0, <2>1
    <3> QED BY <3>1
  <2>2. CASE m > i
    <3>1. m - 1 \in 1 .. Len(s) - 1 /\ at[m - 1] = m
      BY <1>0, <2>2
    <3> QED BY <3>1
  <2> QED BY <1>0, <2>1, <2>2
<1> HIDE DEF at
<1>10. Distinct(r)
  <2> SUFFICES ASSUME NEW j \in 1 .. Len(s) - 1, NEW k \in 1 .. Len(s) - 1, r[j] = r[k]
               PROVE  j = k
    BY <1>5 DEF Distinct
  <2>1. s[at[j]] = s[at[k]] /\ at[j] \in DOMAIN s /\ at[k] \in DOMAIN s
    BY <1>0, <1>7
  <2>2. at[j] = at[k]
    BY <2>1 DEF Distinct
  <2> QED BY <1>8, <2>2
<1>11. \A k : Has(r, k) <=> Has(s, k) /\ k # s[i]
  <2> TAKE k
  <2>1. ASSUME NEW j \in 1 .. Len(s) - 1, r[j] = k PROVE Has(s, k) /\ k # s[i]
    <3>1. at[j] \in DOMAIN s /\ s[at[j]] = k /\ at[j] # i
      BY <1>0, <1>7, <2>1
    <3> QED BY <3>1 DEF Has, Distinct
  <2>2. ASSUME NEW m \in 1 .. Len(s), s[m] = k, k # s[i] PROVE Has(r, k)
    <3>1. PICK j \in 1 .. Len(s) - 1 : at[j] = m
      BY <1>9, <2>2
    <3>2. r[j] = k /\ j \in DOMAIN r
      BY <1>5, <1>7, <2>2, <3>1
    <3> QED BY <3>2 DEF Has
  <2>3. Has(r, k) => \E j \in 1 .. Len(s) - 1 : r[j] = k
    BY <1>5 DEF Has
  <2>4. Has(s, k) => \E m \in 1 .. Len(s) : s[m] = k
    BY <1>0 DEF Has
  <2> QED BY <2>1, <2>2, <2>3, <2>4
<1> QED BY <1>4, <1>10, <1>11 DEF r

-----------------------------------------------------------------------------
(* Steps that create, pass on or drop a reference *)

\* How the set of the threads that will drop n changes when t takes a step.
LEMMA DroppingMoves ==
    ASSUME MemoryInv, NEW n, NEW t \in Threads,
           \A u \in Threads \ {t} : cur'[u] = cur[u] /\ pc'[u] = pc[u]
    PROVE  /\ IsFiniteSet(Dropping(n)) /\ Cardinality(Dropping(n)) \in Nat
           /\ t \in Dropping(n) <=> cur[t] = n /\ pc[t] \in DropPc
           /\ (cur'[t] = n /\ pc'[t] \in DropPc) =>
                 Cardinality(Dropping(n)') = IF t \in Dropping(n) THEN Cardinality(Dropping(n))
                                             ELSE Cardinality(Dropping(n)) + 1
           /\ ~(cur'[t] = n /\ pc'[t] \in DropPc) =>
                 Cardinality(Dropping(n)') = IF t \in Dropping(n) THEN Cardinality(Dropping(n)) - 1
                                             ELSE Cardinality(Dropping(n))
<1>1. Dropping(n) = {u \in Threads : cur[u] = n /\ pc[u] \in DropPc}
  BY DroppingIs
<1>2. Dropping(n)' = {u \in Threads : cur'[u] = n /\ pc'[u] \in DropPc}
  BY DEF Dropping, DropPc, Early, Storing
<1>3. IsFiniteSet(Dropping(n)) /\ Cardinality(Dropping(n)) \in Nat
  BY Finite
<1>4. (cur'[t] = n /\ pc'[t] \in DropPc) => Dropping(n)' = Dropping(n) \cup {t}
  BY <1>1, <1>2
<1>5. ~(cur'[t] = n /\ pc'[t] \in DropPc) => Dropping(n)' = Dropping(n) \ {t}
  BY <1>1, <1>2
<1>6. t \in Dropping(n) <=> cur[t] = n /\ pc[t] \in DropPc
  BY <1>1
<1>7. /\ Cardinality(Dropping(n) \cup {t}) = IF t \in Dropping(n) THEN Cardinality(Dropping(n))
                                              ELSE Cardinality(Dropping(n)) + 1
      /\ Cardinality(Dropping(n) \ {t}) = IF t \in Dropping(n) THEN Cardinality(Dropping(n)) - 1
                                           ELSE Cardinality(Dropping(n))
  BY <1>3, FS_AddElement, FS_RemoveElement, Zenon
<1> QED BY <1>3, <1>4, <1>5, <1>6, <1>7, Zenon

\* How the holders of a future change when d holds other futures than before.
LEMMA HoldersMove ==
    ASSUME MemoryInv, NEW d \in Clients, NEW s, held' = [held EXCEPT ![d] = s], NEW n
    PROVE  /\ d \in Holders(n) <=> Has(held[d], n)
           /\ d \in Holders(n)' <=> Has(s, n)
           /\ \A c \in Clients \ {d} : c \in Holders(n)' <=> c \in Holders(n)
           /\ Has(s, n) => Cardinality(Holders(n)') =
                             IF Has(held[d], n) THEN Cardinality(Holders(n))
                             ELSE Cardinality(Holders(n)) + 1
           /\ ~Has(s, n) => Cardinality(Holders(n)') =
                             IF Has(held[d], n) THEN Cardinality(Holders(n)) - 1
                             ELSE Cardinality(Holders(n))
<1>0. held \in [Clients -> Seq(Nodes)]
  BY DEF MemoryInv, Types, TypeOK
<1>1. held'[d] = s /\ \A c \in Clients \ {d} : held'[c] = held[c]
  BY <1>0
<1>2. Holders(n) = {c \in Clients : Has(held[c], n)}
  BY DEF Holders, Has
<1>3. Holders(n)' = {c \in Clients : Has(held'[c], n)}
  BY DEF Holders, Has
<1> HIDE DEF Has
<1>4. Has(s, n) => Holders(n)' = Holders(n) \cup {d}
  BY <1>1, <1>2, <1>3
<1>5. ~Has(s, n) => Holders(n)' = Holders(n) \ {d}
  BY <1>1, <1>2, <1>3
<1>6. d \in Holders(n) <=> Has(held[d], n)
  BY <1>2
<1>7. /\ d \in Holders(n)' <=> Has(s, n)
      /\ \A c \in Clients \ {d} : c \in Holders(n)' <=> c \in Holders(n)
  BY <1>1, <1>2, <1>3
<1>8. IsFiniteSet(Holders(n))
  BY Finite
<1> QED BY <1>4, <1>5, <1>6, <1>7, <1>8, FS_AddElement, FS_RemoveElement

\* The places of the threads, when t takes a step and no client inside a call gets
\* or gives a future.
LEMMA PlacesStay ==
    ASSUME MemoryInv, NEW t \in Threads,
           \A u \in Threads \ {t} : cur'[u] = cur[u] /\ pc'[u] = pc[u],
           cur'[t] \in Nodes \cup {NULL}, pc'[t] \notin OnFuture, pc'[t] # "batch",
           cur'[t] = NULL <=> pc'[t] = "idle", bat' = bat,
           \A c \in Clients : pc[c] # "idle" => held'[c] = held[c],
           pc'[t] = "broadcast" => finisher'[cur'[t]] # NULL,
           \A n \in Nodes : finisher[n] # NULL => finisher'[n] # NULL
    PROVE  PlaceInv'
<1>1. \A u \in Threads : cur'[u] = NULL <=> pc'[u] \in {"idle", "batch"}
  BY DEF MemoryInv, PlaceInv
<1>2. \A c \in Clients : pc'[c] = "batch" => bat'[c].i >= 1
  BY Sizes DEF MemoryInv, PlaceInv
<1>3. \A c \in Clients : pc'[c] \in OnFuture => c \in Holders(cur[c])'
  <2> SUFFICES ASSUME NEW c \in Clients, pc'[c] \in OnFuture PROVE c \in Holders(cur[c])'
    OBVIOUS
  <2>1. cur'[c] = cur[c] /\ pc'[c] = pc[c] /\ pc[c] # "idle"
    BY Sizes DEF OnFuture
  <2>2. c \in Holders(cur[c]) /\ held'[c] = held[c]
    BY <2>1 DEF MemoryInv, PlaceInv
  <2> QED BY <2>1, <2>2 DEF Holders
<1>4. \A e \in Executors : pc'[e] = "broadcast" => finisher'[cur'[e]] # NULL
  <2> SUFFICES ASSUME NEW e \in Executors, pc'[e] = "broadcast", e # t
               PROVE  finisher'[cur'[e]] # NULL
    OBVIOUS
  <2>1. e \in Threads /\ cur'[e] = cur[e] /\ pc[e] = "broadcast"
    BY Sizes
  <2>2. finisher[cur[e]] # NULL /\ cur[e] \in Nodes
    BY <2>1, Places DEF MemoryInv, PlaceInv
  <2> QED BY <2>1, <2>2
<1> QED BY <1>1, <1>2, <1>3, <1>4 DEF PlaceInv

\* The free list gives a node, or malloc does.
LEMMA Allocated ==
    ASSUME MemoryInv, NEW n \in Nodes, PoolAlloc(n)
    PROVE  /\ mem[n] # "live" /\ mem' = [mem EXCEPT ![n] = "live"]
           /\ freeList' \in Seq(Nodes) /\ ListInv'
<1>0. /\ freeList \in Seq(Nodes) /\ mem \in [Nodes -> {"unalloc", "free", "live"}]
      /\ Distinct(freeList) /\ \A k \in Nodes : Has(freeList, k) <=> mem[k] = "free"
      /\ \A k : Has(freeList, k) => k \in Nodes
  BY DEF MemoryInv, Types, TypeOK, ListInv, Distinct, Has
<1>1. mem' = [mem EXCEPT ![n] = "live"]
  BY DEF PoolAlloc
<1>2. /\ freeList' \in Seq(Nodes) /\ Distinct(freeList') /\ mem[n] # "live"
      /\ \A k : Has(freeList', k) <=> Has(freeList, k) /\ k # n
  <2>1. CASE freeList = <<>>
    <3>1. freeList' = freeList /\ mem[n] = "unalloc"
      BY <2>1 DEF PoolAlloc
    <3>2. \A k : ~Has(freeList, k)
      BY <2>1 DEF Has
    <3> QED BY <1>0, <3>1, <3>2
  <2>2. CASE freeList # <<>>
    <3>1. n = Head(freeList) /\ freeList' = Tail(freeList)
      BY <2>2 DEF PoolAlloc
    <3>2. /\ freeList' \in Seq(Nodes) /\ Distinct(freeList')
          /\ \A k : Has(freeList', k) <=> Has(freeList, k) /\ k # n
      BY <1>0, <2>2, <3>1, Popped
    <3>3. Has(freeList, n)
      <4>1. 1 \in DOMAIN freeList /\ Head(freeList) = freeList[1]
        BY <1>0, <2>2, EmptySeq
      <4> QED BY <3>1, <4>1 DEF Has
    <3> QED BY <1>0, <3>2, <3>3
  <2> QED BY <2>1, <2>2
<1>3. \A k \in Nodes : mem'[k] = "free" <=> mem[k] = "free" /\ k # n
  BY <1>0, <1>1
<1>4. {freeList'[i] : i \in DOMAIN freeList'} = {k \in Nodes : mem'[k] = "free"}
  <2>1. \A k : Has(freeList', k) <=> k \in Nodes /\ mem'[k] = "free"
    BY <1>0, <1>2, <1>3
  <2> QED BY <2>1 DEF Has
<1> QED BY <1>1, <1>2, <1>4 DEF ListInv, Distinct

\* A node goes back to the free list, or to the heap.
LEMMA Freed ==
    ASSUME MemoryInv, NEW n \in Nodes, mem[n] # "free", PoolFree(n)
    PROVE  /\ mem' \in [Nodes -> {"unalloc", "free", "live"}] /\ mem'[n] # "live"
           /\ \A k \in Nodes \ {n} : mem'[k] = mem[k]
           /\ freeList' \in Seq(Nodes) /\ ListInv'
<1>0. /\ freeList \in Seq(Nodes) /\ mem \in [Nodes -> {"unalloc", "free", "live"}]
      /\ Distinct(freeList) /\ \A k \in Nodes : Has(freeList, k) <=> mem[k] = "free"
      /\ \A k : Has(freeList, k) => k \in Nodes
  BY DEF MemoryInv, Types, TypeOK, ListInv, Distinct, Has
<1>1. CASE freeList' = <<n>> \o freeList /\ mem' = [mem EXCEPT ![n] = "free"]
  <2>1. /\ freeList' \in Seq(Nodes) /\ Distinct(freeList')
        /\ \A k : Has(freeList', k) <=> Has(freeList, k) \/ k = n
    BY <1>0, <1>1, Pushed
  <2>2. \A k \in Nodes : mem'[k] = IF k = n THEN "free" ELSE mem[k]
    BY <1>0, <1>1
  <2>3. \A k : Has(freeList', k) <=> k \in Nodes /\ mem'[k] = "free"
    BY <1>0, <2>1, <2>2
  <2>4. {freeList'[i] : i \in DOMAIN freeList'} = {k \in Nodes : mem'[k] = "free"}
    BY <2>3 DEF Has
  <2> QED BY <1>0, <1>1, <2>1, <2>2, <2>4 DEF ListInv, Distinct
<1>2. CASE freeList' = freeList /\ mem' = [mem EXCEPT ![n] = "unalloc"]
  <2>1. \A k \in Nodes : mem'[k] = IF k = n THEN "unalloc" ELSE mem[k]
    BY <1>0, <1>2
  <2>2. \A k : Has(freeList', k) <=> k \in Nodes /\ mem'[k] = "free"
    BY <1>0, <1>2, <2>1
  <2>3. {freeList'[i] : i \in DOMAIN freeList'} = {k \in Nodes : mem'[k] = "free"}
    BY <2>2 DEF Has
  <2> QED BY <1>0, <1>2, <2>1, <2>3 DEF ListInv, Distinct
<1> QED BY <1>1, <1>2 DEF PoolFree

\* A node that is not live is not referred to.
LEMMA NotLive ==
    ASSUME MemoryInv, NEW n \in Nodes, mem[n] # "live"
    PROVE  /\ fref[n] = 0 /\ n \notin queue /\ task[n].ref = 0
           /\ finisher[n] = NULL /\ Holders(n) = {} /\ Cardinality(Holders(n)) = 0 /\ Cardinality(Dropping(n)) = 0
           /\ \A t \in Threads : cur[t] # n
<1>1. n \notin queue /\ Holders(n) = {} /\ finisher[n] = NULL /\ \A t \in Threads : cur[t] # n
  BY UsedIsLive
<1>2. RefAt(n) /\ Cardinality(Holders(n)) = 0
  BY <1>1, FS_EmptySet DEF MemoryInv, RefInv
<1>3. Dropping(n) = {}
  BY <1>1 DEF Dropping
<1>4. Cardinality(Dropping(n)) = 0
  BY <1>3, FS_EmptySet
<1> QED BY <1>1, <1>2, <1>4 DEF RefAt

\* The references of the nodes that a step of t is not about.
LEMMA OthersKeepRefs ==
    ASSUME MemoryInv, NEW t \in Threads,
           \A u \in Threads \ {t} : cur'[u] = cur[u] /\ pc'[u] = pc[u],
           NEW n \in Nodes, fref'[n] = fref[n], n \in queue' <=> n \in queue,
           task'[n].ref = task[n].ref, mem'[n] = mem[n], finisher'[n] = finisher[n],
           Cardinality(Holders(n)') = Cardinality(Holders(n)),
           (cur'[t] = n /\ pc'[t] \in DropPc) <=> (cur[t] = n /\ pc[t] \in DropPc)
    PROVE  RefAt(n)'
<1>1. RefAt(n)
  BY DEF MemoryInv, RefInv
<1>2. Cardinality(Dropping(n)') = Cardinality(Dropping(n))
  BY DroppingMoves
<1> QED BY <1>1, <1>2 DEF RefAt

\* No client comes to hold a future twice.
LEMMA HeldMoves ==
    ASSUME MemoryInv, NEW d \in Clients, NEW s \in Seq(Nodes), Distinct(s),
           held' = [held EXCEPT ![d] = s]
    PROVE  HeldInv' /\ held' \in [Clients -> Seq(Nodes)]
<1>1. held \in [Clients -> Seq(Nodes)] /\ \A c \in Clients : Distinct(held[c])
  BY DEF MemoryInv, Types, TypeOK, HeldInv, Distinct
<1>2. held' \in [Clients -> Seq(Nodes)] /\ \A c \in Clients : Distinct(held'[c])
  BY <1>1
<1> QED BY <1>2 DEF HeldInv, Distinct

\* A blank task with r references.
LEMMA TaskStored ==
    ASSUME MemoryInv, NEW m \in Nodes, NEW r \in Nat,
           task' = [task EXCEPT ![m] = [Blank EXCEPT !.ref = r]]
    PROVE  /\ task' \in [Nodes -> [state : States, ref : Nat, out : {NULL, "out"}, err : {0, 1}]]
           /\ task'[m].ref = r /\ task'[m].state = "PENDING" /\ task'[m].out = NULL
           /\ task'[m].err = 0 /\ \A n \in Nodes \ {m} : task'[n] = task[n]
<1>1. /\ task \in [Nodes -> [state : States, ref : Nat, out : {NULL, "out"}, err : {0, 1}]]
  BY CallTypes
<1>2. [Blank EXCEPT !.ref = r] = [state |-> "PENDING", ref |-> r, out |-> NULL, err |-> 0]
  BY DEF Blank
<1> QED BY <1>1, <1>2 DEF States

\* task_create and future_create succeed, and the task is submitted.
LEMMA SubmitMemory ==
    ASSUME MemoryInv, NEW c \in Clients, NEW n \in Nodes, PoolAlloc(n), UNCHANGED <<pc, cur>>,
           task' = [task EXCEPT ![n] = [Blank EXCEPT !.ref = 2]],
           fref' = [fref EXCEPT ![n] = 1], pc[c] = "idle",
           held' = [held EXCEPT ![c] = Append(@, n)], queue' = queue \cup {n},
           created' \in [Clients -> Nat], UNCHANGED <<mutex, timed, bat, seen, finisher>>
    PROVE  MemoryInv'
<1>0. c \in Threads /\ held[c] \in Seq(Nodes) /\ Distinct(held[c])
  BY Sizes DEF MemoryInv, Types, TypeOK, HeldInv, Distinct
<1>1. /\ mem[n] # "live" /\ mem' = [mem EXCEPT ![n] = "live"]
      /\ freeList' \in Seq(Nodes) /\ ListInv'
  BY Allocated
<1>2. /\ fref[n] = 0 /\ n \notin queue /\ Cardinality(Holders(n)) = 0 /\ Holders(n) = {}
      /\ Cardinality(Dropping(n)) = 0 /\ finisher[n] = NULL
  BY <1>1, NotLive
<1>3. ~Has(held[c], n)
  BY <1>2 DEF Holders, Has
<1> DEFINE s == Append(held[c], n)
<1>4. /\ s \in Seq(Nodes) /\ Distinct(s) /\ held' = [held EXCEPT ![c] = s]
      /\ \A k : Has(s, k) <=> Has(held[c], k) \/ k = n
  BY <1>0, <1>3, Appended
<1> HIDE DEF s
<1>5. HeldInv' /\ held' \in [Clients -> Seq(Nodes)]
  BY <1>4, HeldMoves
<1>6. /\ task' \in [Nodes -> [state : States, ref : Nat, out : {NULL, "out"}, err : {0, 1}]]
      /\ task'[n].ref = 2 /\ \A k \in Nodes \ {n} : task'[k] = task[k]
  BY TaskStored
<1>7. RefAt(n)'
  <2>1. Cardinality(Holders(n)') = 1
    <3>1. Has(s, n)
      BY <1>4
    <3>2. Cardinality(Holders(n)') = Cardinality(Holders(n)) + 1
      BY <1>3, <1>4, <3>1, HoldersMove
    <3> QED BY <1>2, <3>2
  <2>2. Dropping(n)' = Dropping(n)
    BY DEF Dropping
  <2>3. fref'[n] = 1 /\ mem'[n] = "live" /\ n \in queue'
    BY <1>1 DEF MemoryInv, Types, TypeOK
  <2> QED BY <1>2, <1>6, <2>1, <2>2, <2>3 DEF RefAt
<1>8. ASSUME NEW k \in Nodes \ {n} PROVE RefAt(k)'
  <2>1. Cardinality(Holders(k)') = Cardinality(Holders(k))
    BY <1>4, HoldersMove
  <2>2. fref'[k] = fref[k] /\ mem'[k] = mem[k]
    BY <1>1 DEF MemoryInv, Types, TypeOK
  <2> QED BY <1>0, <1>6, <2>1, <2>2, OthersKeepRefs
<1>9. Types'
  <2>1. mem' \in [Nodes -> {"unalloc", "free", "live"}] /\ fref' \in [Nodes -> Nat]
    BY <1>1 DEF MemoryInv, Types, TypeOK
  <2>2. TypeOK'
    BY <1>1, <1>5, <1>6, <2>1 DEF MemoryInv, Types, TypeOK
  <2> QED BY <2>2 DEF MemoryInv, Types
<1>10. PlaceInv'
  <2>1. \A d \in Clients : held'[d] = held[d] \/ d = c
    BY <1>4 DEF MemoryInv, Types, TypeOK
  <2>2. cur'[c] = NULL /\ pc'[c] = "idle"
    BY <1>0 DEF MemoryInv, PlaceInv
  <2> QED BY <1>0, <2>1, <2>2, PlacesStay DEF OnFuture
<1> QED BY <1>1, <1>5, <1>7, <1>8, <1>9, <1>10 DEF MemoryInv, RefInv

\* The future cannot be made: the creator is about to drop the task.
LEMMA NoFutureMemory ==
    ASSUME MemoryInv, NEW c \in Clients, NEW n \in Nodes, PoolAlloc(n), At(c, "unref", n),
           task' = [task EXCEPT ![n] = [Blank EXCEPT !.ref = 1]],
           pc[c] = "idle", UNCHANGED refVars,
           created' \in [Clients -> Nat], UNCHANGED <<mutex, timed, bat, seen, finisher>>
    PROVE  MemoryInv'
<1>0. /\ c \in Threads /\ cur \in [Threads -> Nodes \cup {NULL}] /\ n # NULL
      /\ pc \in [Threads -> ClientPc \cup ExecutorPc] /\ c \notin Executors
  BY Sizes DEF MemoryInv, Types, TypeOK
<1>1. /\ mem[n] # "live" /\ mem' = [mem EXCEPT ![n] = "live"]
      /\ freeList' \in Seq(Nodes) /\ ListInv'
  BY Allocated
<1>2. /\ fref[n] = 0 /\ n \notin queue /\ Cardinality(Holders(n)) = 0
      /\ Cardinality(Dropping(n)) = 0 /\ cur[c] # n /\ finisher[n] = NULL
  BY <1>0, <1>1, NotLive
<1>3. /\ cur' = [cur EXCEPT ![c] = n] /\ pc' = [pc EXCEPT ![c] = "unref"]
      /\ fref' = fref /\ queue' = queue /\ held' = held
  BY DEF At, Goto, refVars
<1>4. /\ cur'[c] = n /\ pc'[c] = "unref" /\ \A u \in Threads \ {c} : cur'[u] = cur[u] /\ pc'[u] = pc[u]
      /\ cur' \in [Threads -> Nodes \cup {NULL}] /\ pc' \in [Threads -> ClientPc \cup ExecutorPc]
  BY <1>0, <1>3 DEF ClientPc
<1>5. \A k : Holders(k)' = Holders(k)
  BY <1>3 DEF Holders
<1>6. /\ task' \in [Nodes -> [state : States, ref : Nat, out : {NULL, "out"}, err : {0, 1}]]
      /\ task'[n].ref = 1 /\ \A k \in Nodes \ {n} : task'[k] = task[k]
  BY TaskStored
<1>d. "unref" \in DropPc /\ "idle" \notin DropPc /\ "unref" \notin OnFuture
  BY DEF DropPc, Early, Storing, OnFuture
<1>7. RefAt(n)'
  <2>1. Cardinality(Dropping(n)') = 1
    BY <1>0, <1>2, <1>4, <1>d, DroppingMoves
  <2>2. mem'[n] = "live"
    BY <1>1 DEF MemoryInv, Types, TypeOK
  <2> QED BY <1>2, <1>3, <1>5, <1>6, <2>1, <2>2 DEF RefAt
<1>8. ASSUME NEW k \in Nodes \ {n} PROVE RefAt(k)'
  <2>1. mem'[k] = mem[k]
    BY <1>1 DEF MemoryInv, Types, TypeOK
  <2> QED BY <1>0, <1>3, <1>4, <1>5, <1>6, <1>d, <2>1, OthersKeepRefs
<1>9. Types'
  <2>1. mem' \in [Nodes -> {"unalloc", "free", "live"}]
    BY <1>1 DEF MemoryInv, Types, TypeOK
  <2>2. TypeOK'
    BY <1>1, <1>3, <1>4, <1>6, <2>1 DEF MemoryInv, Types, TypeOK
  <2>3. (\A d \in Clients : pc'[d] \in ClientPc) /\ (\A e \in Executors : pc'[e] \in ExecutorPc)
    BY <1>0, <1>4, Sizes DEF MemoryInv, Types, ClientPc
  <2> QED BY <1>4, <2>2, <2>3 DEF MemoryInv, Types
<1>10. PlaceInv'
  BY <1>0, <1>3, <1>4, <1>d, PlacesStay
<1>11. HeldInv'
  BY <1>3 DEF MemoryInv, HeldInv
<1> QED BY <1>1, <1>7, <1>8, <1>9, <1>10, <1>11 DEF MemoryInv, RefInv

\* task_create puts the node back, or the pool is emptied: no task is concerned.
LEMMA PoolMemory ==
    ASSUME MemoryInv, UNCHANGED <<task, fref, queue, held, pc, cur, mutex, timed, bat, seen, finisher>>,
           created' \in [Clients -> Nat],
           \/ \E n \in Nodes : freeList = <<>> /\ mem[n] = "unalloc" /\ PoolFree(n)
           \/ TaskPoolCleanup
    PROVE  MemoryInv'
<1>0. mem \in [Nodes -> {"unalloc", "free", "live"}]
  BY DEF MemoryInv, Types, TypeOK
<1>1. /\ mem' \in [Nodes -> {"unalloc", "free", "live"}] /\ freeList' \in Seq(Nodes) /\ ListInv'
      /\ \A k \in Nodes : mem'[k] = "live" <=> mem[k] = "live"
  <2>1. ASSUME NEW n \in Nodes, mem[n] = "unalloc", PoolFree(n) PROVE <1>1!:
    BY <2>1, Freed
  <2>2. CASE TaskPoolCleanup
    <3>1. /\ freeList' = <<>>
          /\ mem' = [n \in Nodes |-> IF mem[n] = "free" THEN "unalloc" ELSE mem[n]]
      BY <2>2 DEF TaskPoolCleanup
    <3>2. /\ mem' \in [Nodes -> {"unalloc", "free", "live"}]
          /\ \A k \in Nodes : mem'[k] # "free" /\ (mem'[k] = "live" <=> mem[k] = "live")
      BY <1>0, <3>1
    <3>3. freeList' \in Seq(Nodes) /\ DOMAIN freeList' = {}
      BY <3>1
    <3>4. ListInv'
      BY <3>2, <3>3 DEF ListInv
    <3> QED BY <3>2, <3>3, <3>4
  <2> QED BY <2>1, <2>2
<1>2. \A n : Dropping(n)' = Dropping(n) /\ Holders(n)' = Holders(n)
  BY DEF Dropping, Holders
<1>3. RefInv'
  BY <1>1, <1>2 DEF MemoryInv, RefInv, RefAt
<1>4. TypeOK'
  BY <1>1 DEF MemoryInv, Types, TypeOK
<1>5. Types' /\ HeldInv'
  BY <1>4 DEF MemoryInv, Types, HeldInv
<1>6. PlaceInv'
  BY <1>2 DEF MemoryInv, PlaceInv
<1> QED BY <1>1, <1>3, <1>5, <1>6 DEF MemoryInv

\* future_ref: d gets the future too.
LEMMA FutureRefMemory ==
    ASSUME MemoryInv, NEW c \in Clients, NEW d \in Clients, FutureRef(c, d)
    PROVE  MemoryInv'
<1>0. /\ d \in Threads /\ pc[d] = "idle" /\ held \in [Clients -> Seq(Nodes)]
      /\ UNCHANGED <<mem, freeList, created, task, mutex, queue, pc, cur, timed, bat, seen, finisher>>
      /\ fref \in [Nodes -> Nat]
  BY Sizes DEF FutureRef, memVars, callVars, MemoryInv, Types, TypeOK
<1>1. PICK i \in DOMAIN held[c] :
         /\ \A j \in DOMAIN held[d] : held[d][j] # held[c][i]
         /\ fref' = [fref EXCEPT ![held[c][i]] = @ + 1]
         /\ held' = [held EXCEPT ![d] = Append(@, held[c][i])]
  BY DEF FutureRef
<1>2. PICK n \in Nodes : n = held[c][i] /\ c \in Holders(n)
  BY HeldIsNode
<1> DEFINE s == Append(held[d], n)
<1>3. ~Has(held[d], n)
  BY <1>1, <1>2 DEF Has
<1>4. fref' = [fref EXCEPT ![n] = @ + 1] /\ held' = [held EXCEPT ![d] = s]
  BY <1>0, <1>1, <1>2
<1>5. Distinct(held[d])
  BY DEF MemoryInv, HeldInv, Distinct
<1>6. s \in Seq(Nodes) /\ Distinct(s) /\ \A k : Has(s, k) <=> Has(held[d], k) \/ k = n
  BY <1>0, <1>2, <1>3, <1>5, Appended
<1> HIDE DEF s
<1>7. HeldInv' /\ held' \in [Clients -> Seq(Nodes)]
  BY <1>4, <1>6, HeldMoves
<1>8. fref' \in [Nodes -> Nat] /\ fref'[n] = fref[n] + 1 /\ \A k \in Nodes \ {n} : fref'[k] = fref[k]
  BY <1>0, <1>2, <1>4
<1>9. \A k : Dropping(k)' = Dropping(k)
  BY <1>0 DEF Dropping
<1>10. RefAt(n)'
  <2>1. Has(s, n)
    BY <1>6
  <2>2. Cardinality(Holders(n)') = Cardinality(Holders(n)) + 1
    BY <1>3, <1>4, <2>1, HoldersMove
  <2>3. RefAt(n) /\ Holders(n) # {}
    BY <1>2 DEF MemoryInv, RefInv
  <2>4. fref[n] > 0
    BY <2>3, Finite, NoneCounted DEF RefAt
  <2>5. fref[n] \in Nat
    BY <1>0, <1>2
  <2> QED BY <1>0, <1>8, <1>9, <2>2, <2>3, <2>4, <2>5 DEF RefAt
<1>11. ASSUME NEW k \in Nodes \ {n} PROVE RefAt(k)'
  <2>1. Cardinality(Holders(k)') = Cardinality(Holders(k))
    BY <1>4, <1>6, HoldersMove
  <2> QED BY <1>0, <1>8, <2>1, OthersKeepRefs
<1>12. Types'
  <2>1. TypeOK'
    BY <1>0, <1>7, <1>8 DEF MemoryInv, Types, TypeOK
  <2> QED BY <1>0, <2>1 DEF MemoryInv, Types
<1>13. PlaceInv'
  <2>1. \A b \in Clients : held'[b] = held[b] \/ b = d
    BY <1>0, <1>4
  <2>2. cur'[d] = NULL /\ pc'[d] = "idle"
    BY <1>0 DEF MemoryInv, PlaceInv
  <2> QED BY <1>0, <2>1, <2>2, PlacesStay DEF OnFuture
<1>14. ListInv'
  BY <1>0 DEF MemoryInv, ListInv
<1> QED BY <1>7, <1>10, <1>11, <1>12, <1>13, <1>14 DEF MemoryInv, RefInv

\* future_destroy: c gives the future up, and with the last one drops the task.
LEMMA FutureDestroyMemory ==
    ASSUME MemoryInv, NEW c \in Clients, FutureDestroy(c)
    PROVE  MemoryInv'
<1>0. /\ c \in Threads /\ c \notin Executors /\ pc[c] = "idle" /\ held \in [Clients -> Seq(Nodes)]
      /\ UNCHANGED <<mem, freeList, created, task, mutex, queue, timed, bat, seen, finisher>>
      /\ fref \in [Nodes -> Nat]
      /\ cur \in [Threads -> Nodes \cup {NULL}] /\ pc \in [Threads -> ClientPc \cup ExecutorPc]
  BY Sizes DEF FutureDestroy, memVars, callVars, MemoryInv, Types, TypeOK
<1>c. cur[c] = NULL
  BY <1>0 DEF MemoryInv, PlaceInv
<1>1. PICK i \in DOMAIN held[c] :
         /\ fref' = [fref EXCEPT ![held[c][i]] = @ - 1]
         /\ held' = [held EXCEPT ![c] = SubSeq(@, 1, i - 1) \o SubSeq(@, i + 1, Len(@))]
         /\ IF fref[held[c][i]] > 1 THEN UNCHANGED <<pc, cur>> ELSE At(c, "unref", held[c][i])
  BY DEF FutureDestroy
<1>2. PICK n \in Nodes : n = held[c][i] /\ c \in Holders(n) /\ n # NULL
  BY HeldIsNode, Sizes
<1> DEFINE s == SubSeq(held[c], 1, i - 1) \o SubSeq(held[c], i + 1, Len(held[c]))
<1>3. Has(held[c], n)
  BY <1>2 DEF Has
<1>4. fref' = [fref EXCEPT ![n] = @ - 1] /\ held' = [held EXCEPT ![c] = s]
  BY <1>0, <1>1, <1>2
<1>5. Distinct(held[c])
  BY DEF MemoryInv, HeldInv, Distinct
<1>6. s \in Seq(Nodes) /\ Distinct(s) /\ \A k : Has(s, k) <=> Has(held[c], k) /\ k # n
  <2>1. PICK q : q = held[c]
    OBVIOUS
  <2>2. Without(q, i) = s
    BY <2>1 DEF Without
  <2>3. q \in Seq(Nodes) /\ i \in DOMAIN q /\ Distinct(q)
    BY <1>0, <1>5, <2>1
  <2>4. /\ Without(q, i) \in Seq(Nodes) /\ Distinct(Without(q, i))
        /\ \A k : Has(Without(q, i), k) <=> Has(q, k) /\ k # q[i]
    BY <2>3, Removed
  <2> HIDE DEF s
  <2> QED BY <1>2, <2>1, <2>2, <2>4
<1>7. IF fref[n] > 1 THEN UNCHANGED <<pc, cur>> ELSE At(c, "unref", n)
  BY <1>1, <1>2
<1> HIDE DEF s
<1>8. HeldInv' /\ held' \in [Clients -> Seq(Nodes)]
  BY <1>4, <1>6, HeldMoves
<1>9. RefAt(n) /\ fref[n] \in Nat /\ fref[n] >= 1
  <2>1. RefAt(n) /\ Holders(n) # {} /\ fref[n] \in Nat
    BY <1>0, <1>2 DEF MemoryInv, RefInv
  <2>2. fref[n] # 0
    BY <2>1, Finite, NoneCounted DEF RefAt
  <2> QED BY <2>1, <2>2
<1>10. fref' \in [Nodes -> Nat] /\ fref'[n] = fref[n] - 1 /\ \A k \in Nodes \ {n} : fref'[k] = fref[k]
  BY <1>0, <1>2, <1>4, <1>9
<1>d. "unref" \in DropPc /\ "idle" \notin DropPc /\ "unref" \notin OnFuture /\ "idle" \notin OnFuture
      /\ "unref" \in ClientPc /\ "idle" \in ClientPc
  BY DEF DropPc, Early, Storing, OnFuture, ClientPc
<1>11. /\ \A u \in Threads \ {c} : cur'[u] = cur[u] /\ pc'[u] = pc[u]
       /\ cur' \in [Threads -> Nodes \cup {NULL}] /\ pc' \in [Threads -> ClientPc \cup ExecutorPc]
       /\ fref[n] > 1 => cur'[c] = NULL /\ pc'[c] = "idle"
       /\ ~(fref[n] > 1) => cur'[c] = n /\ pc'[c] = "unref"
  <2>1. CASE fref[n] > 1
    <3>1. pc' = pc /\ cur' = cur
      BY <1>7, <2>1
    <3> QED BY <1>0, <1>c, <2>1, <3>1
  <2>2. CASE ~(fref[n] > 1)
    <3>1. pc' = [pc EXCEPT ![c] = "unref"] /\ cur' = [cur EXCEPT ![c] = n]
      BY <1>7, <2>2 DEF At, Goto
    <3> QED BY <1>0, <1>2, <1>d, <2>2, <3>1
  <2> QED BY <2>1, <2>2
<1>12. Cardinality(Holders(n)') = Cardinality(Holders(n)) - 1
  <2>1. ~Has(s, n)
    BY <1>6
  <2> QED BY <1>3, <1>4, <2>1, HoldersMove
<1>13. RefAt(n)'
  <2>1. /\ fref[n] > 1 => Cardinality(Dropping(n)') = Cardinality(Dropping(n))
        /\ ~(fref[n] > 1) => Cardinality(Dropping(n)') = Cardinality(Dropping(n)) + 1
        /\ Cardinality(Dropping(n)) \in Nat
    <3>1. ~(cur[c] = n /\ pc[c] \in DropPc)
      BY <1>0, <1>d
    <3>2. /\ fref[n] > 1 => ~(cur'[c] = n /\ pc'[c] \in DropPc)
          /\ ~(fref[n] > 1) => (cur'[c] = n /\ pc'[c] \in DropPc)
      BY <1>d, <1>11
    <3> QED BY <1>0, <1>11, <3>1, <3>2, DroppingMoves
  <2>2. RefAt(n) /\ fref[n] \in Nat /\ fref[n] >= 1 /\ fref'[n] = fref[n] - 1
    BY <1>9, <1>10
  <2>3. /\ task'[n] = task[n] /\ queue' = queue /\ mem'[n] = mem[n]
        /\ finisher'[n] = finisher[n]
    BY <1>0
  <2>4. fref'[n] = Cardinality(Holders(n)')
    BY <1>12, <2>2 DEF RefAt
  <2>5. (IF fref[n] > 0 THEN 1 ELSE 0) + Cardinality(Dropping(n))
          = (IF fref'[n] > 0 THEN 1 ELSE 0) + Cardinality(Dropping(n)')
    BY <2>1, <2>2
  <2>6. task'[n].ref = (IF fref'[n] > 0 THEN 1 ELSE 0) + (IF n \in queue' THEN 1 ELSE 0)
                         + Cardinality(Dropping(n)') + (IF finisher'[n] = NULL THEN 0 ELSE 1)
    <3> DEFINE a == IF fref[n] > 0 THEN 1 ELSE 0
               b == IF n \in queue THEN 1 ELSE 0
               d == Cardinality(Dropping(n))
               f == IF finisher[n] = NULL THEN 0 ELSE 1
               g == IF fref'[n] > 0 THEN 1 ELSE 0
               h == Cardinality(Dropping(n)')
    <3>1. /\ a \in Nat /\ b \in Nat /\ d \in Nat /\ f \in Nat /\ g \in Nat /\ h \in Nat
          /\ a + d = g + h
      BY <2>1, <2>2, <2>5
    <3>2. /\ task'[n].ref = a + b + d + f
          /\ b = (IF n \in queue' THEN 1 ELSE 0) /\ f = (IF finisher'[n] = NULL THEN 0 ELSE 1)
      BY <2>2, <2>3 DEF RefAt
    <3> HIDE DEF a, b, d, f
    <3>3. a + b + d + f = g + b + h + f
      <4> HIDE DEF g, h
      <4> QED BY <3>1
    <3> QED BY <3>2, <3>3
  <2> QED BY <2>2, <2>3, <2>4, <2>6 DEF RefAt
<1>14. ASSUME NEW k \in Nodes \ {n} PROVE RefAt(k)'
  <2>1. Cardinality(Holders(k)') = Cardinality(Holders(k))
    BY <1>4, <1>6, HoldersMove
  <2>2. ~(cur'[c] = k /\ pc'[c] \in DropPc)
    BY <1>d, <1>11
  <2> QED BY <1>0, <1>d, <1>10, <1>11, <2>1, <2>2, OthersKeepRefs
<1>15. Types'
  <2>1. TypeOK'
    BY <1>0, <1>8, <1>10, <1>11 DEF MemoryInv, Types, TypeOK
  <2>2. (\A d \in Clients : pc'[d] \in ClientPc) /\ (\A e \in Executors : pc'[e] \in ExecutorPc)
    BY <1>0, <1>d, <1>11, Sizes DEF MemoryInv, Types
  <2> QED BY <1>0, <1>11, <2>1, <2>2 DEF MemoryInv, Types
<1>16. PlaceInv'
  <2>1. \A b \in Clients : held'[b] = held[b] \/ b = c
    BY <1>0, <1>4
  <2>2. /\ cur'[c] \in Nodes \cup {NULL} /\ pc'[c] \notin OnFuture /\ pc'[c] # "batch"
        /\ cur'[c] = NULL <=> pc'[c] = "idle"
    BY <1>2, <1>d, <1>11
  <2> QED BY <1>0, <1>11, <2>1, <2>2, PlacesStay
<1>17. ListInv'
  BY <1>0 DEF MemoryInv, ListInv
<1> QED BY <1>8, <1>13, <1>14, <1>15, <1>16, <1>17 DEF MemoryInv, RefInv

\* task_destroy: a reference less, and with the last one the node is free.
LEMMA TaskUnrefMemory ==
    ASSUME MemoryInv, NEW t \in Threads, TaskUnref(t)
    PROVE  MemoryInv'
<1>p. pc[t] = "unref"
  BY DEF TaskUnref
<1>1. PICK n \in Nodes : cur[t] = n /\ n # NULL
  BY <1>p, Places, Sizes DEF MemoryInv
<1>0. /\ pc[t] = "unref" /\ held' = held /\ fref' = fref /\ queue' = queue
      /\ UNCHANGED <<created, mutex, timed, bat, seen, finisher>>
      /\ cur \in [Threads -> Nodes \cup {NULL}] /\ pc \in [Threads -> ClientPc \cup ExecutorPc]
      /\ cur' = [cur EXCEPT ![t] = NULL] /\ pc' = [pc EXCEPT ![t] = "idle"]
      /\ IF task[n].ref > 1
         THEN /\ task' = [task EXCEPT ![n].ref = @ - 1]
              /\ UNCHANGED <<mem, freeList>>
         ELSE task' = [task EXCEPT ![n] = Blank] /\ PoolFree(n)
  BY <1>1, Sizes DEF TaskUnref, Idle, At, Goto, refVars, callVars, MemoryInv, Types, TypeOK
<1>2. /\ RefAt(n) /\ task[n].ref \in Nat /\ fref[n] \in Nat
      /\ task \in [Nodes -> [state : States, ref : Nat, out : {NULL, "out"}, err : {0, 1}]]
      /\ mem \in [Nodes -> {"unalloc", "free", "live"}]
  BY <1>1 DEF MemoryInv, RefInv, Types, TypeOK
<1>3. /\ \A u \in Threads \ {t} : cur'[u] = cur[u] /\ pc'[u] = pc[u]
      /\ cur' \in [Threads -> Nodes \cup {NULL}] /\ pc' \in [Threads -> ClientPc \cup ExecutorPc]
      /\ cur'[t] = NULL /\ pc'[t] = "idle"
  BY <1>0 DEF ClientPc
<1>d. "unref" \in DropPc /\ "idle" \notin DropPc /\ "idle" \notin OnFuture
      /\ "idle" \in ClientPc /\ "idle" \in ExecutorPc
  BY DEF DropPc, Early, Storing, OnFuture, ClientPc, ExecutorPc
<1>4. /\ Cardinality(Dropping(n)) \in Nat /\ t \in Dropping(n)
      /\ Cardinality(Dropping(n)') = Cardinality(Dropping(n)) - 1
      /\ Cardinality(Dropping(n)) >= 1
  <2>1. /\ Cardinality(Dropping(n)) \in Nat /\ t \in Dropping(n) /\ IsFiniteSet(Dropping(n))
        /\ Cardinality(Dropping(n)') = Cardinality(Dropping(n)) - 1
    BY <1>0, <1>1, <1>d, <1>3, DroppingMoves
  <2>2. Cardinality(Dropping(n)) # 0
    BY <2>1, NoneCounted
  <2> QED BY <2>1, <2>2
<1>5. \A k : Holders(k)' = Holders(k)
  BY <1>0 DEF Holders
<1>6. task[n].ref >= 1
  BY <1>2, <1>4 DEF RefAt
<1>7. /\ task' \in [Nodes -> [state : States, ref : Nat, out : {NULL, "out"}, err : {0, 1}]]
      /\ task'[n].ref = task[n].ref - 1 /\ \A k \in Nodes \ {n} : task'[k] = task[k]
  <2>1. CASE task[n].ref > 1
    BY <1>0, <1>1, <1>2, <2>1
  <2>2. CASE ~(task[n].ref > 1)
    <3>1. task' = [task EXCEPT ![n] = [Blank EXCEPT !.ref = 0]]
      BY <1>0, <2>2 DEF Blank
    <3>2. /\ task' \in [Nodes -> [state : States, ref : Nat, out : {NULL, "out"}, err : {0, 1}]]
          /\ task'[n].ref = 0 /\ \A k \in Nodes \ {n} : task'[k] = task[k]
      BY <1>1, <3>1, TaskStored
    <3>3. task[n].ref - 1 = 0
      BY <1>2, <1>6, <2>2
    <3> QED BY <3>2, <3>3
  <2> QED BY <2>1, <2>2
<1>8. /\ mem' \in [Nodes -> {"unalloc", "free", "live"}] /\ freeList' \in Seq(Nodes) /\ ListInv'
      /\ \A k \in Nodes \ {n} : mem'[k] = mem[k]
      /\ mem'[n] = "live" <=> task[n].ref > 1
  <2>1. mem[n] = "live"
    BY <1>2, <1>6 DEF RefAt
  <2>2. CASE task[n].ref > 1
    BY <1>0, <1>2, <2>1, <2>2 DEF MemoryInv, ListInv, Types, TypeOK
  <2>3. CASE ~(task[n].ref > 1)
    <3>1. PoolFree(n)
      BY <1>0, <2>3
    <3> QED BY <1>1, <2>1, <2>3, <3>1, Freed
  <2> QED BY <2>2, <2>3
<1>9. RefAt(n)'
  BY <1>0, <1>2, <1>4, <1>5, <1>6, <1>7, <1>8 DEF RefAt
<1>10. ASSUME NEW k \in Nodes \ {n} PROVE RefAt(k)'
  <2>1. k # NULL /\ ~(cur'[t] = k) /\ ~(cur[t] = k)
    BY <1>3, <1>1, Sizes
  <2> QED BY <1>0, <1>3, <1>5, <1>7, <1>8, <2>1, OthersKeepRefs
<1>11. Types'
  <2>1. TypeOK'
    BY <1>0, <1>3, <1>7, <1>8 DEF MemoryInv, Types, TypeOK
  <2>2. (\A d \in Clients : pc'[d] \in ClientPc) /\ (\A e \in Executors : pc'[e] \in ExecutorPc)
    BY <1>0, <1>d, <1>3, Sizes DEF MemoryInv, Types
  <2> QED BY <1>0, <1>3, <2>1, <2>2 DEF MemoryInv, Types
<1>12. PlaceInv'
  BY <1>0, <1>d, <1>3, PlacesStay
<1>13. HeldInv'
  BY <1>0 DEF MemoryInv, HeldInv
<1> QED BY <1>8, <1>9, <1>10, <1>11, <1>12, <1>13 DEF MemoryInv, RefInv

\* An executor, or queue_destroy, takes a task and with it the queue's reference.
LEMMA TakeMemory ==
    ASSUME MemoryInv, NEW e \in Executors, Take(e) \/ QueueDestroy(e)
    PROVE  MemoryInv'
<1>0. /\ e \in Threads /\ e \notin Clients /\ pc[e] = "idle"
      /\ UNCHANGED <<mem, freeList, created, task, mutex, fref, held, timed, bat, seen, finisher>>
      /\ cur \in [Threads -> Nodes \cup {NULL}] /\ pc \in [Threads -> ClientPc \cup ExecutorPc]
      /\ queue \subseteq Nodes
  BY Sizes DEF Take, QueueDestroy, memVars, callVars, MemoryInv, Types, TypeOK
<1>1. PICK n \in queue, l \in {"run", "assignfail", "unref"} :
         queue' = queue \ {n} /\ At(e, l, n)
  BY DEF Take, QueueDestroy
<1>2. n \in Nodes /\ n # NULL
  BY <1>0, Sizes
<1>d. l \in DropPc /\ "idle" \notin DropPc /\ l \notin OnFuture /\ l \in ExecutorPc /\ l # "idle" /\ l # "batch"
      /\ l # "broadcast"
  BY DEF DropPc, Early, Storing, OnFuture, ExecutorPc
<1>3. /\ \A u \in Threads \ {e} : cur'[u] = cur[u] /\ pc'[u] = pc[u]
      /\ cur' \in [Threads -> Nodes \cup {NULL}] /\ pc' \in [Threads -> ClientPc \cup ExecutorPc]
      /\ cur'[e] = n /\ pc'[e] = l
  BY <1>0, <1>1, <1>2, <1>d DEF At, Goto
<1>4. \A k : Holders(k)' = Holders(k)
  BY <1>0 DEF Holders
<1>5. RefAt(n)'
  <2>1. /\ Cardinality(Dropping(n)') = Cardinality(Dropping(n)) + 1
        /\ Cardinality(Dropping(n)) \in Nat
    BY <1>0, <1>d, <1>3, DroppingMoves
  <2>2. RefAt(n) /\ n \in queue /\ n \notin queue' /\ fref[n] \in Nat
    BY <1>1, <1>2 DEF MemoryInv, RefInv, Types, TypeOK
  <2> QED BY <1>0, <1>4, <2>1, <2>2 DEF RefAt
<1>6. ASSUME NEW k \in Nodes \ {n} PROVE RefAt(k)'
  <2>1. ~(cur'[e] = k) /\ (k \in queue' <=> k \in queue)
    BY <1>1, <1>3
  <2> QED BY <1>0, <1>d, <1>3, <1>4, <2>1, OthersKeepRefs
<1>7. Types'
  <2>1. TypeOK'
    BY <1>0, <1>1, <1>3 DEF MemoryInv, Types, TypeOK
  <2>2. (\A d \in Clients : pc'[d] \in ClientPc) /\ (\A f \in Executors : pc'[f] \in ExecutorPc)
    BY <1>0, <1>d, <1>3, Sizes DEF MemoryInv, Types
  <2> QED BY <1>0, <1>3, <2>1, <2>2 DEF MemoryInv, Types
<1>8. PlaceInv'
  BY <1>0, <1>2, <1>d, <1>3, PlacesStay
<1>9. HeldInv' /\ ListInv'
  BY <1>0 DEF MemoryInv, HeldInv, ListInv
<1> QED BY <1>5, <1>6, <1>7, <1>8, <1>9 DEF MemoryInv, RefInv

\* The final store: the executor drops nothing, and its reference stays with the task.
LEMMA StoreFinalMemory ==
    ASSUME Inv, NEW e \in Executors, StoreFinal(e)
    PROVE  MemoryInv'
<1>0. /\ MemoryInv /\ e \in Threads /\ e \notin Clients /\ pc[e] \in Storing
      /\ UNCHANGED <<mem, freeList, created, mutex, fref, queue, held, timed, bat, seen>>
      /\ cur \in [Threads -> Nodes \cup {NULL}] /\ pc \in [Threads -> ClientPc \cup ExecutorPc]
      /\ finisher \in [Nodes -> {"worker", "loop", NULL}]
      /\ NULL \notin {"worker", "loop"}
  BY Sizes DEF Inv, StoreFinal, memVars, refVars, callVars, MemoryInv, Types, TypeOK, Storing
<1>1. PICK n \in Nodes : n = cur[e] /\ n # NULL
  BY <1>0, Places, Sizes DEF MemoryInv, Storing
<1>2. finisher[n] = NULL
  BY <1>0, <1>1 DEF Inv, FinisherInv, Unfinished
<1>d. /\ {"idle", "broadcast"} \cap (DropPc \cup OnFuture \cup {"batch"}) = {}
      /\ Storing \subseteq DropPc /\ {"idle", "broadcast"} \subseteq ExecutorPc
  BY DEF DropPc, Early, Storing, OnFuture, ExecutorPc
<1>3. PICK l \in {"idle", "broadcast"}, w \in {"worker", "loop"},
           s \in {"COMPLETED", "FAILED"} :
         /\ pc' = [pc EXCEPT ![e] = l] /\ finisher' = [finisher EXCEPT ![n] = w]
         /\ task' = [task EXCEPT ![n].state = s]
         /\ cur' = [cur EXCEPT ![e] = IF l = "idle" THEN NULL ELSE n]
  <2>1. /\ \E w \in {"worker", "loop"} : finisher' = [finisher EXCEPT ![n] = w]
        /\ \E s \in {"COMPLETED", "FAILED"} : task' = [task EXCEPT ![n].state = s]
    BY <1>1 DEF StoreFinal
  <2>2. \E l \in {"idle", "broadcast"} :
           /\ pc' = [pc EXCEPT ![e] = l]
           /\ cur' = [cur EXCEPT ![e] = IF l = "idle" THEN NULL ELSE n]
    <3>1. CASE pc[e] = "loopfail"
      <4>1. pc' = [pc EXCEPT ![e] = "broadcast"] /\ cur' = cur
        BY <3>1 DEF StoreFinal, Goto
      <4>2. cur' = [cur EXCEPT ![e] = n]
        BY <1>0, <1>1, <4>1
      <4> QED BY <4>1, <4>2
    <3>2. CASE pc[e] # "loopfail"
      BY <3>2 DEF StoreFinal, Idle, At, Goto
    <3> QED BY <3>1, <3>2
  <2> QED BY <2>1, <2>2
<1>4. /\ \A u \in Threads \ {e} : cur'[u] = cur[u] /\ pc'[u] = pc[u]
      /\ cur' \in [Threads -> Nodes \cup {NULL}] /\ pc' \in [Threads -> ClientPc \cup ExecutorPc]
      /\ pc'[e] = l /\ cur'[e] = IF l = "idle" THEN NULL ELSE n
      /\ finisher' \in [Nodes -> {"worker", "loop", NULL}] /\ finisher'[n] # NULL
      /\ \A k \in Nodes \ {n} : finisher'[k] = finisher[k]
  BY <1>0, <1>1, <1>3, <1>d
<1>5. /\ task' \in [Nodes -> [state : States, ref : Nat, out : {NULL, "out"}, err : {0, 1}]]
      /\ \A k \in Nodes : task'[k].ref = task[k].ref
  BY <1>0, <1>3, StateStored DEF States
<1>6. \A k : Holders(k)' = Holders(k)
  BY <1>0 DEF Holders
<1>7. RefAt(n)'
  <2>1. /\ Cardinality(Dropping(n)') = Cardinality(Dropping(n)) - 1
        /\ Cardinality(Dropping(n)) \in Nat
    <3>1. e \in Dropping(n)
      BY <1>0, <1>1, <1>d, DroppingIs
    <3>2. ~(cur'[e] = n /\ pc'[e] \in DropPc)
      BY <1>4, <1>d
    <3> QED BY <1>0, <1>4, <3>1, <3>2, DroppingMoves
  <2>2. RefAt(n) /\ fref[n] \in Nat /\ task[n].ref \in Nat
    BY <1>0 DEF MemoryInv, RefInv, Types, TypeOK
  <2>3. /\ task'[n].ref = task[n].ref /\ fref'[n] = fref[n] /\ queue' = queue
        /\ mem'[n] = mem[n] /\ Holders(n)' = Holders(n)
    BY <1>0, <1>5, <1>6
  <2> QED BY <1>2, <1>4, <2>1, <2>2, <2>3 DEF RefAt
<1>8. ASSUME NEW k \in Nodes \ {n} PROVE RefAt(k)'
  <2>1. k # NULL /\ ~(cur'[e] = k) /\ ~(cur[e] = k)
    BY <1>1, <1>4, Sizes
  <2> QED BY <1>0, <1>4, <1>5, <1>6, <2>1, OthersKeepRefs
<1>9. Types'
  <2>1. TypeOK'
    BY <1>0, <1>4, <1>5 DEF MemoryInv, Types, TypeOK
  <2>2. (\A d \in Clients : pc'[d] \in ClientPc) /\ (\A f \in Executors : pc'[f] \in ExecutorPc)
    BY <1>0, <1>4, <1>d, Sizes DEF MemoryInv, Types
  <2> QED BY <1>0, <1>4, <2>1, <2>2 DEF MemoryInv, Types
<1>10. PlaceInv'
  <2>1. /\ cur'[e] \in Nodes \cup {NULL} /\ pc'[e] \notin OnFuture /\ pc'[e] # "batch"
        /\ cur'[e] = NULL <=> pc'[e] = "idle"
        /\ pc'[e] = "broadcast" => finisher'[cur'[e]] # NULL
    BY <1>1, <1>4, <1>d
  <2>2. \A k \in Nodes : finisher[k] # NULL => finisher'[k] # NULL
    BY <1>4
  <2> QED BY <1>0, <1>4, <2>1, <2>2, PlacesStay
<1>11. HeldInv' /\ ListInv'
  BY <1>0 DEF MemoryInv, HeldInv, ListInv
<1> QED BY <1>7, <1>8, <1>9, <1>10, <1>11 DEF MemoryInv, RefInv

\* task_create, whatever of it fails.
LEMMA CreateMemory ==
    ASSUME MemoryInv, NEW c \in Clients, TaskCreate(c)
    PROVE  MemoryInv'
<1>1. /\ pc[c] = "idle" /\ UNCHANGED <<mutex, timed, bat, seen, finisher>>
      /\ created' = [created EXCEPT ![c] = @ + 1]
  BY DEF TaskCreate, callVars
<1>2. created' \in [Clients -> Nat]
  BY <1>1 DEF MemoryInv, Types, TypeOK
<1>3. PICK n \in Nodes :
        \/ /\ PoolAlloc(n) /\ UNCHANGED <<pc, cur>>
           /\ task' = [task EXCEPT ![n] = [Blank EXCEPT !.ref = 2]]
           /\ fref' = [fref EXCEPT ![n] = 1]
           /\ held' = [held EXCEPT ![c] = Append(@, n)]
           /\ queue' = queue \cup {n}
        \/ /\ PoolAlloc(n) /\ At(c, "unref", n)
           /\ task' = [task EXCEPT ![n] = [Blank EXCEPT !.ref = 1]]
           /\ UNCHANGED refVars
        \/ /\ freeList = <<>> /\ mem[n] = "unalloc" /\ PoolFree(n)
           /\ UNCHANGED <<task, refVars, pc, cur>>
  BY DEF TaskCreate
<1>4. CASE /\ PoolAlloc(n) /\ UNCHANGED <<pc, cur>>
           /\ task' = [task EXCEPT ![n] = [Blank EXCEPT !.ref = 2]]
           /\ fref' = [fref EXCEPT ![n] = 1]
           /\ held' = [held EXCEPT ![c] = Append(@, n)]
           /\ queue' = queue \cup {n}
  BY <1>1, <1>2, <1>4, SubmitMemory
<1>5. CASE /\ PoolAlloc(n) /\ At(c, "unref", n)
           /\ task' = [task EXCEPT ![n] = [Blank EXCEPT !.ref = 1]]
           /\ UNCHANGED refVars
  BY <1>1, <1>2, <1>5, NoFutureMemory
<1>6. CASE /\ freeList = <<>> /\ mem[n] = "unalloc" /\ PoolFree(n)
           /\ UNCHANGED <<task, refVars, pc, cur>>
  <2>1. UNCHANGED <<task, fref, queue, held, pc, cur, mutex, timed, bat, seen, finisher>>
    BY <1>1, <1>6 DEF refVars
  <2> QED BY <1>2, <1>6, <2>1, PoolMemory
<1> QED BY <1>3, <1>4, <1>5, <1>6

\* task_pool_cleanup.
LEMMA CleanupMemory == ASSUME MemoryInv, TaskPoolCleanup PROVE MemoryInv'
<1>1. /\ UNCHANGED <<task, fref, queue, held, pc, cur, mutex, timed, bat, seen, finisher>>
      /\ created' \in [Clients -> Nat]
  BY DEF TaskPoolCleanup, refVars, callVars, MemoryInv, Types, TypeOK
<1> QED BY <1>1, PoolMemory

\* Every step keeps the references right.
LEMMA NextMemory == ASSUME Inv, Next PROVE MemoryInv'
<1>0. MemoryInv
  BY DEF Inv
<1>1. ASSUME NEW c \in Clients, Begin(c) \/ Continue(c) \/ SpuriousWake(c) PROVE MemoryInv'
  BY <1>0, <1>1, CreateMemory, FutureDestroyMemory, CancelLoadMemory, CancelStoreMemory, WaitMemory,
     BatchMemory, GetMemory, FutureRefMemory DEF Begin, Continue
<1>2. ASSUME NEW e \in Executors, Execute(e) PROVE MemoryInv'
  BY <1>0, <1>2, TakeMemory, ExecuteMemory, LoopBroadcastMemory, StoreFinalMemory DEF Execute
<1> QED BY <1>0, <1>1, <1>2, TaskUnrefMemory, CleanupMemory DEF Next

-----------------------------------------------------------------------------
(* Results and sleepers *)

Rest == OneFinisher /\ FinisherInv /\ ResultInv /\ GetInv /\ OnlyWorkerCompletionIsSilent

\* Steps that finish nothing.  The nodes of B are blank after the step, and nobody
\* works on them; a client that goes to get a result saw the task finished, one that
\* goes to sleep saw it unfinished.
LEMMA QuietRest ==
    ASSUME Inv, NEW B \in SUBSET Nodes, MemoryInv',
           \A n \in Nodes \ B :
              /\ task'[n].state = task[n].state /\ task'[n].out = task[n].out
              /\ task'[n].err = task[n].err /\ finisher'[n] = finisher[n]
              /\ n \in queue' => n \in queue,
           \A n \in B :
              /\ task'[n].state = "PENDING" /\ task'[n].out = NULL /\ task'[n].err = 0
              /\ finisher'[n] = NULL
              /\ \A t \in Threads : cur'[t] = n => t \in Clients /\ pc'[t] = "unref",
           \A e \in Executors : \/ cur'[e] = cur[e] /\ pc'[e] = pc[e]
                                \/ cur'[e] = NULL /\ pc'[e] = "idle" /\ pc[e] = "unref",
           \A c \in Clients : pc'[c] = "get" =>
              \/ pc[c] = "get" /\ cur'[c] = cur[c] /\ seen'[c] = seen[c]
              \/ seen'[c] = task[cur'[c]].state,
           \A c \in Clients : pc'[c] = "asleep" =>
              \/ pc[c] = "asleep" /\ cur'[c] = cur[c]
              \/ ~Completed(cur'[c])
    PROVE  Rest'
<1>0. /\ Clients \subseteq Threads /\ Executors \subseteq Threads /\ Clients \cap Executors = {}
      /\ NULL \notin Nodes
  BY Sizes
<1>1. /\ \A t \in Threads : cur'[t] \in Nodes <=> pc'[t] \notin {"idle", "batch"}
      /\ \A t \in Threads : cur'[t] \in Nodes \cup {NULL}
      /\ queue' \subseteq Nodes
      /\ \A e \in Executors : pc'[e] \in ExecutorPc
  BY Sizes DEF MemoryInv, PlaceInv, Types, TypeOK
<1>2. /\ \A t \in Threads : cur[t] \in Nodes \cup {NULL}
      /\ \A t \in Threads : cur[t] \in Nodes <=> pc[t] \notin {"idle", "batch"}
      /\ queue \subseteq Nodes
  BY Sizes DEF Inv, MemoryInv, PlaceInv, Types, TypeOK
<1>3. \A n \in Nodes \ B : Unfinished(n)' => Unfinished(n)
  BY <1>0 DEF Unfinished, Early, Storing
<1>4. OneFinisher' /\ FinisherInv'
  <2>1. OneFinisher'
    BY <1>0, <1>1, <1>2 DEF Inv, OneFinisher
  <2>2. FinisherInv'
    BY <1>3 DEF Inv, FinisherInv
  <2> QED BY <2>1, <2>2
<1>5. \A e \in Executors : cur'[e] # NULL => /\ cur'[e] = cur[e] /\ pc'[e] = pc[e]
                                            /\ cur'[e] \in Nodes \ B
  BY <1>0, <1>1
<1>6. \A e \in Executors : pc'[e] \in Early \cup Storing => /\ cur'[e] = cur[e] /\ pc'[e] = pc[e]
                                                            /\ cur'[e] \in Nodes \ B
  BY <1>0, <1>1, <1>5 DEF Early, Storing
<1>7. ResultInv'
  <2>1. \A n \in Nodes : Matches(n, task[n].state)'
    BY DEF Inv, ResultInv, Matches
  <2>2. \A n \in Nodes : Unfinished(n)' => task'[n].state \notin {"COMPLETED", "FAILED"}
    BY <1>3 DEF Inv, ResultInv
  <2>3. \A n \in queue' : task'[n].out = NULL /\ task'[n].err = 0
    BY <1>1 DEF Inv, ResultInv
  <2>4. \A e \in Executors : pc'[e] \in Early => task'[cur'[e]].out = NULL /\ task'[cur'[e]].err = 0
    BY <1>6 DEF Inv, ResultInv
  <2>5. \A e \in Executors : /\ pc'[e] = "complete" => Matches(cur[e], "COMPLETED")'
                             /\ pc'[e] \in {"fail", "loopfail"} => Matches(cur[e], "FAILED")'
    BY <1>6 DEF Inv, ResultInv, Matches, Storing
  <2> QED BY <2>1, <2>2, <2>3, <2>4, <2>5 DEF ResultInv
<1>8. GetInv'
  <2> SUFFICES ASSUME NEW c \in Clients, pc'[c] = "get"
               PROVE  /\ Matches(cur[c], seen[c])'
                      /\ seen'[c] \in {"COMPLETED", "FAILED"} => ~Unfinished(cur[c])'
    BY DEF GetInv
  <2>1. PICK n \in Nodes \ B : n = cur'[c]
    BY <1>0, <1>1
  <2>2. Matches(n, seen'[c]) /\ (seen'[c] \in {"COMPLETED", "FAILED"} => ~Unfinished(n))
    BY <1>0, <1>2, <2>1 DEF Inv, GetInv, ResultInv
  <2>3. Matches(cur[c], seen[c])'
    BY <2>1, <2>2 DEF Matches
  <2>4. seen'[c] \in {"COMPLETED", "FAILED"} => ~Unfinished(n)'
    BY <1>3, <2>2
  <2> QED BY <2>1, <2>3, <2>4 DEF Unfinished
<1>9. OnlyWorkerCompletionIsSilent'
  <2> SUFFICES ASSUME NEW c \in Clients, pc'[c] = "asleep",
                      task'[cur'[c]].state \in {"COMPLETED", "FAILED", "CANCELLED"}
               PROVE  \/ finisher'[cur'[c]] = "worker"
                      \/ \E e \in Executors : pc'[e] = "broadcast" /\ cur'[e] = cur'[c]
    BY DEF OnlyWorkerCompletionIsSilent, Completed
  <2>1. cur'[c] \in Nodes \ B
    BY <1>0, <1>1
  <2>2. task[cur'[c]].state \in {"COMPLETED", "FAILED", "CANCELLED"}
    BY <2>1
  <2>3. pc[c] = "asleep" /\ cur'[c] = cur[c]
    BY <2>2 DEF Completed
  <2>4. finisher[cur[c]] = "worker" \/ \E e \in Executors : pc[e] = "broadcast" /\ cur[e] = cur[c]
    BY <2>2, <2>3 DEF Inv, OnlyWorkerCompletionIsSilent, Completed
  <2> QED BY <2>1, <2>3, <2>4
<1> QED BY <1>4, <1>7, <1>8, <1>9 DEF Rest

\* The calls that change no task.
LEMMA CallRest ==
    ASSUME Inv, MemoryInv', NEW c \in Clients,
           \/ CancelLoad(c) \/ FutureWait(c) \/ TaskWait(c) \/ WaitTimeout(c) \/ SpuriousWake(c)
           \/ BatchWait(c) \/ BatchNext(c) \/ GetResult(c) \/ CopyResult(c) \/ FutureDestroy(c)
           \/ \E d \in Clients : FutureRef(c, d)
    PROVE  Rest'
<1>0. c \in Threads /\ c \notin Executors /\ Clients \subseteq Threads /\ Executors \subseteq Threads
  BY Sizes
<1>1. cur \in [Threads -> Nodes \cup {NULL}] /\ pc \in [Threads -> ClientPc \cup ExecutorPc]
      /\ seen \in [Clients -> States \cup {NULL}]
  BY CallTypes DEF Inv
<1>2. UNCHANGED <<task, queue, finisher>>
  BY DEF CancelLoad, FutureWait, TaskWait, WaitTimeout, SpuriousWake, BatchWait, BatchNext, GetResult, CopyResult,
         FutureDestroy, FutureRef, refVars
<1>3. \/ cur' = cur /\ pc' = pc
      \/ \E l \in {"idle", "unref", "cancel", "wait", "batch", "asleep", "get"} : \E m :
           pc' = [pc EXCEPT ![c] = l] /\ (cur' = cur \/ cur' = [cur EXCEPT ![c] = m])
  BY DEF CancelLoad, FutureWait, TaskWait, WaitTimeout, SpuriousWake, BatchWait, BatchNext, GetResult, CopyResult,
         FutureDestroy, FutureRef, WaitReturns, Idle, At, Goto
<1>4. \A t \in Threads \ {c} : cur'[t] = cur[t] /\ pc'[t] = pc[t]
  BY <1>1, <1>3
<1>5. pc'[c] = "get" => seen'[c] = task[cur'[c]].state
  <2>1. CASE GetResult(c)
    <3>1. PICK i \in DOMAIN held[c] : /\ cur' = [cur EXCEPT ![c] = held[c][i]]
                                      /\ seen' = [seen EXCEPT ![c] = task[held[c][i]].state]
      BY <2>1 DEF GetResult, At
    <3> QED BY <1>0, <1>1, <3>1
  <2>2. CASE ~GetResult(c)
    <3>1. \/ cur' = cur /\ pc' = pc /\ pc[c] = "idle"
          \/ \E l \in {"idle", "unref", "cancel", "wait", "batch", "asleep"} : pc' = [pc EXCEPT ![c] = l]
      BY <2>2 DEF CancelLoad, FutureWait, TaskWait, WaitTimeout, SpuriousWake, BatchWait, BatchNext, CopyResult,
                  FutureDestroy, FutureRef, WaitReturns, Idle, At, Goto
    <3> QED BY <1>0, <1>1, <3>1
  <2> QED BY <2>1, <2>2
<1>6. pc'[c] = "asleep" => ~Completed(cur'[c])
  <2>1. CASE TaskWait(c) /\ ~Completed(cur[c])
    <3>1. cur' = cur
      BY <2>1 DEF TaskWait
    <3> QED BY <2>1, <3>1
  <2>2. CASE ~(TaskWait(c) /\ ~Completed(cur[c]))
    <3>1. \/ cur' = cur /\ pc' = pc /\ pc[c] = "idle"
          \/ \E l \in {"idle", "unref", "cancel", "wait", "batch", "get"} : pc' = [pc EXCEPT ![c] = l]
      BY <2>2 DEF CancelLoad, FutureWait, TaskWait, WaitTimeout, SpuriousWake, BatchWait, BatchNext, CopyResult,
                  GetResult, FutureDestroy, FutureRef, WaitReturns, Idle, At, Goto
    <3> QED BY <1>0, <1>1, <3>1
  <2> QED BY <2>1, <2>2
<1>7. \A d \in Clients \ {c} : seen'[d] = seen[d]
  BY <1>1 DEF CancelLoad, FutureWait, TaskWait, WaitTimeout, SpuriousWake, BatchWait, BatchNext, GetResult, CopyResult,
         FutureDestroy, FutureRef, callVars
<1>8. \A d \in Clients : pc'[d] = "get" => \/ pc[d] = "get" /\ cur'[d] = cur[d] /\ seen'[d] = seen[d]
                                           \/ seen'[d] = task[cur'[d]].state
  BY <1>0, <1>4, <1>5, <1>7
<1>9. \A d \in Clients : pc'[d] = "asleep" => \/ pc[d] = "asleep" /\ cur'[d] = cur[d]
                                              \/ ~Completed(cur'[d])
  BY <1>0, <1>4, <1>6
<1>10. \A e \in Executors : cur'[e] = cur[e] /\ pc'[e] = pc[e]
  BY <1>0, <1>4
<1>11. PICK B \in SUBSET Nodes : B = {}
  OBVIOUS
<1>12. \A n \in Nodes \ B : /\ task'[n].state = task[n].state /\ task'[n].out = task[n].out
                            /\ task'[n].err = task[n].err /\ finisher'[n] = finisher[n]
                            /\ n \in queue' => n \in queue
  BY <1>2
<1>13. \A n \in B :
         /\ task'[n].state = "PENDING" /\ task'[n].out = NULL /\ task'[n].err = 0
         /\ finisher'[n] = NULL
         /\ \A t \in Threads : cur'[t] = n => t \in Clients /\ pc'[t] = "unref"
  BY <1>11
<1> QED BY <1>8, <1>9, <1>10, <1>12, <1>13, QuietRest

\* A step that leaves every task alone, or makes the task of n blank when nobody
\* else works on it; t may drop its task or get n to drop.
LEMMA BlankRest ==
    ASSUME Inv, MemoryInv', NEW t \in Threads, NEW B \in SUBSET Nodes,
           \A n \in Nodes \ B :
              /\ task'[n].state = task[n].state /\ task'[n].out = task[n].out
              /\ task'[n].err = task[n].err /\ finisher'[n] = finisher[n]
              /\ n \in queue' => n \in queue,
           \A n \in B :
              /\ task'[n].state = "PENDING" /\ task'[n].out = NULL /\ task'[n].err = 0
              /\ finisher'[n] = NULL
              /\ \A u \in Threads : cur'[u] = n => u \in Clients /\ pc'[u] = "unref",
           \A u \in Threads \ {t} : cur'[u] = cur[u] /\ pc'[u] = pc[u], seen' = seen,
           \/ cur'[t] = cur[t] /\ pc'[t] = pc[t]
           \/ cur'[t] = NULL /\ pc'[t] = "idle" /\ pc[t] = "unref"
           \/ t \in Clients /\ pc'[t] = "unref"
    PROVE  Rest'
<1>0. Clients \subseteq Threads /\ Executors \subseteq Threads /\ Clients \cap Executors = {}
  BY Sizes
<1>1. \A e \in Executors : \/ cur'[e] = cur[e] /\ pc'[e] = pc[e]
                           \/ cur'[e] = NULL /\ pc'[e] = "idle" /\ pc[e] = "unref"
  BY <1>0
<1>2. \A c \in Clients : pc'[c] \in {"get", "asleep"} => pc[c] = pc'[c] /\ cur'[c] = cur[c]
  BY <1>0
<1> QED BY <1>1, <1>2, QuietRest

\* task_create.
LEMMA CreateRest == ASSUME Inv, MemoryInv', NEW c \in Clients, TaskCreate(c) PROVE Rest'
<1>0. /\ c \in Threads /\ Executors \subseteq Threads /\ MemoryInv
      /\ cur \in [Threads -> Nodes \cup {NULL}] /\ pc \in [Threads -> ClientPc \cup ExecutorPc]
      /\ pc[c] = "idle" /\ UNCHANGED <<seen, finisher>>
  BY Sizes, CallTypes DEF Inv, TaskCreate, callVars
<1>1. CASE UNCHANGED <<task, queue, pc, cur>>
  <2>1. PICK B \in SUBSET Nodes : B = {}
    OBVIOUS
  <2> QED BY <1>0, <1>1, <2>1, BlankRest
<1>2. ASSUME NEW n \in Nodes, NEW r \in Nat, PoolAlloc(n),
             task' = [task EXCEPT ![n] = [Blank EXCEPT !.ref = r]],
             \/ UNCHANGED <<pc, cur>> /\ queue' = queue \cup {n}
             \/ At(c, "unref", n) /\ queue' = queue
      PROVE  Rest'
  <2>1. finisher[n] = NULL /\ \A t \in Threads : cur[t] # n
    BY <1>0, <1>2, Allocated, NotLive
  <2>2. /\ task'[n].state = "PENDING" /\ task'[n].out = NULL /\ task'[n].err = 0
        /\ \A k \in Nodes \ {n} : task'[k] = task[k]
    BY <1>0, <1>2, TaskStored
  <2>3. /\ \A u \in Threads \ {c} : cur'[u] = cur[u] /\ pc'[u] = pc[u]
        /\ \/ cur'[c] = cur[c] /\ pc'[c] = pc[c]
           \/ cur'[c] = n /\ pc'[c] = "unref"
    BY <1>0, <1>2 DEF At, Goto
  <2>4. \A u \in Threads : cur'[u] = n => u \in Clients /\ pc'[u] = "unref"
    BY <2>1, <2>3
  <2>5. \A k \in Nodes \ {n} : k \in queue' => k \in queue
    BY <1>2
  <2>6. PICK B \in SUBSET Nodes : B = {n}
    OBVIOUS
  <2> QED BY <1>0, <2>1, <2>2, <2>3, <2>4, <2>5, <2>6, BlankRest
<1>3. \E n \in Nodes :
        \/ UNCHANGED <<task, queue, pc, cur>>
        \/ /\ PoolAlloc(n) /\ task' = [task EXCEPT ![n] = [Blank EXCEPT !.ref = 2]]
           /\ UNCHANGED <<pc, cur>> /\ queue' = queue \cup {n}
        \/ /\ PoolAlloc(n) /\ task' = [task EXCEPT ![n] = [Blank EXCEPT !.ref = 1]]
           /\ At(c, "unref", n) /\ queue' = queue
  BY DEF TaskCreate, refVars
<1> QED BY <1>1, <1>2, <1>3

\* task_destroy, and the end of the free list.
LEMMA UnrefRest == ASSUME Inv, MemoryInv', NEW t \in Threads, TaskUnref(t) PROVE Rest'
<1>0. /\ MemoryInv /\ pc[t] = "unref" /\ UNCHANGED <<seen, queue, fref, held, finisher>>
      /\ cur \in [Threads -> Nodes \cup {NULL}] /\ pc \in [Threads -> ClientPc \cup ExecutorPc]
      /\ cur' = [cur EXCEPT ![t] = NULL] /\ pc' = [pc EXCEPT ![t] = "idle"]
  BY CallTypes DEF Inv, TaskUnref, Idle, At, Goto, callVars, refVars
<1>1. PICK n \in Nodes : n = cur[t]
  BY <1>0, Places DEF MemoryInv
<1>2. /\ \A u \in Threads \ {t} : cur'[u] = cur[u] /\ pc'[u] = pc[u]
      /\ cur'[t] = NULL /\ pc'[t] = "idle"
  BY <1>0
<1>3. CASE task' = [task EXCEPT ![n].ref = @ - 1]
  <2>1. PICK B \in SUBSET Nodes : B = {}
    OBVIOUS
  <2>2. \A k \in Nodes : task'[k].state = task[k].state /\ task'[k].out = task[k].out
                         /\ task'[k].err = task[k].err
    BY <1>0, <1>3, CallTypes
  <2> QED BY <1>0, <1>2, <1>3, <2>1, <2>2, BlankRest
<1>4. CASE ~(task[n].ref > 1) /\ task' = [task EXCEPT ![n] = Blank]
  <2>1. Dropping(n) = {t} /\ Holders(n) = {} /\ finisher[n] = NULL
    <3>1. /\ RefAt(n) /\ IsFiniteSet(Dropping(n)) /\ IsFiniteSet(Holders(n)) /\ fref[n] \in Nat
          /\ task[n].ref \in Nat /\ t \in Dropping(n)
      BY <1>0, <1>1, Finite, DroppingIs DEF MemoryInv, RefInv, Types, TypeOK, DropPc
    <3>2. /\ Cardinality(Dropping(n)) \in Nat /\ Cardinality(Dropping(n)) # 0
          /\ Cardinality(Dropping(n)) = 1 => Dropping(n) = {t}
          /\ Cardinality(Holders(n)) = 0 <=> Holders(n) = {}
      BY <3>1, NoneCounted
    <3>3. task[n].ref <= 1
      BY <1>4, <3>1
    <3>4. Cardinality(Dropping(n)) = 1 /\ fref[n] = 0 /\ finisher[n] = NULL
      BY <3>1, <3>2, <3>3 DEF RefAt
    <3> QED BY <3>1, <3>2, <3>4 DEF RefAt
  <2>2. \A u \in Threads : cur'[u] # n
    <3>1. \A u \in Threads : cur[u] = n => u = t
      <4> SUFFICES ASSUME NEW u \in Threads, cur[u] = n PROVE u = t
        OBVIOUS
      <4>1. pc[u] \notin {"idle", "batch"}
        BY <1>0, Places DEF MemoryInv
      <4>2. CASE u \in Clients
        BY <1>0, <2>1, <4>1, <4>2, DroppingIs, Places
           DEF MemoryInv, PlaceInv, OnFuture, ClientPc, DropPc
      <4>3. CASE u \in Executors
        BY <1>0, <2>1, <4>1, <4>3, DroppingIs, Places
           DEF MemoryInv, PlaceInv, DropPc, ExecutorPc
      <4> QED BY <4>2, <4>3, Sizes
    <3> QED BY <1>2, <3>1, Sizes
  <2>3. /\ task'[n].state = "PENDING" /\ task'[n].out = NULL /\ task'[n].err = 0
        /\ \A k \in Nodes \ {n} : task'[k] = task[k]
    BY <1>0, <1>4, CallTypes DEF Blank
  <2>4. PICK B \in SUBSET Nodes : B = {n}
    OBVIOUS
  <2> QED BY <1>0, <1>2, <2>1, <2>2, <2>3, <2>4, BlankRest
<1> QED BY <1>1, <1>3, <1>4 DEF TaskUnref

LEMMA CleanupRest == ASSUME Inv, MemoryInv', TaskPoolCleanup PROVE Rest'
<1>1. UNCHANGED <<task, queue, pc, cur, seen, finisher>>
  BY DEF TaskPoolCleanup, refVars, callVars
<1>2. PICK B \in SUBSET Nodes : B = {}
  OBVIOUS
<1>3. \A c \in Clients : pc'[c] \in {"get", "asleep"} => pc[c] = pc'[c] /\ cur'[c] = cur[c]
  BY <1>1
<1> QED BY <1>1, <1>2, <1>3, QuietRest

\* task_cancel stores CANCELLED and wakes everybody who sleeps on the task.
LEMMA CancelStoreRest == ASSUME Inv, MemoryInv', NEW c \in Clients, CancelStore(c) PROVE Rest'
<1>0. /\ MemoryInv /\ c \in Threads /\ c \notin Executors /\ pc[c] = "cancel"
      /\ Clients \subseteq Threads /\ Executors \subseteq Threads
  BY Sizes DEF Inv, CancelStore
<1>1. PICK n \in Nodes : n = cur[c]
  BY <1>0, Places DEF MemoryInv
<1>2. /\ task' = [task EXCEPT ![n].state = "CANCELLED"] /\ "CANCELLED" \in States
      /\ pc' = [u \in Threads |-> IF u = c THEN "idle"
                                  ELSE IF pc[u] = "asleep" /\ cur[u] = n THEN "wait" ELSE pc[u]]
      /\ cur' = [cur EXCEPT ![c] = NULL] /\ UNCHANGED <<queue, finisher, seen>>
  BY <1>1 DEF CancelStore, Broadcast, refVars, callVars, States
<1>3. /\ task'[n].state = "CANCELLED" /\ \A k \in Nodes \ {n} : task'[k] = task[k]
      /\ \A k \in Nodes : task'[k].out = task[k].out /\ task'[k].err = task[k].err
  BY <1>0, <1>2, StateStored
<1>4. \A e \in Executors : cur'[e] = cur[e] /\ pc'[e] = pc[e]
  BY <1>0, <1>2, CallTypes, Places DEF MemoryInv, ExecutorPc, Early, Storing
<1>5. \A d \in Clients : pc'[d] \in {"get", "asleep"} => pc[d] = pc'[d] /\ cur'[d] = cur[d]
  BY <1>0, <1>2, CallTypes
<1>6. \A d \in Clients : pc'[d] = "asleep" => cur[d] # n
  BY <1>0, <1>2
<1>7. \A k : Unfinished(k)' <=> Unfinished(k)
  BY <1>2, <1>4 DEF Unfinished
<1>8. OneFinisher' /\ FinisherInv'
  BY <1>2, <1>4, <1>7 DEF Inv, OneFinisher, FinisherInv
<1>9. /\ \A e \in Executors : pc[e] \in Early \cup Storing => cur[e] \in Nodes
      /\ \A d \in Clients : pc[d] \in {"get", "asleep"} => cur[d] \in Nodes
      /\ queue \subseteq Nodes
  BY <1>0, Places DEF MemoryInv, Types, TypeOK, Early, Storing
<1>10. ResultInv'
  <2>1. \A k \in Nodes : Matches(k, task[k].state)'
    BY <1>3 DEF Inv, ResultInv, Matches
  <2>2. \A k \in Nodes : Unfinished(k)' => task'[k].state \notin {"COMPLETED", "FAILED"}
    BY <1>3, <1>7 DEF Inv, ResultInv
  <2>3. /\ \A k \in queue' : task'[k].out = NULL /\ task'[k].err = 0
        /\ \A e \in Executors : pc'[e] \in Early => task'[cur'[e]].out = NULL /\ task'[cur'[e]].err = 0
    BY <1>2, <1>3, <1>4, <1>9 DEF Inv, ResultInv
  <2>4. \A e \in Executors : /\ pc'[e] = "complete" => Matches(cur[e], "COMPLETED")'
                             /\ pc'[e] \in {"fail", "loopfail"} => Matches(cur[e], "FAILED")'
    BY <1>3, <1>4, <1>9 DEF Inv, ResultInv, Matches, Storing
  <2> QED BY <2>1, <2>2, <2>3, <2>4 DEF ResultInv
<1>11. GetInv'
  <2> SUFFICES ASSUME NEW d \in Clients, pc'[d] = "get"
               PROVE  /\ Matches(cur[d], seen[d])'
                      /\ seen'[d] \in {"COMPLETED", "FAILED"} => ~Unfinished(cur[d])'
    BY DEF GetInv
  <2>1. pc[d] = "get" /\ cur'[d] = cur[d] /\ seen'[d] = seen[d] /\ cur[d] \in Nodes
    BY <1>2, <1>5, <1>9
  <2>2. Matches(cur[d], seen[d]) /\ (seen[d] \in {"COMPLETED", "FAILED"} => ~Unfinished(cur[d]))
    BY <2>1 DEF Inv, GetInv
  <2> QED BY <1>2, <1>3, <1>4, <2>1, <2>2 DEF Matches, Unfinished
<1>12. OnlyWorkerCompletionIsSilent'
  <2> SUFFICES ASSUME NEW d \in Clients, pc'[d] = "asleep",
                      task'[cur'[d]].state \in {"COMPLETED", "FAILED", "CANCELLED"}
               PROVE  \/ finisher'[cur'[d]] = "worker"
                      \/ \E e \in Executors : pc'[e] = "broadcast" /\ cur'[e] = cur'[d]
    BY DEF OnlyWorkerCompletionIsSilent, Completed
  <2>1. pc[d] = "asleep" /\ cur'[d] = cur[d] /\ cur[d] \in Nodes \ {n}
    BY <1>5, <1>6, <1>9
  <2>2. task[cur[d]].state \in {"COMPLETED", "FAILED", "CANCELLED"}
    BY <1>3, <2>1
  <2>3. finisher[cur[d]] = "worker" \/ \E e \in Executors : pc[e] = "broadcast" /\ cur[e] = cur[d]
    BY <2>1, <2>2 DEF Inv, OnlyWorkerCompletionIsSilent, Completed
  <2> QED BY <1>2, <1>4, <2>1, <2>3
<1> QED BY <1>8, <1>10, <1>11, <1>12 DEF Rest

\* What the steps of an executor rest on: its task is its own until it is finished.
LEMMA Mine ==
    ASSUME Inv, NEW e \in Executors, pc[e] \in DropPc
    PROVE  /\ cur[e] \in Nodes /\ e \in Threads /\ cur[e] \notin queue
           /\ \A f \in Executors : cur[f] = cur[e] => f = e
           /\ pc[e] \in Early \cup Storing =>
                 /\ Unfinished(cur[e])
                 /\ \A c \in Clients : pc[c] = "get" /\ cur[c] = cur[e] =>
                       seen[c] \notin {"COMPLETED", "FAILED"}
           /\ \A f \in Executors : pc[f] \in DropPc => cur[f] \in Nodes
           /\ \A c \in Clients : pc[c] \in {"get", "asleep"} => cur[c] \in Nodes
           /\ queue \subseteq Nodes
<1>1. /\ cur[e] \in Nodes /\ e \in Threads /\ cur[e] # NULL /\ queue \subseteq Nodes
      /\ \A f \in Executors : pc[f] \in DropPc => cur[f] \in Nodes
      /\ \A c \in Clients : pc[c] \in {"get", "asleep"} => cur[c] \in Nodes
  BY Places, Sizes DEF Inv, MemoryInv, DropPc, Early, Storing, Types, TypeOK
<1>2. cur[e] \notin queue /\ \A f \in Executors : cur[f] = cur[e] => f = e
  BY <1>1 DEF Inv, OneFinisher
<1>3. pc[e] \in Early \cup Storing => Unfinished(cur[e])
  BY DEF Unfinished
<1>4. ASSUME Unfinished(cur[e]), NEW c \in Clients, pc[c] = "get", cur[c] = cur[e]
      PROVE  seen[c] \notin {"COMPLETED", "FAILED"}
  BY <1>4 DEF Inv, GetInv
<1> QED BY <1>1, <1>2, <1>3, <1>4

\* The event loop's broadcast.
LEMMA LoopBroadcastRest ==
    ASSUME Inv, MemoryInv', NEW e \in Executors, LoopBroadcast(e) PROVE Rest'
<1>0. /\ MemoryInv /\ pc[e] = "broadcast" /\ e \in Threads /\ NULL \notin Nodes
      /\ Clients \subseteq Threads /\ Executors \subseteq Threads /\ Clients \cap Executors = {}
  BY Sizes DEF Inv, LoopBroadcast
<1>1. /\ pc' = [u \in Threads |-> IF u = e THEN "idle"
                                  ELSE IF pc[u] = "asleep" /\ cur[u] = cur[e] THEN "wait" ELSE pc[u]]
      /\ cur' = [cur EXCEPT ![e] = NULL] /\ UNCHANGED <<task, queue, finisher, seen>>
  BY DEF LoopBroadcast, Broadcast, refVars, callVars
<1>2. \A f \in Executors \ {e} : pc'[f] = pc[f] /\ cur'[f] = cur[f]
  BY <1>0, <1>1, CallTypes, Places DEF MemoryInv, ExecutorPc, Early, Storing
<1>3. /\ pc'[e] = "idle" /\ cur'[e] = NULL
      /\ "idle" \notin Early \cup Storing /\ "broadcast" \notin Early \cup Storing
  BY <1>0, <1>1, CallTypes DEF Early, Storing
<1>4. \A c \in Clients : pc'[c] \in {"get", "asleep"} => pc[c] = pc'[c] /\ cur'[c] = cur[c]
  BY <1>0, <1>1, CallTypes
<1>5. \A c \in Clients : pc'[c] = "asleep" => cur[c] # cur[e]
  BY <1>0, <1>1
<1>6. \A k : Unfinished(k)' <=> Unfinished(k)
  BY <1>0, <1>1, <1>2, <1>3 DEF Unfinished
<1>7. OneFinisher' /\ FinisherInv'
  <2>1. OneFinisher'
    BY <1>1, <1>2, <1>3 DEF Inv, OneFinisher
  <2>2. FinisherInv'
    BY <1>1, <1>6 DEF Inv, FinisherInv
  <2> QED BY <2>1, <2>2
<1>8. ResultInv'
  <2>1. \A f \in Executors : pc'[f] \in Early \cup Storing => pc[f] = pc'[f] /\ cur'[f] = cur[f]
    BY <1>2, <1>3
  <2> QED BY <1>1, <1>6, <2>1 DEF Inv, ResultInv, Matches, Storing
<1>9. GetInv'
  <2> SUFFICES ASSUME NEW d \in Clients, pc'[d] = "get"
               PROVE  /\ Matches(cur[d], seen[d])'
                      /\ seen'[d] \in {"COMPLETED", "FAILED"} => ~Unfinished(cur[d])'
    BY DEF GetInv
  <2>1. PICK k : k = cur[d]
    OBVIOUS
  <2>2. Matches(k, seen[d]) /\ (seen[d] \in {"COMPLETED", "FAILED"} => ~Unfinished(k))
    BY <1>4, <2>1 DEF Inv, GetInv
  <2>3. ~Unfinished(k) => ~Unfinished(k)'
    BY <1>6
  <2>4. cur'[d] = k
    BY <1>4, <2>1
  <2>5. ~Unfinished(k)' => ~Unfinished(cur[d])'
    BY <2>4 DEF Unfinished
  <2> QED BY <1>1, <2>2, <2>3, <2>4, <2>5 DEF Matches
<1>10. OnlyWorkerCompletionIsSilent'
  <2> SUFFICES ASSUME NEW d \in Clients, pc'[d] = "asleep",
                      task'[cur'[d]].state \in {"COMPLETED", "FAILED", "CANCELLED"}
               PROVE  \/ finisher'[cur'[d]] = "worker"
                      \/ \E f \in Executors : pc'[f] = "broadcast" /\ cur'[f] = cur'[d]
    BY DEF OnlyWorkerCompletionIsSilent, Completed
  <2>1. pc[d] = "asleep" /\ cur'[d] = cur[d] /\ cur[d] # cur[e]
    BY <1>4, <1>5
  <2>2. finisher[cur[d]] = "worker" \/ \E f \in Executors : pc[f] = "broadcast" /\ cur[f] = cur[d]
    BY <1>1, <2>1 DEF Inv, OnlyWorkerCompletionIsSilent, Completed
  <2> QED BY <1>1, <1>2, <2>1, <2>2
<1> QED BY <1>7, <1>8, <1>9, <1>10 DEF Rest

\* An executor, or queue_destroy, takes a submitted task.
LEMMA TakeRest ==
    ASSUME Inv, MemoryInv', NEW e \in Executors, Take(e) \/ QueueDestroy(e) PROVE Rest'
<1>0. /\ MemoryInv /\ pc[e] = "idle" /\ e \in Threads /\ queue \subseteq Nodes
      /\ Clients \subseteq Threads /\ Executors \subseteq Threads /\ Clients \cap Executors = {}
      /\ NULL \notin Nodes /\ UNCHANGED <<task, finisher, seen>>
      /\ cur \in [Threads -> Nodes \cup {NULL}] /\ pc \in [Threads -> ClientPc \cup ExecutorPc]
  BY Sizes DEF Inv, Take, QueueDestroy, callVars, MemoryInv, Types, TypeOK
<1>1. PICK n \in queue, l \in {"run", "assignfail", "unref"} :
         queue' = queue \ {n} /\ At(e, l, n)
  BY DEF Take, QueueDestroy
<1>2. /\ cur'[e] = n /\ pc'[e] = l /\ l \notin Storing /\ l # "broadcast"
      /\ \A t \in Threads \ {e} : cur'[t] = cur[t] /\ pc'[t] = pc[t]
  BY <1>0, <1>1 DEF At, Goto, Early, Storing
<1>3. \A f \in Executors : cur[f] # n
  BY <1>0, <1>1 DEF Inv, OneFinisher
<1>4. \A f \in Executors \ {e} : cur'[f] = cur[f] /\ pc'[f] = pc[f]
  BY <1>0, <1>2
<1>5. \A c \in Clients : cur'[c] = cur[c] /\ pc'[c] = pc[c]
  BY <1>0, <1>2
<1>6. \A k : Unfinished(k)' => Unfinished(k)
  <2>1. \A f \in Executors \ {e} : (cur'[f] = cur[f] /\ pc'[f] = pc[f])
    BY <1>4
  <2>2. pc[e] \notin Early \cup Storing
    BY <1>0 DEF Early, Storing
  <2> QED BY <1>0, <1>1, <1>2, <2>1, <2>2 DEF Unfinished
<1>7. OneFinisher' /\ FinisherInv'
  <2>1. OneFinisher'
    BY <1>1, <1>2, <1>3, <1>4 DEF Inv, OneFinisher
  <2>2. FinisherInv'
    BY <1>0, <1>6 DEF Inv, FinisherInv
  <2> QED BY <2>1, <2>2
<1>8. ResultInv'
  <2>1. (\A k \in Nodes : Matches(k, task[k].state)')
        /\ (\A k \in Nodes : Unfinished(k)' => task'[k].state \notin {"COMPLETED", "FAILED"})
    BY <1>0, <1>6 DEF Inv, ResultInv, Matches
  <2>2. /\ \A k \in queue' : task'[k].out = NULL /\ task'[k].err = 0
        /\ \A f \in Executors : pc'[f] \in Early => task'[cur'[f]].out = NULL /\ task'[cur'[f]].err = 0
    BY <1>0, <1>1, <1>2, <1>4 DEF Inv, ResultInv
  <2>3. \A f \in Executors : /\ pc'[f] = "complete" => Matches(cur[f], "COMPLETED")'
                             /\ pc'[f] \in {"fail", "loopfail"} => Matches(cur[f], "FAILED")'
    BY <1>0, <1>2, <1>4 DEF Inv, ResultInv, Matches, Storing
  <2> QED BY <2>1, <2>2, <2>3 DEF ResultInv
<1>9. GetInv'
  <2> SUFFICES ASSUME NEW d \in Clients, pc'[d] = "get"
               PROVE  /\ Matches(cur[d], seen[d])'
                      /\ seen'[d] \in {"COMPLETED", "FAILED"} => ~Unfinished(cur[d])'
    BY DEF GetInv
  <2>1. PICK k : k = cur[d]
    OBVIOUS
  <2>2. Matches(k, seen[d]) /\ (seen[d] \in {"COMPLETED", "FAILED"} => ~Unfinished(k))
    BY <1>5, <2>1 DEF Inv, GetInv
  <2>3. ~Unfinished(k) => ~Unfinished(k)'
    BY <1>6
  <2>4. cur'[d] = k
    BY <1>5, <2>1
  <2>5. ~Unfinished(k)' => ~Unfinished(cur[d])'
    BY <2>4 DEF Unfinished
  <2> QED BY <1>0, <2>2, <2>3, <2>4, <2>5 DEF Matches
<1>10. OnlyWorkerCompletionIsSilent'
  BY <1>0, <1>2, <1>4, <1>5 DEF Inv, OnlyWorkerCompletionIsSilent, Completed
<1> QED BY <1>7, <1>8, <1>9, <1>10 DEF Rest

\* A step of an executor on its task n that leaves everything else alone keeps the rest
\* when it does for n.
LEMMA WorkRest ==
    ASSUME Inv, NEW e \in Executors, NEW n \in Nodes, n = cur[e], pc[e] \in Early \cup Storing,
           NEW l \in Early \cup Storing \cup {"idle", "broadcast"},
           pc' = [pc EXCEPT ![e] = l], UNCHANGED <<queue, seen>>,
           cur' = [cur EXCEPT ![e] = IF l = "idle" THEN NULL ELSE n],
           \A k \in Nodes \ {n} : task'[k] = task[k] /\ finisher'[k] = finisher[k],
           Matches(n, task[n].state)',
           l \in Early \cup Storing => /\ task'[n].state \notin {"COMPLETED", "FAILED"}
                                       /\ finisher'[n] = finisher[n],
           l \in Early => task'[n].out = NULL /\ task'[n].err = 0,
           l = "complete" => Matches(n, "COMPLETED")',
           l \in {"fail", "loopfail"} => Matches(n, "FAILED")',
           task'[n].state \in {"COMPLETED", "FAILED", "CANCELLED"} =>
              \/ finisher'[n] = "worker" \/ l = "broadcast"
              \/ task'[n].state = task[n].state /\ finisher'[n] = finisher[n]
    PROVE  Rest'
<1>0. /\ MemoryInv /\ e \in Threads /\ pc[e] \in DropPc /\ pc[e] # "broadcast"
      /\ Clients \subseteq Threads /\ Executors \subseteq Threads /\ Clients \cap Executors = {}
      /\ pc \in [Threads -> ClientPc \cup ExecutorPc] /\ cur \in [Threads -> Nodes \cup {NULL}]
      /\ "idle" \notin Early \cup Storing /\ NULL \notin Nodes
  BY Sizes DEF Inv, MemoryInv, Types, TypeOK, DropPc, Early, Storing
<1>1. /\ n \notin queue /\ \A f \in Executors : cur[f] = n => f = e
      /\ Unfinished(n)
      /\ \A c \in Clients : pc[c] = "get" /\ cur[c] = n => seen[c] \notin {"COMPLETED", "FAILED"}
      /\ \A f \in Executors : pc[f] \in DropPc => cur[f] \in Nodes
      /\ \A c \in Clients : pc[c] \in {"get", "asleep"} => cur[c] \in Nodes
      /\ queue \subseteq Nodes
  BY <1>0, Mine
<1>2. /\ pc'[e] = l /\ (l # "idle" => cur'[e] = n) /\ (l = "idle" => cur'[e] = NULL)
      /\ \A f \in Executors \ {e} : pc'[f] = pc[f] /\ cur'[f] = cur[f]
      /\ \A c \in Clients : pc'[c] = pc[c] /\ cur'[c] = cur[c]
  BY <1>0
<1>3. \A k : Unfinished(k)' => Unfinished(k)
  BY <1>0, <1>1, <1>2 DEF Unfinished
<1>4. Unfinished(n)' => l \in Early \cup Storing
  BY <1>0, <1>1, <1>2 DEF Unfinished
<1>5. OneFinisher' /\ FinisherInv'
  <2>1. OneFinisher'
    BY <1>1, <1>2 DEF Inv, OneFinisher
  <2>2. FinisherInv'
    <3>1. ASSUME NEW k \in Nodes, Unfinished(k)' PROVE finisher'[k] = NULL
      <4>1. Unfinished(k) /\ finisher[k] = NULL
        BY <1>3, <3>1 DEF Inv, FinisherInv
      <4>2. k = n => finisher'[n] = finisher[n]
        BY <1>4, <3>1
      <4> QED BY <4>1, <4>2
    <3> QED BY <3>1 DEF FinisherInv
  <2> QED BY <2>1, <2>2
<1>6. \A f \in Executors \ {e} : pc[f] \in DropPc => cur[f] \in Nodes \ {n}
  BY <1>1
<1>7. ResultInv'
  <2>1. \A k \in Nodes : Matches(k, task[k].state)'
    <3>1. ASSUME NEW k \in Nodes \ {n} PROVE Matches(k, task[k].state)'
      BY DEF Inv, ResultInv, Matches
    <3> QED BY <3>1
  <2>2. \A k \in Nodes : Unfinished(k)' => task'[k].state \notin {"COMPLETED", "FAILED"}
    <3>1. ASSUME NEW k \in Nodes \ {n}, Unfinished(k)' PROVE task'[k].state \notin {"COMPLETED", "FAILED"}
      BY <1>3, <3>1 DEF Inv, ResultInv
    <3> QED BY <1>4, <3>1
  <2>3. \A k \in queue' : task'[k].out = NULL /\ task'[k].err = 0
    BY <1>1 DEF Inv, ResultInv
  <2>4. \A f \in Executors : pc'[f] \in Early => task'[cur'[f]].out = NULL /\ task'[cur'[f]].err = 0
    <3>1. ASSUME NEW f \in Executors \ {e}, pc'[f] \in Early
          PROVE  task'[cur'[f]].out = NULL /\ task'[cur'[f]].err = 0
      <4>1. pc[f] \in Early /\ cur[f] \in Nodes \ {n}
        BY <1>2, <1>6, <3>1 DEF DropPc
      <4> QED BY <4>1 DEF Inv, ResultInv
    <3> QED BY <1>0, <1>2, <3>1
  <2>5. \A f \in Executors : /\ pc'[f] = "complete" => Matches(cur[f], "COMPLETED")'
                             /\ pc'[f] \in {"fail", "loopfail"} => Matches(cur[f], "FAILED")'
    <3>1. ASSUME NEW f \in Executors \ {e}, pc'[f] \in Storing
          PROVE  /\ pc'[f] = "complete" => Matches(cur[f], "COMPLETED")'
                 /\ pc'[f] \in {"fail", "loopfail"} => Matches(cur[f], "FAILED")'
      <4>1. pc[f] = pc'[f] /\ cur[f] \in Nodes \ {n}
        BY <1>2, <1>6, <3>1 DEF DropPc
      <4> QED BY <4>1 DEF Inv, ResultInv, Matches
    <3>2. /\ pc'[e] = "complete" => Matches(cur[e], "COMPLETED")'
          /\ pc'[e] \in {"fail", "loopfail"} => Matches(cur[e], "FAILED")'
      BY <1>2 DEF Matches
    <3> QED BY <3>1, <3>2 DEF Storing
  <2> QED BY <2>1, <2>2, <2>3, <2>4, <2>5 DEF ResultInv
<1>8. GetInv'
  <2> SUFFICES ASSUME NEW d \in Clients, pc'[d] = "get"
               PROVE  /\ Matches(cur[d], seen[d])'
                      /\ seen'[d] \in {"COMPLETED", "FAILED"} => ~Unfinished(cur[d])'
    BY DEF GetInv
  <2>1. PICK k \in Nodes : k = cur[d]
    BY <1>1, <1>2
  <2>2. Matches(k, seen[d]) /\ (seen[d] \in {"COMPLETED", "FAILED"} => ~Unfinished(k))
    BY <1>2, <2>1 DEF Inv, GetInv
  <2>3. k = n => seen[d] \notin {"COMPLETED", "FAILED"}
    BY <1>1, <1>2, <2>1
  <2>4. cur'[d] = k
    BY <1>2, <2>1
  <2>5. Unfinished(cur[d])' => Unfinished(k)
    <3>1. Unfinished(cur[d])' => Unfinished(k)'
      BY <2>4 DEF Unfinished
    <3> QED BY <1>3, <3>1
  <2> QED BY <2>2, <2>3, <2>4, <2>5 DEF Matches
<1>9. OnlyWorkerCompletionIsSilent'
  <2> SUFFICES ASSUME NEW d \in Clients, pc'[d] = "asleep",
                      task'[cur'[d]].state \in {"COMPLETED", "FAILED", "CANCELLED"}
               PROVE  \/ finisher'[cur'[d]] = "worker"
                      \/ \E f \in Executors : pc'[f] = "broadcast" /\ cur'[f] = cur'[d]
    BY DEF OnlyWorkerCompletionIsSilent, Completed
  <2>1. pc[d] = "asleep" /\ cur'[d] = cur[d] /\ cur[d] \in Nodes
    BY <1>1, <1>2
  <2>2. CASE task[cur[d]].state = task'[cur[d]].state /\ finisher'[cur[d]] = finisher[cur[d]]
    <3>1. finisher[cur[d]] = "worker" \/ \E f \in Executors : pc[f] = "broadcast" /\ cur[f] = cur[d]
      BY <2>1, <2>2 DEF Inv, OnlyWorkerCompletionIsSilent, Completed
    <3> QED BY <1>0, <1>2, <2>1, <2>2, <3>1
  <2>3. CASE cur[d] = n /\ (finisher'[n] = "worker" \/ l = "broadcast")
    BY <1>2, <2>1, <2>3
  <2> QED BY <2>1, <2>2, <2>3
<1> QED BY <1>5, <1>7, <1>8, <1>9 DEF Rest

\* The steps of an executor that finishes a task.
LEMMA StoreRest ==
    ASSUME Inv, NEW e \in Executors,
           StoreRunning(e) \/ SetResult(e) \/ SetError(e) \/ StoreFinal(e)
    PROVE  Rest'
<1>0. /\ MemoryInv /\ pc[e] \in Early \cup Storing /\ pc[e] \in DropPc
      /\ UNCHANGED <<queue, seen>>
      /\ NULL # "out" /\ e \in Threads
  BY Sizes DEF Inv, StoreRunning, SetResult, SetError, StoreFinal, Early, Storing, DropPc, refVars, callVars
<1>1. PICK n \in Nodes : n = cur[e]
  BY <1>0, Mine
<1>2. /\ Unfinished(n) /\ task[n].state \notin {"COMPLETED", "FAILED"}
      /\ pc[e] \in Early => task[n].out = NULL /\ task[n].err = 0
      /\ pc[e] = "complete" => Matches(n, "COMPLETED")
      /\ pc[e] \in {"fail", "loopfail"} => Matches(n, "FAILED")
      /\ task \in [Nodes -> [state : States, ref : Nat, out : {NULL, "out"}, err : {0, 1}]]
      /\ finisher \in [Nodes -> {"worker", "loop", NULL}] /\ cur \in [Threads -> Nodes \cup {NULL}]
  BY <1>0, <1>1, Mine, CallTypes DEF Inv, MemoryInv, Types, TypeOK, ResultInv
<1>3. CASE StoreRunning(e)
  <2>1. PICK l \in {"setresult", "seterror"} : /\ pc' = [pc EXCEPT ![e] = l]
                                               /\ cur' = [cur EXCEPT ![e] = n]
    BY <1>1, <1>2, <1>3 DEF StoreRunning, Goto
  <2>2. /\ task' = [task EXCEPT ![n].state = "RUNNING"] /\ finisher' = finisher /\ pc[e] \in Early
        /\ l \in Early /\ l \notin {"complete", "fail", "loopfail", "broadcast", "idle"}
    BY <1>1, <1>3 DEF StoreRunning, Early
  <2>3. /\ task'[n].state = "RUNNING" /\ task'[n].out = NULL /\ task'[n].err = 0
        /\ \A k \in Nodes \ {n} : task'[k] = task[k] /\ finisher'[k] = finisher[k]
    BY <1>2, <2>2
  <2>4. Matches(n, task[n].state)'
    BY <2>3 DEF Matches
  <2> QED BY <1>0, <1>1, <2>1, <2>2, <2>3, <2>4, WorkRest
<1>4. CASE SetResult(e)
  <2>1. /\ pc' = [pc EXCEPT ![e] = "complete"] /\ task' = [task EXCEPT ![n].out = "out"]
        /\ finisher' = finisher /\ cur' = [cur EXCEPT ![e] = n] /\ pc[e] \in Early
        /\ "complete" \in Storing /\ "complete" \notin Early
    BY <1>1, <1>2, <1>4 DEF SetResult, Goto, Early, Storing
  <2>2. /\ task'[n].state = task[n].state /\ task'[n].out = "out" /\ task'[n].err = 0
        /\ finisher'[n] = finisher[n]
        /\ \A k \in Nodes \ {n} : task'[k] = task[k] /\ finisher'[k] = finisher[k]
    BY <1>2, <2>1
  <2>3. Matches(n, task[n].state)' /\ Matches(n, "COMPLETED")'
    BY <1>0, <1>2, <2>2 DEF Matches
  <2> QED BY <1>0, <1>1, <1>2, <2>1, <2>2, <2>3, WorkRest
<1>5. CASE SetError(e)
  <2>1. PICK l \in {"fail", "loopfail"} : /\ pc' = [pc EXCEPT ![e] = l]
                                          /\ cur' = [cur EXCEPT ![e] = n]
    BY <1>1, <1>2, <1>5 DEF SetError, Goto
  <2>2. /\ task' = [task EXCEPT ![n].err = 1] /\ finisher' = finisher /\ pc[e] \in Early
        /\ l \in Storing /\ l \notin Early /\ l # "complete" /\ l # "idle"
    BY <1>1, <1>5 DEF SetError, Early, Storing
  <2>3. /\ task'[n].state = task[n].state /\ task'[n].out = NULL /\ task'[n].err = 1
        /\ finisher'[n] = finisher[n]
        /\ \A k \in Nodes \ {n} : task'[k] = task[k] /\ finisher'[k] = finisher[k]
    BY <1>2, <2>2
  <2>4. Matches(n, task[n].state)' /\ Matches(n, "FAILED")'
    BY <1>2, <2>3 DEF Matches
  <2> QED BY <1>0, <1>1, <1>2, <2>1, <2>2, <2>3, <2>4, WorkRest
<1>6. CASE StoreFinal(e)
  <2>1. PICK l \in {"idle", "broadcast"} :
           /\ pc' = [pc EXCEPT ![e] = l] /\ (l = "broadcast" <=> pc[e] = "loopfail")
           /\ cur' = [cur EXCEPT ![e] = IF l = "idle" THEN NULL ELSE n]
    <3>1. CASE pc[e] = "loopfail"
      BY <1>1, <1>2, <1>6, <3>1 DEF StoreFinal, Goto
    <3>2. CASE pc[e] # "loopfail"
      BY <1>6, <3>2 DEF StoreFinal, Idle, At, Goto
    <3> QED BY <3>1, <3>2
  <2>2. PICK s \in {"COMPLETED", "FAILED"} : /\ task' = [task EXCEPT ![n].state = s]
                                             /\ s = "COMPLETED" <=> pc[e] = "complete"
    BY <1>1, <1>6 DEF StoreFinal
  <2>3. /\ finisher' = [finisher EXCEPT ![n] = IF pc[e] = "loopfail" THEN "loop" ELSE "worker"]
        /\ pc[e] \in {"complete", "fail", "loopfail"} /\ l \notin Early \cup Storing
    BY <1>1, <1>6 DEF StoreFinal, Early, Storing
  <2>4. /\ task'[n].state = s /\ task'[n].out = task[n].out /\ task'[n].err = task[n].err
        /\ \A k \in Nodes \ {n} : task'[k] = task[k] /\ finisher'[k] = finisher[k]
    BY <1>2, <2>2, <2>3
  <2>5. finisher'[n] = "worker" \/ l = "broadcast"
    BY <1>2, <2>1, <2>3
  <2>6. Matches(n, task[n].state)'
    <3>1. Matches(n, s)
      BY <1>2, <2>2, <2>3
    <3> QED BY <2>4, <3>1 DEF Matches
  <2> QED BY <1>0, <1>1, <2>1, <2>3, <2>4, <2>5, <2>6, WorkRest DEF Early, Storing
<1> QED BY <1>3, <1>4, <1>5, <1>6

-----------------------------------------------------------------------------
(* The theorems *)

\* The invariant holds at the start.
LEMMA InitInv == Init => Inv
<1> SUFFICES ASSUME Init PROVE Inv
  OBVIOUS
<1>1. Types /\ PlaceInv
  <2>1. <<>> \in Seq(Nodes) /\ NULL \in States \cup {NULL} /\ Blank \in [state : States, ref : Nat, out : {NULL, "out"}, err : {0, 1}]
    BY DEF Blank, States
  <2>2. /\ pc \in [Threads -> ClientPc \cup ExecutorPc] /\ cur \in [Threads -> Nodes \cup {NULL}]
        /\ \A t \in Threads : pc[t] = "idle" /\ cur[t] = NULL
    BY DEF Init, ClientPc
  <2>3. /\ mem \in [Nodes -> {"unalloc", "free", "live"}] /\ freeList \in Seq(Nodes)
        /\ created \in [Clients -> Nat]
        /\ task \in [Nodes -> [state : States, ref : Nat, out : {NULL, "out"}, err : {0, 1}]]
        /\ mutex \in [Nodes -> Clients \cup {NULL}] /\ fref \in [Nodes -> Nat]
        /\ queue \subseteq Nodes /\ held \in [Clients -> Seq(Nodes)]
        /\ timed \in [Clients -> BOOLEAN] /\ finisher \in [Nodes -> {"worker", "loop", NULL}]
        /\ bat \in [Clients -> [i : Nat, el : Nat]] /\ seen \in [Clients -> States \cup {NULL}]
    BY <2>1 DEF Init
  <2>4. Types
    BY <2>2, <2>3, Sizes DEF Types, TypeOK, ClientPc, ExecutorPc
  <2> QED BY <2>2, <2>4, Sizes DEF PlaceInv, OnFuture
<1>2. HeldInv
  BY DEF Init, HeldInv
<1>3. RefInv
  <2> SUFFICES ASSUME NEW n \in Nodes PROVE RefAt(n)
    BY DEF RefInv
  <2>1. Dropping(n) = {} /\ Holders(n) = {} /\ finisher[n] = NULL
    BY Sizes DEF Init, Dropping, Holders
  <2>2. Cardinality(Dropping(n)) = 0 /\ Cardinality(Holders(n)) = 0
    BY <2>1, FS_EmptySet
  <2>3. task[n].ref = 0 /\ fref[n] = 0 /\ n \notin queue /\ mem[n] = "unalloc"
    BY DEF Init, Blank
  <2> QED BY <2>1, <2>2, <2>3 DEF RefAt
<1>4. ListInv
  BY DEF Init, ListInv
<1>5. OneFinisher /\ FinisherInv /\ GetInv /\ OnlyWorkerCompletionIsSilent
  BY Sizes DEF Init, OneFinisher, FinisherInv, GetInv, OnlyWorkerCompletionIsSilent
<1>6. ResultInv
  <2>1. \A n \in Nodes : task[n].state = "PENDING"
    BY DEF Init, Blank
  <2>2. \A e \in Executors : pc[e] = "idle"
    BY Sizes DEF Init
  <2>3. queue = {}
    BY DEF Init
  <2> QED BY <2>1, <2>2, <2>3 DEF ResultInv, Matches, Early
<1> QED BY <1>1, <1>2, <1>3, <1>4, <1>5, <1>6 DEF Inv, MemoryInv

\* Every step keeps it.
LEMMA NextInv == Inv /\ [Next]_vars => Inv'
<1> SUFFICES ASSUME Inv, [Next]_vars PROVE Inv'
  OBVIOUS
<1>1. CASE UNCHANGED vars
  <2>1. UNCHANGED <<mem, freeList, created, task, mutex, fref, queue, held, pc, cur, timed, bat, seen,
                    finisher>>
    BY <1>1 DEF vars
  <2>2. MemoryInv'
    <3>1. Types' /\ PlaceInv'
      BY <2>1 DEF Inv, MemoryInv, Types, TypeOK, PlaceInv, Holders
    <3>2. HeldInv' /\ RefInv' /\ ListInv'
      BY <2>1, MemoryStays DEF Inv
    <3> QED BY <3>1, <3>2 DEF MemoryInv
  <2>3. (OneFinisher /\ FinisherInv /\ ResultInv /\ GetInv /\ OnlyWorkerCompletionIsSilent)'
    BY <2>1 DEF Inv, OneFinisher, FinisherInv, ResultInv, GetInv, OnlyWorkerCompletionIsSilent, Completed, Matches,
                Unfinished
  <2> QED BY <2>2, <2>3 DEF Inv
<1>2. CASE Next
  <2>1. MemoryInv'
    BY <1>2, NextMemory
  <2>2. Rest'
    <3>1. ASSUME NEW c \in Clients, Begin(c) \/ Continue(c) \/ SpuriousWake(c) PROVE Rest'
      BY <2>1, <3>1, CreateRest, CancelStoreRest, CallRest DEF Begin, Continue
    <3>2. ASSUME NEW e \in Executors, Execute(e) PROVE Rest'
      BY <2>1, <3>2, TakeRest, StoreRest, LoopBroadcastRest DEF Execute
    <3> QED BY <1>2, <2>1, <3>1, <3>2, UnrefRest, CleanupRest DEF Next
  <2> QED BY <2>1, <2>2 DEF Inv, Rest
<1> QED BY <1>1, <1>2

\* Inv holds in every reachable state, for every number of clients, executors and
\* nodes: the counts of the tasks and futures of task_manager.c are those of who
\* refers to them, and the results are stored before the states.
THEOREM Invariance == Spec => []Inv
<1>1. Init => Inv
  BY InitInv
<1>2. Inv /\ [Next]_vars => Inv'
  BY NextInv
<1> QED BY <1>1, <1>2, PTL DEF Spec

\* No use after free, and no leak but the one the code has (task_destroy,
\* future_destroy, task_pool_free, queue_destroy): a live node has exactly the
\* references its owners hold and the one a finished task keeps, who refers to a node
\* refers to a live one, and the free list is exact.
THEOREM ReferencesExact == Spec => []RefcountSafe
<1>1. Inv => RefcountSafe
  <2> SUFFICES ASSUME Inv PROVE RefcountSafe
    OBVIOUS
  <2>1. TypeOK /\ ListInv
    BY DEF Inv, MemoryInv, Types
  <2>2. ASSUME NEW n \in Nodes
        PROVE  mem[n] = "live" <=> \/ fref[n] > 0 \/ n \in queue \/ finisher[n] # NULL
                                   \/ \E t \in Threads : cur[t] = n
    <3>1. /\ RefAt(n) /\ IsFiniteSet(Dropping(n)) /\ IsFiniteSet(Holders(n)) /\ fref[n] \in Nat
          /\ task[n].ref \in Nat /\ MemoryInv
      BY Finite DEF Inv, MemoryInv, RefInv, Types, TypeOK
    <3>2. /\ Cardinality(Dropping(n)) \in Nat /\ (Cardinality(Dropping(n)) = 0 <=> Dropping(n) = {})
          /\ Cardinality(Holders(n)) \in Nat /\ (Cardinality(Holders(n)) = 0 <=> Holders(n) = {})
      BY <3>1, NoneCounted
    <3>3. fref[n] > 0 => Holders(n) # {}
      BY <3>1, <3>2 DEF RefAt
    <3>4. fref[n] > 0 \/ n \in queue \/ finisher[n] # NULL \/ (\E t \in Threads : cur[t] = n)
             => mem[n] = "live"
      BY <3>1, <3>3, UsedIsLive
    <3>5. ASSUME mem[n] = "live", fref[n] = 0, n \notin queue, finisher[n] = NULL
          PROVE  \E t \in Threads : cur[t] = n
      <4>1. Cardinality(Dropping(n)) > 0
        BY <3>1, <3>2, <3>5 DEF RefAt
      <4>2. Dropping(n) # {}
        BY <3>2, <4>1
      <4> QED BY <4>2 DEF Dropping
    <3> QED BY <3>1, <3>4, <3>5
  <2>3. \A n \in Nodes :
           /\ task[n].ref = (IF fref[n] > 0 THEN 1 ELSE 0) + (IF n \in queue THEN 1 ELSE 0)
                             + Cardinality(Dropping(n)) + (IF finisher[n] = NULL THEN 0 ELSE 1)
           /\ fref[n] = Cardinality(Holders(n))
    BY DEF Inv, MemoryInv, RefInv, RefAt
  <2> QED BY <2>1, <2>2, <2>3 DEF RefcountSafe, ListInv
<1> QED BY <1>1, Invariance, PTL

\* Who sleeps in task_wait on a finished task sleeps on one that worker_process_task
\* finished without a broadcast, or the event loop is about to wake it.
THEOREM OnlyWorkersAreSilent == Spec => []OnlyWorkerCompletionIsSilent
<1>1. Inv => OnlyWorkerCompletionIsSilent
  BY DEF Inv
<1> QED BY <1>1, Invariance, PTL

\* task_get_result copies what fits the state it tested without the mutex.
THEOREM ResultsMatch == Spec => []ResultMatchesState
<1>1. Inv => ResultMatchesState
  BY DEF Inv, GetInv, Matches, ResultMatchesState
<1> QED BY <1>1, Invariance, PTL
=============================================================================
